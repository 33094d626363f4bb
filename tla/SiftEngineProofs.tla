-------------------------- MODULE SiftEngineProofs --------------------------
(***************************************************************************)
(* What SiftEngine promises for every library of patterns, every stream of *)
(* edges and every order of calls.                                         *)
(*                                                                         *)
(* The inductive invariant is Inv.  Its parts lean on each other: that the *)
(* matches made in one call are finitely many, and so get ids, needs ids   *)
(* below next_match_id; that an advance keeps its parent's pattern needs   *)
(* ids to be unique; that ids fit u64 arithmetic needs TypeOK.  The one    *)
(* operation that writes matches is on_edge_added; every other operation   *)
(* only Retains some of them.                                              *)
(***************************************************************************)
EXTENDS SiftEngine, FiniteSetTheorems, SequenceTheorems, WellFoundedInduction, TLAPS

\* A non-empty set of naturals has a least element
LEMMA LeastNatural ==
  ASSUME NEW S \in SUBSET Nat, S # {}
  PROVE  \E x \in S : \A y \in S : x <= y
<1>1. PICK x \in S : \A y \in S : <<y, x>> \notin OpToRel(<, Nat)
  BY NatLessThanWellFounded, WFMin, Zenon
<1>2. \A y \in S : ~(y < x)
  BY <1>1 DEF OpToRel
<1> QED BY <1>2

\* Induction, from the least element a set of naturals has
LEMMA Induction ==
  ASSUME NEW S, 0 \in S, \A n \in Nat : n \in S => n + 1 \in S
  PROVE  Nat \subseteq S
<1> SUFFICES ASSUME Nat \ S # {}
             PROVE  FALSE
  OBVIOUS
<1>1. PICK m \in Nat \ S : \A k \in Nat \ S : m <= k
  BY LeastNatural
<1>2. m # 0
  OBVIOUS
<1>3. m - 1 \in Nat /\ m - 1 \notin Nat \ S
  BY <1>1, <1>2
<1> QED BY <1>1, <1>3

\* What the assumption on the library says of one pattern
LEMMA StageFacts ==
  ASSUME NEW i \in DOMAIN Library
  PROVE  /\ StageCount(Library[i]) \in Nat
         /\ Library[i].stages # << >> => StageCount(Library[i]) >= 1
         /\ \A s \in 1..StageCount(Library[i]) :
              /\ SegmentStart(Library[i], s) \in 1..s
              /\ SegmentEnd(Library[i], s) \in (s + 1)..(StageCount(Library[i]) + 1)
              /\ Segment(Library[i], s) \subseteq 1..StageCount(Library[i])
              /\ UnorderedGroup(Library[i], s) \subseteq 1..MaskBits
         /\ \A rr \in Library[i].repeat_range : rr.stage_start \in 1..StageCount(Library[i])
<1> DEFINE p == Library[i]
<1>1. /\ p.stages \in Seq({p.stages[s] : s \in DOMAIN p.stages})
      /\ \A s \in 1..StageCount(p) :
           /\ SegmentStart(p, s) \in 1..s
           /\ SegmentEnd(p, s) \in (s + 1)..(StageCount(p) + 1)
           /\ Segment(p, s) \subseteq 1..StageCount(p)
           /\ UnorderedGroup(p, s) \subseteq 1..MaskBits
      /\ \A rr \in p.repeat_range : rr.stage_start \in 1..StageCount(p)
  BY LibraryAssumption, Zenon DEF LibraryAssumption, BuiltPattern
<1>2. StageCount(p) \in Nat /\ (p.stages # << >> => StageCount(p) >= 1)
  <2> DEFINE T == {p.stages[s] : s \in DOMAIN p.stages}
  <2>1. p.stages \in Seq(T)
    BY <1>1
  <2> HIDE DEF T
  <2>2. Len(p.stages) \in Nat /\ (p.stages # << >> => Len(p.stages) \in Nat \ {0})
    BY <2>1, EmptySeq, LenProperties
  <2> QED BY <2>2 DEF StageCount
<1> QED BY <1>1, <1>2

\* The stage counts are bounded
LEMMA StageLimit ==
  \E limit \in Nat : \A i \in DOMAIN Library : StageCount(Library[i]) <= limit
<1>1. PICK limit \in {0} \cup {StageCount(Library[i]) : i \in DOMAIN Library} :
        \A i \in DOMAIN Library : StageCount(Library[i]) <= limit
  BY LibraryAssumption, Zenon DEF LibraryAssumption, BuiltPattern
<1>2. limit \in Nat
  BY StageFacts
<1> QED BY <1>1, <1>2

\* Patterns are numbered from 1
LEMMA LibraryDomain == Len(Library) \in Nat /\ DOMAIN Library = 1..Len(Library)
<1> DEFINE T == {Library[i] : i \in DOMAIN Library}
<1>1. Library \in Seq(T)
  BY LibraryAssumption, Zenon DEF LibraryAssumption, BuiltPattern
<1> HIDE DEF T
<1> QED BY <1>1, LenProperties

\* A stage of an unordered group has its bit in the mask
LEMMA InGroupMember ==
  ASSUME NEW i \in DOMAIN Library, NEW s \in 1..StageCount(Library[i])
  PROVE  InGroup(Library[i], s) => s \in 1..MaskBits
<1>1. UnorderedGroup(Library[i], s) \subseteq 1..MaskBits
  BY StageFacts, Zenon
<1>2. InGroup(Library[i], s) => s \in UnorderedGroup(Library[i], s)
  BY DEF InGroup, UnorderedGroup
<1> QED BY <1>1, <1>2

\* The stage after a segment exists, or is one past the last
LEMMA NextStageType ==
  ASSUME NEW i \in DOMAIN Library, NEW s \in 1..StageCount(Library[i]), NEW mask
  PROVE  NextStage(Library[i], s, mask) \in 1..(StageCount(Library[i]) + 1)
<1> DEFINE n == StageCount(Library[i])
<1>1. n \in Nat /\ s \in 1..n
  BY StageFacts
<1>2. SegmentStart(Library[i], s) \in 1..s /\ SegmentEnd(Library[i], s) \in (s + 1)..(n + 1)
  BY StageFacts, Zenon
<1>3. NextStage(Library[i], s, mask) \in {SegmentStart(Library[i], s), SegmentEnd(Library[i], s)}
  BY Zenon DEF NextStage
<1> HIDE DEF n
<1>4. NextStage(Library[i], s, mask) \in 1..(n + 1)
  BY <1>1, <1>2, <1>3
<1> QED BY <1>4 DEF n

\* The mask of matched stages fits its 64 bits
LEMMA NewMaskType ==
  ASSUME NEW i \in DOMAIN Library, NEW s \in 1..StageCount(Library[i]),
         NEW mask \in SUBSET (1..MaskBits)
  PROVE  NewMask(Library[i], s, mask) \subseteq 1..MaskBits
BY InGroupMember DEF NewMask

\* What an attempt is made of
LEMMA InitiationParts ==
  ASSUME NEW e, NEW k \in Initiations(e)
  PROVE  \E i \in Pats : /\ enabled[i] /\ Library[i].stages # << >>
                         /\ \E s \in Segment(Library[i], 1) : k = <<0, i, s, 0>>
BY Zenon DEF Initiations

\* What an advance is made of
LEMMA AdvanceParts ==
  ASSUME NEW e, NEW k \in Advances(e)
  PROVE  \E pm \in Advancing(e) : \E s \in TryStages(pm, e) : \E br \in Branches(pm, s, e) :
           k = <<1, pm.id, s, br>>
<1>1. PICK pm \in Advancing(e) :
        k \in UNION {{<<1, pm.id, s, br>> : br \in Branches(pm, s, e)} : s \in TryStages(pm, e)}
  BY DEF Advances
<1>2. PICK s \in TryStages(pm, e) : k \in {<<1, pm.id, s, br>> : br \in Branches(pm, s, e)}
  BY <1>1
<1> QED BY <1>2, Zenon

\* Only a repeating pattern loops
LEMMA BranchParts ==
  ASSUME NEW pm, NEW s, NEW e, NEW br \in Branches(pm, s, e)
  PROVE  /\ br \in {0, 1}
         /\ br = 1 => Library[pm.pattern_idx].repeat_range # {}
<1>1. CASE ~Looping(pm, s)
  BY <1>1 DEF Branches
<1>2. CASE Looping(pm, s)
  <2>1. \E rr \in Library[pm.pattern_idx].repeat_range : br \in {0, 1}
    BY <1>2, SMT DEF Branches
  <2> QED BY <2>1
<1> QED BY <1>1, <1>2

-----------------------------------------------------------------------------
(* Attempts: four-tuples of bounded numbers, totally ordered *)

Keys == Nat \X Nat \X Nat \X Nat

\* The order of the loops of on_edge_added is a strict total order
LEMMA PrecedesTotal ==
  ASSUME NEW k \in Keys, NEW l \in Keys, k # l
  PROVE  Precedes(k, l) \/ Precedes(l, k)
BY DEF Keys, Precedes

\* ... transitive
LEMMA PrecedesTransitive ==
  ASSUME NEW k \in Keys, NEW l \in Keys, NEW m \in Keys, Precedes(k, l), Precedes(l, m)
  PROVE  Precedes(k, m)
BY DEF Keys, Precedes

\* ... and irreflexive
LEMMA PrecedesIrreflexive ==
  ASSUME NEW k \in Keys
  PROVE  ~Precedes(k, k)
BY DEF Keys, Precedes

\* Four bounded numbers: finitely many tuples
LEMMA FiniteBox ==
  ASSUME NEW m \in Nat, NEW n \in Nat
  PROVE  IsFiniteSet((0..1) \X (0..m) \X (0..n) \X (0..1))
<1> DEFINE A == (0..1) \X (0..m)
           B == (0..n) \X (0..1)
           C == (0..1) \X (0..m) \X (0..n) \X (0..1)
           f == [x \in A \X B |-> <<x[1][1], x[1][2], x[2][1], x[2][2]>>]
<1>0. 0 \in Int /\ 1 \in Int /\ m \in Int /\ n \in Int
  OBVIOUS
<1>1. IsFiniteSet(0..1) /\ IsFiniteSet(0..m) /\ IsFiniteSet(0..n)
  BY <1>0, FS_Interval, Zenon
<1>2. IsFiniteSet(A) /\ IsFiniteSet(B)
  BY <1>1, FS_Product
<1>3. IsFiniteSet(A \X B)
  BY <1>2, FS_Product
<1>4. f \in Surjection(A \X B, C)
  <2>1. f \in [A \X B -> C]
    OBVIOUS
  <2>2. ASSUME NEW c \in C
        PROVE  \E x \in A \X B : f[x] = c
    <3>1. <<<<c[1], c[2]>>, <<c[3], c[4]>>>> \in A \X B
      OBVIOUS
    <3>2. f[<<<<c[1], c[2]>>, <<c[3], c[4]>>>>] = c
      OBVIOUS
    <3> QED BY <3>1, <3>2
  <2> QED BY <2>1, <2>2 DEF Surjection
<1> QED BY <1>3, <1>4, FS_Surjection

\* A match in progress has a stage to go to
LEMMA ActiveUnfinished ==
  ASSUME TypeOK, NEW pm \in Active
  PROVE  /\ IsMatch(pm) /\ pm.pattern_idx \in Pats /\ pm.pattern_idx \in DOMAIN Library
         /\ pm.next_stage \in 1..StageCount(Library[pm.pattern_idx])
<1>1. IsMatch(pm) /\ pm.state = "Active"
  BY DEF TypeOK, Active
<1>2. pm.pattern_idx \in Pats /\ pm.pattern_idx \in DOMAIN Library
  BY <1>1, LibraryDomain DEF IsMatch, TypeOK, Pats
<1>3. StageCount(Library[pm.pattern_idx]) \in Nat
  BY <1>2, StageFacts
<1>4. /\ pm.next_stage \in 1..(StageCount(Library[pm.pattern_idx]) + 1)
      /\ ~(pm.next_stage > StageCount(Library[pm.pattern_idx]))
  BY <1>1 DEF IsMatch, PastEnd
<1> QED BY <1>1, <1>2, <1>3, <1>4

\* A stage tried is a stage of the pattern of an enabled match
LEMMA TriedStage ==
  ASSUME TypeOK, NEW e, NEW pm \in Advancing(e), NEW s \in TryStages(pm, e)
  PROVE  pm \in Active /\ enabled[pm.pattern_idx] /\ s \in 1..StageCount(Library[pm.pattern_idx])
<1>1. pm \in Active /\ enabled[pm.pattern_idx]
  BY DEF Advancing
<1>2. s \in Segment(Library[pm.pattern_idx], pm.next_stage)
  BY DEF TryStages
<1>3. Segment(Library[pm.pattern_idx], pm.next_stage)
        \subseteq 1..StageCount(Library[pm.pattern_idx])
  BY <1>1, ActiveUnfinished, StageFacts
<1> QED BY <1>1, <1>2, <1>3

\* A stage a pattern starts at is one of its stages
LEMMA StartedStage ==
  ASSUME TypeOK, NEW i \in Pats, Library[i].stages # << >>, NEW s \in Segment(Library[i], 1)
  PROVE  i \in DOMAIN Library /\ s \in 1..StageCount(Library[i])
<1>1. i \in DOMAIN Library
  BY LibraryDomain DEF TypeOK, Pats
<1>2. 1 \in 1..StageCount(Library[i])
  BY <1>1, StageFacts
<1>3. Segment(Library[i], 1) \subseteq 1..StageCount(Library[i])
  BY <1>1, <1>2, StageFacts, Zenon
<1> QED BY <1>1, <1>3

\* One call makes finitely many matches
LEMMA AttemptsFinite ==
  ASSUME TypeOK, IdsUnique, NEW e
  PROVE  IsFiniteSet(Attempts(e)) /\ Attempts(e) \subseteq Keys
<1>1. PICK limit \in Nat : \A i \in DOMAIN Library : StageCount(Library[i]) <= limit
  BY StageLimit
<1> DEFINE Box == (0..1) \X (0..(registered + next_match_id)) \X (0..limit) \X (0..1)
<1>2. registered \in Nat /\ next_match_id \in Nat
  BY LibraryDomain DEF TypeOK
<1>3. ASSUME NEW k \in Initiations(e)
      PROVE  k \in Box
  <2>1. PICK i \in Pats : /\ Library[i].stages # << >>
                          /\ \E s \in Segment(Library[i], 1) : k = <<0, i, s, 0>>
    BY InitiationParts, Zenon
  <2>2. PICK s \in Segment(Library[i], 1) : k = <<0, i, s, 0>>
    BY <2>1
  <2>3. i \in DOMAIN Library /\ s \in 1..StageCount(Library[i])
    BY <2>1, StartedStage
  <2>4. StageCount(Library[i]) \in Nat /\ StageCount(Library[i]) <= limit
    BY <1>1, <2>3, StageFacts
  <2>5. s \in 0..limit /\ i \in 0..(registered + next_match_id)
    BY <1>2, <2>3, <2>4 DEF Pats
  <2> QED BY <2>2, <2>5
<1>4. ASSUME NEW k \in Advances(e)
      PROVE  k \in Box
  <2>1. PICK pm \in Advancing(e) : \E s \in TryStages(pm, e) : \E br \in Branches(pm, s, e) :
               k = <<1, pm.id, s, br>>
    BY AdvanceParts
  <2>2. PICK s \in TryStages(pm, e) : \E br \in Branches(pm, s, e) : k = <<1, pm.id, s, br>>
    BY <2>1
  <2>3. PICK br \in Branches(pm, s, e) : k = <<1, pm.id, s, br>>
    BY <2>2
  <2>4. br \in 0..1
    BY BranchParts
  <2>5. pm \in Active /\ s \in 1..StageCount(Library[pm.pattern_idx])
    BY TriedStage
  <2>6. IsMatch(pm) /\ pm.pattern_idx \in DOMAIN Library
    BY <2>5, ActiveUnfinished
  <2>7. StageCount(Library[pm.pattern_idx]) \in Nat
        /\ StageCount(Library[pm.pattern_idx]) <= limit
    BY <1>1, <2>6, StageFacts
  <2>8. s \in 0..limit
    BY <2>5, <2>7
  <2>9. pm.id \in Nat /\ pm.id < next_match_id
    BY <2>5, <2>6 DEF IsMatch, IdsUnique, Active
  <2>10. pm.id \in 0..(registered + next_match_id)
    BY <1>2, <2>9
  <2> QED BY <2>3, <2>4, <2>8, <2>10
<1>5. Attempts(e) \subseteq Box
  BY <1>3, <1>4 DEF Attempts
<1>6. IsFiniteSet(Box)
  BY <1>2, FiniteBox
<1>7. Box \subseteq Keys
  BY <1>2 DEF Keys
<1> QED BY <1>5, <1>6, <1>7, FS_Subset

-----------------------------------------------------------------------------
(* The match an attempt makes *)

\* The tick counter is a natural number
LEMMA TickType == TypeOK => tick_counter \in Nat
BY BoundsAssumption DEF BoundsAssumption, TypeOK

\* Phase 2 makes well-formed matches
LEMMA InitiatedIsMatch ==
  ASSUME TypeOK, NEW i \in Pats, NEW e, NEW s \in 1..StageCount(Library[i])
  PROVE  /\ IsMatch(Initiated(i, s, e)) /\ Initiated(i, s, e).pattern_idx = i
         /\ Initiated(i, s, e).created_at_tick = tick_counter
         /\ Initiated(i, s, e).last_advanced_tick = tick_counter
<1>1. i \in DOMAIN Library
  BY LibraryDomain DEF TypeOK, Pats
<1>2. /\ NextStage(Library[i], s, {}) \in 1..(StageCount(Library[i]) + 1)
      /\ NewMask(Library[i], s, {}) \subseteq 1..MaskBits
  BY <1>1, NextStageType, NewMaskType
<1>3. next_match_id \in Nat /\ tick_counter \in Nat
  BY TickType DEF TypeOK
<1> QED BY <1>2, <1>3 DEF Initiated, IsMatch, MatchFields

\* Phase 3 makes well-formed matches of its parent's pattern and birth
LEMMA AdvancedIsMatch ==
  ASSUME TypeOK, NEW pm \in Active, NEW e, NEW s \in 1..StageCount(Library[pm.pattern_idx])
  PROVE  /\ IsMatch(AdvancedMatch(pm, s, e))
         /\ AdvancedMatch(pm, s, e).pattern_idx = pm.pattern_idx
         /\ AdvancedMatch(pm, s, e).created_at_tick = pm.created_at_tick
         /\ AdvancedMatch(pm, s, e).last_advanced_tick = tick_counter
<1>1. IsMatch(pm) /\ pm.pattern_idx \in Pats /\ pm.pattern_idx \in DOMAIN Library
  BY ActiveUnfinished
<1>2. /\ NextStage(Library[pm.pattern_idx], s, pm.matched_stages)
           \in 1..(StageCount(Library[pm.pattern_idx]) + 1)
      /\ NewMask(Library[pm.pattern_idx], s, pm.matched_stages) \subseteq 1..MaskBits
  BY <1>1, NextStageType, NewMaskType DEF IsMatch
<1>3. next_match_id \in Nat /\ tick_counter \in Nat
  BY TickType DEF TypeOK
<1>4. NextRepetition(pm) \in Nat
  BY <1>1 DEF NextRepetition, IsMatch
<1> QED BY <1>1, <1>2, <1>3, <1>4 DEF AdvancedMatch, IsMatch, MatchFields

\* ... also when it loops back to the start of a repeat segment
LEMMA LoopedIsMatch ==
  ASSUME TypeOK, NEW pm \in Active, NEW e, NEW s \in 1..StageCount(Library[pm.pattern_idx]),
         NEW rr \in Library[pm.pattern_idx].repeat_range
  PROVE  /\ IsMatch(LoopedMatch(pm, s, e, rr))
         /\ LoopedMatch(pm, s, e, rr).pattern_idx = pm.pattern_idx
         /\ LoopedMatch(pm, s, e, rr).created_at_tick = pm.created_at_tick
         /\ LoopedMatch(pm, s, e, rr).last_advanced_tick = tick_counter
<1>1. pm.pattern_idx \in DOMAIN Library
  BY ActiveUnfinished
<1>2. /\ StageCount(Library[pm.pattern_idx]) \in Nat
      /\ rr.stage_start \in 1..StageCount(Library[pm.pattern_idx])
  BY <1>1, StageFacts
<1>3. /\ rr.stage_start \in 1..(StageCount(Library[pm.pattern_idx]) + 1)
      /\ ~PastEnd(pm.pattern_idx, rr.stage_start)
  BY <1>2 DEF PastEnd
<1> QED BY <1>3, AdvancedIsMatch DEF LoopedMatch, IsMatch, MatchFields

\* An advance starts from the one match of its id
LEMMA ParentOfAdvance ==
  ASSUME TypeOK, IdsUnique, NEW e, NEW k \in Advances(e)
  PROVE  \E pm \in Advancing(e) : \E s \in TryStages(pm, e) : \E br \in Branches(pm, s, e) :
           k = <<1, pm.id, s, br>> /\ Parent(k) = pm
<1>1. PICK pm \in Advancing(e) : \E s \in TryStages(pm, e) : \E br \in Branches(pm, s, e) :
             k = <<1, pm.id, s, br>>
  BY AdvanceParts
<1>2. PICK s \in TryStages(pm, e) : \E br \in Branches(pm, s, e) : k = <<1, pm.id, s, br>>
  BY <1>1
<1>3. PICK br \in Branches(pm, s, e) : k = <<1, pm.id, s, br>>
  BY <1>2
<1>4. pm \in pms
  BY DEF Advancing, Active
<1>5. k[2] = pm.id
  BY <1>3
<1>6. Parent(k) \in pms /\ Parent(k).id = pm.id
  BY <1>4, <1>5, Zenon DEF Parent
<1>7. Parent(k) = pm
  BY <1>4, <1>6 DEF IdsUnique
<1> QED BY <1>3, <1>7

\* What is needed of a match made, whichever way
GoodMatch(m) ==
  /\ IsMatch(m) /\ enabled[m.pattern_idx] /\ m.last_advanced_tick = tick_counter
  /\ \/ m.created_at_tick = tick_counter
     \/ \E pm \in Active : m.created_at_tick = pm.created_at_tick
                            /\ m.pattern_idx = pm.pattern_idx

\* Whatever an attempt makes is good
LEMMA MadeIsMatch ==
  ASSUME TypeOK, IdsUnique, NEW e, NEW k \in Attempts(e)
  PROVE  GoodMatch(Made(e, k))
<1>1. CASE k \in Initiations(e)
  <2>1. PICK i \in Pats : /\ enabled[i] /\ Library[i].stages # << >>
                          /\ \E s \in Segment(Library[i], 1) : k = <<0, i, s, 0>>
    BY <1>1, InitiationParts
  <2>2. PICK s \in Segment(Library[i], 1) : k = <<0, i, s, 0>>
    BY <2>1
  <2>3. s \in 1..StageCount(Library[i])
    BY <2>1, StartedStage
  <2>4. Made(e, k) = Initiated(i, s, e)
    BY <2>2 DEF Made
  <2> QED BY <2>1, <2>3, <2>4, InitiatedIsMatch DEF GoodMatch
<1>2. CASE k \in Advances(e)
  <2>1. PICK pm \in Advancing(e) : \E s \in TryStages(pm, e) : \E br \in Branches(pm, s, e) :
               k = <<1, pm.id, s, br>> /\ Parent(k) = pm
    BY <1>2, ParentOfAdvance
  <2>2. PICK s \in TryStages(pm, e) : \E br \in Branches(pm, s, e) : k = <<1, pm.id, s, br>>
    BY <2>1
  <2>3. PICK br \in Branches(pm, s, e) : k = <<1, pm.id, s, br>>
    BY <2>2
  <2>4. pm \in Active /\ enabled[pm.pattern_idx] /\ s \in 1..StageCount(Library[pm.pattern_idx])
    BY TriedStage
  <2>5. br \in {0, 1} /\ (br = 1 => Library[pm.pattern_idx].repeat_range # {})
    BY BranchParts
  <2>6. k[1] = 1 /\ k[3] = s /\ k[4] = br
    BY <2>3
  <2>7. CASE br = 0
    <3>1. Made(e, k) = AdvancedMatch(pm, s, e)
      BY <2>1, <2>6, <2>7 DEF Made
    <3> QED BY <2>4, <3>1, AdvancedIsMatch DEF GoodMatch
  <2>8. CASE br = 1
    <3> DEFINE rr == CHOOSE r \in Library[pm.pattern_idx].repeat_range : TRUE
    <3>1. rr \in Library[pm.pattern_idx].repeat_range
      BY <2>5, <2>8
    <3>2. Made(e, k) = LoopedMatch(Parent(k), k[3], e,
                                   CHOOSE r \in Library[Parent(k).pattern_idx].repeat_range : TRUE)
      BY <2>6, <2>8 DEF Made
    <3>3. Parent(k) = pm
      BY <2>1
    <3>4. Made(e, k) = LoopedMatch(pm, s, e, rr)
      BY <2>6, <3>2, <3>3
    <3> HIDE DEF rr
    <3> QED BY <2>4, <3>1, <3>4, LoopedIsMatch DEF GoodMatch
  <2> QED BY <2>5, <2>7, <2>8
<1> QED BY <1>1, <1>2 DEF Attempts

-----------------------------------------------------------------------------
(* Ids and fingerprints of the matches of one call *)

\* The attempts whose match is new: finitely many
LEMMA BornFacts ==
  ASSUME TypeOK, IdsUnique, NEW e
  PROVE  /\ DOMAIN MatchesMade(e) = Attempts(e)
         /\ \A k \in Attempts(e) : MatchesMade(e)[k] = Made(e, k)
         /\ KeptOf(MatchesMade(e)) \subseteq Born(MatchesMade(e))
         /\ Born(MatchesMade(e)) \subseteq Attempts(e)
         /\ Born(MatchesMade(e)) \subseteq Keys
         /\ IsFiniteSet(Born(MatchesMade(e)))
         /\ Cardinality(Born(MatchesMade(e))) \in Nat
<1>1. /\ DOMAIN MatchesMade(e) = Attempts(e)
      /\ \A k \in Attempts(e) : MatchesMade(e)[k] = Made(e, k)
  BY DEF MatchesMade
<1>2. Born(MatchesMade(e)) \subseteq Attempts(e)
  BY <1>1 DEF Born
<1>3. KeptOf(MatchesMade(e)) \subseteq Born(MatchesMade(e))
  BY DEF KeptOf
<1>4. IsFiniteSet(Born(MatchesMade(e)))
  BY <1>2, AttemptsFinite, FS_Subset
<1>5. Cardinality(Born(MatchesMade(e))) \in Nat
  BY <1>4, FS_CardinalityType
<1> QED BY <1>1, <1>2, <1>3, <1>4, <1>5, AttemptsFinite

\* Ids given in a call lie in the range it takes from next_match_id
LEMMA IdsInRange ==
  ASSUME TypeOK, IdsUnique, NEW e, NEW k \in Born(MatchesMade(e))
  PROVE  IdOf(MatchesMade(e), k)
           \in next_match_id..(next_match_id + Cardinality(Born(MatchesMade(e))) - 1)
<1> DEFINE B == Born(MatchesMade(e))
           Before == {l \in B : Precedes(l, k)}
<1>1. IsFiniteSet(B) /\ Cardinality(B) \in Nat /\ B \subseteq Keys
  BY BornFacts
<1>2. Before \subseteq B \ {k}
  BY <1>1, PrecedesIrreflexive
<1>3. IsFiniteSet(B \ {k}) /\ Cardinality(B \ {k}) = Cardinality(B) - 1
  BY <1>1, FS_RemoveElement
<1>4. IsFiniteSet(Before) /\ Cardinality(Before) <= Cardinality(B) - 1
  BY <1>2, <1>3, FS_Subset
<1>5. Cardinality(Before) \in Nat
  BY <1>4, FS_CardinalityType
<1>6. next_match_id \in Nat
  BY DEF TypeOK
<1>7. IdOf(MatchesMade(e), k) = next_match_id + Cardinality(Before)
  BY DEF IdOf
<1> HIDE DEF B, Before
<1>8. IdOf(MatchesMade(e), k) \in next_match_id..(next_match_id + Cardinality(B) - 1)
  BY <1>1, <1>4, <1>5, <1>6, <1>7
<1> QED BY <1>8 DEF B

\* Ids follow the order of the loops
LEMMA IdsIncrease ==
  ASSUME TypeOK, IdsUnique, NEW e,
         NEW k \in Born(MatchesMade(e)), NEW l \in Born(MatchesMade(e)), Precedes(k, l)
  PROVE  IdOf(MatchesMade(e), k) < IdOf(MatchesMade(e), l)
<1> DEFINE B == Born(MatchesMade(e))
           Bk == {m \in B : Precedes(m, k)}
           Bl == {m \in B : Precedes(m, l)}
<1>1. IsFiniteSet(B) /\ B \subseteq Keys
  BY BornFacts
<1>2. k \in Bl /\ k \notin Bk /\ Bk \cup {k} \subseteq Bl
  BY <1>1, PrecedesIrreflexive, PrecedesTransitive
<1>3. IsFiniteSet(Bk) /\ IsFiniteSet(Bl)
  BY <1>1, FS_Subset
<1>4. Cardinality(Bk \cup {k}) = Cardinality(Bk) + 1
  BY <1>2, <1>3, FS_AddElement
<1>5. Cardinality(Bk \cup {k}) <= Cardinality(Bl)
  BY <1>2, <1>3, FS_Subset
<1>6. Cardinality(Bk) \in Nat /\ Cardinality(Bl) \in Nat
  BY <1>3, FS_CardinalityType
<1>7. next_match_id \in Nat
  BY DEF TypeOK
<1>8. /\ IdOf(MatchesMade(e), k) = next_match_id + Cardinality(Bk)
      /\ IdOf(MatchesMade(e), l) = next_match_id + Cardinality(Bl)
  BY DEF IdOf
<1> HIDE DEF B, Bk, Bl
<1> QED BY <1>4, <1>5, <1>6, <1>7, <1>8

\* No id is given twice in a call
LEMMA IdsDistinct ==
  ASSUME TypeOK, IdsUnique, NEW e,
         NEW k \in Born(MatchesMade(e)), NEW l \in Born(MatchesMade(e)),
         IdOf(MatchesMade(e), k) = IdOf(MatchesMade(e), l)
  PROVE  k = l
<1>1. k \in Keys /\ l \in Keys
  BY BornFacts
<1>2. /\ Precedes(k, l) => IdOf(MatchesMade(e), k) < IdOf(MatchesMade(e), l)
      /\ Precedes(l, k) => IdOf(MatchesMade(e), l) < IdOf(MatchesMade(e), k)
  BY IdsIncrease
<1>3. IdOf(MatchesMade(e), k) \in Nat
  BY IdsInRange, BornFacts DEF TypeOK
<1>4. ~Precedes(k, l) /\ ~Precedes(l, k)
  BY <1>2, <1>3
<1> QED BY <1>1, <1>4, PrecedesTotal

\* No fingerprint is born twice in a call
LEMMA BornFingerprints ==
  ASSUME TypeOK, IdsUnique, NEW e,
         NEW k \in Born(MatchesMade(e)), NEW l \in Born(MatchesMade(e)),
         Fingerprint(MatchesMade(e)[k]) = Fingerprint(MatchesMade(e)[l])
  PROVE  k = l
<1>1. k \in Keys /\ l \in Keys
  BY BornFacts
<1>2. ~Precedes(k, l) /\ ~Precedes(l, k)
  BY Zenon DEF Born
<1> QED BY <1>1, <1>2, PrecedesTotal

\* Giving a match its id changes nothing else of it
LEMMA NewMatchFacts ==
  ASSUME TypeOK, IdsUnique, NEW e, NEW n \in NewMatches(MatchesMade(e))
  PROVE  \E k \in KeptOf(MatchesMade(e)) :
           /\ n = [MatchesMade(e)[k] EXCEPT !.id = IdOf(MatchesMade(e), k)]
           /\ n.id = IdOf(MatchesMade(e), k) /\ n.id \in Nat
           /\ Fingerprint(n) = Fingerprint(MatchesMade(e)[k])
           /\ GoodMatch(n)
<1> DEFINE made == MatchesMade(e)
<1>1. PICK k \in KeptOf(made) : n = [made[k] EXCEPT !.id = IdOf(made, k)]
  BY Zenon DEF NewMatches
<1>2. k \in Born(made) /\ k \in Attempts(e) /\ made[k] = Made(e, k)
  BY BornFacts
<1>3. GoodMatch(made[k])
  BY <1>2, MadeIsMatch
<1>4. IdOf(made, k) \in Nat
  BY <1>2, IdsInRange, BornFacts DEF TypeOK
<1> HIDE DEF made
<1>5. DOMAIN made[k] = MatchFields
  BY <1>3 DEF GoodMatch, IsMatch
<1>6. DOMAIN n = MatchFields /\ n.id = IdOf(made, k)
  BY <1>1, <1>5 DEF MatchFields
<1>7. /\ n.pattern_idx = made[k].pattern_idx /\ n.next_stage = made[k].next_stage
      /\ n.repetition_count = made[k].repetition_count
      /\ n.matched_stages = made[k].matched_stages
      /\ n.bindings = made[k].bindings /\ n.intervals = made[k].intervals
      /\ n.state = made[k].state /\ n.created_at_tick = made[k].created_at_tick
      /\ n.last_advanced_tick = made[k].last_advanced_tick
  BY <1>1, <1>5 DEF MatchFields
<1>8. Fingerprint(n) = Fingerprint(made[k])
  BY <1>7, Zenon DEF Fingerprint
<1>9. GoodMatch(n)
  BY <1>3, <1>4, <1>6, <1>7, Zenon DEF GoodMatch, IsMatch
<1> QED BY <1>1, <1>4, <1>6, <1>8, <1>9 DEF made

\* Finitely many matches are written in a call
LEMMA NewMatchesFinite ==
  ASSUME TypeOK, IdsUnique, NEW e
  PROVE  IsFiniteSet(NewMatches(MatchesMade(e)))
<1> DEFINE made == MatchesMade(e)
           f == [k \in KeptOf(made) |-> [made[k] EXCEPT !.id = IdOf(made, k)]]
<1>1. IsFiniteSet(KeptOf(made))
  BY BornFacts, FS_Subset
<1>2. f \in Surjection(KeptOf(made), NewMatches(made))
  BY DEF NewMatches, Surjection
<1> QED BY <1>1, <1>2, FS_Surjection

\* The new matches have ids and fingerprints of their own
LEMMA NewMatchesApart ==
  ASSUME TypeOK, IdsUnique, NEW e
  PROVE  /\ \A n \in NewMatches(MatchesMade(e)) :
              /\ n.id \in next_match_id..(next_match_id + Cardinality(Born(MatchesMade(e))) - 1)
              /\ Fingerprint(n) \notin Fingerprints(pms)
         /\ \A m, n \in NewMatches(MatchesMade(e)) :
              m.id = n.id \/ Fingerprint(m) = Fingerprint(n) => m = n
<1> DEFINE made == MatchesMade(e)
<1>1. ASSUME NEW n \in NewMatches(made)
      PROVE  /\ n.id \in next_match_id..(next_match_id + Cardinality(Born(made)) - 1)
             /\ Fingerprint(n) \notin Fingerprints(pms)
  <2>1. PICK k \in KeptOf(made) : /\ n.id = IdOf(made, k)
                                  /\ Fingerprint(n) = Fingerprint(made[k])
    BY NewMatchFacts
  <2>2. k \in Born(made)
    BY BornFacts
  <2>3. Fingerprint(made[k]) \notin Fingerprints(pms)
    BY <2>2 DEF Born
  <2> QED BY <2>1, <2>2, <2>3, IdsInRange
<1>2. ASSUME NEW m \in NewMatches(made), NEW n \in NewMatches(made),
             m.id = n.id \/ Fingerprint(m) = Fingerprint(n)
      PROVE  m = n
  <2>1. PICK k \in KeptOf(made) : /\ m = [made[k] EXCEPT !.id = IdOf(made, k)]
                                  /\ m.id = IdOf(made, k)
                                  /\ Fingerprint(m) = Fingerprint(made[k])
    BY NewMatchFacts
  <2>2. PICK l \in KeptOf(made) : /\ n = [made[l] EXCEPT !.id = IdOf(made, l)]
                                  /\ n.id = IdOf(made, l)
                                  /\ Fingerprint(n) = Fingerprint(made[l])
    BY NewMatchFacts
  <2>3. k \in Born(made) /\ l \in Born(made)
    BY BornFacts
  <2>4. CASE m.id = n.id
    BY <2>1, <2>2, <2>3, <2>4, IdsDistinct
  <2>5. CASE Fingerprint(m) = Fingerprint(n)
    BY <2>1, <2>2, <2>3, <2>5, BornFingerprints
  <2> QED BY <1>2, <2>4, <2>5
<1> QED BY <1>1, <1>2

\* The store holds what it held and what the call wrote
LEMMA StoreAfterParts ==
  ASSUME NEW e, NEW pm \in StoreAfter(e, MatchesMade(e))
  PROVE  pm \in pms \/ pm \in NewMatches(MatchesMade(e))
BY DEF StoreAfter

\* The store after the call is well-formed
LEMMA StoreAfterIsOK ==
  ASSUME TypeOK, IdsUnique, NEW e
  PROVE  /\ IsFiniteSet(StoreAfter(e, MatchesMade(e)))
         /\ \A pm \in StoreAfter(e, MatchesMade(e)) : IsMatch(pm)
<1>1. StoreAfter(e, MatchesMade(e)) \subseteq pms \cup NewMatches(MatchesMade(e))
  BY StoreAfterParts
<1>2. IsFiniteSet(pms \cup NewMatches(MatchesMade(e)))
  BY NewMatchesFinite, FS_Union DEF TypeOK
<1>3. \A n \in NewMatches(MatchesMade(e)) : IsMatch(n)
  BY NewMatchFacts DEF GoodMatch
<1>4. \A pm \in pms : IsMatch(pm)
  BY DEF TypeOK
<1> QED BY <1>1, <1>2, <1>3, <1>4, FS_Subset

-----------------------------------------------------------------------------
(* The metrics *)

MetricsType == [ last_advanced_tick : Nat, completion_count : Nat,
                 advancement_count : Nat, negation_count : Nat ]

\* The first pattern of a name is the least of its indices
LEMMA FirstNamedFacts ==
  ASSUME registered \in Nat, NEW i \in Pats
  PROVE  /\ FirstNamed(i) \in Pats
         /\ Library[FirstNamed(i)].name = Library[i].name
         /\ \A k \in Pats : Library[k].name = Library[i].name => FirstNamed(i) <= k
<1>1. i \in Named(Library[i].name) /\ Named(Library[i].name) \in SUBSET Nat
  BY DEF Named, Pats
<1>2. \E j \in Named(Library[i].name) : \A k \in Named(Library[i].name) : j <= k
  BY <1>1, LeastNatural
<1>3. /\ FirstNamed(i) \in Named(Library[i].name)
      /\ \A k \in Named(Library[i].name) : FirstNamed(i) <= k
  BY <1>2, Zenon DEF FirstNamed
<1> QED BY <1>3 DEF Named

\* FirstNamed is determined by being least
LEMMA FirstNamedUnique ==
  ASSUME registered \in Nat, NEW i \in Pats, NEW j \in Pats,
         Library[j].name = Library[i].name,
         \A k \in Pats : Library[k].name = Library[i].name => j <= k
  PROVE  FirstNamed(i) = j
<1>1. FirstNamed(i) <= j /\ j <= FirstNamed(i)
  BY FirstNamedFacts
<1> QED BY <1>1, FirstNamedFacts DEF Pats

\* Counting events: a natural, positive when there is one
LEMMA CountedType ==
  ASSUME NEW S, IsFiniteSet(S), NEW i
  PROVE  /\ Counted(S, i) \in Nat
         /\ \A pm \in S : FirstNamed(pm.pattern_idx) = i => Counted(S, i) > 0
<1> DEFINE T == {pm \in S : FirstNamed(pm.pattern_idx) = i}
<1>1. IsFiniteSet(T)
  BY FS_Subset
<1>2. Cardinality(T) \in Nat /\ (Cardinality(T) = 0 <=> T = {})
  BY <1>1, FS_CardinalityType, FS_EmptySet
<1>3. Counted(S, i) = Cardinality(T)
  BY DEF Counted
<1>4. \A pm \in S : FirstNamed(pm.pattern_idx) = i => T # {}
  OBVIOUS
<1> HIDE DEF T
<1> QED BY <1>2, <1>3, <1>4

\* The metrics after a call, and the clock they keep
LEMMA MetricsAfterType ==
  ASSUME TypeOK, NEW A, NEW C, NEW K, IsFiniteSet(A), IsFiniteSet(C), IsFiniteSet(K)
  PROVE  /\ MetricsAfter(A, C, K) \in [Pats -> MetricsType]
         /\ \A i \in Pats :
              MetricsAfter(A, C, K)[i].last_advanced_tick =
                IF Counted(A \cup C, i) > 0 THEN tick_counter ELSE metrics[i].last_advanced_tick
<1>1. metrics \in [Pats -> MetricsType] /\ tick_counter \in Nat
  BY TickType DEF TypeOK, MetricsType
<1>2. IsFiniteSet(A \cup C)
  BY FS_Union
<1>3. ASSUME NEW i \in Pats
      PROVE  /\ MetricsAfter(A, C, K)[i] \in MetricsType
             /\ MetricsAfter(A, C, K)[i].last_advanced_tick =
                  IF Counted(A \cup C, i) > 0 THEN tick_counter ELSE metrics[i].last_advanced_tick
  <2>1. Counted(A, i) \in Nat /\ Counted(C, i) \in Nat /\ Counted(K, i) \in Nat
    BY CountedType
  <2>2. metrics[i] \in MetricsType
    BY <1>1
  <2>3. /\ metrics[i].advancement_count + Counted(A, i) \in Nat
        /\ metrics[i].completion_count + Counted(C, i) \in Nat
        /\ metrics[i].negation_count + Counted(K, i) \in Nat
        /\ metrics[i].last_advanced_tick \in Nat
    BY <2>1, <2>2 DEF MetricsType
  <2>4. MetricsAfter(A, C, K)[i] =
          [ advancement_count  |-> metrics[i].advancement_count + Counted(A, i),
            completion_count   |-> metrics[i].completion_count + Counted(C, i),
            negation_count     |-> metrics[i].negation_count + Counted(K, i),
            last_advanced_tick |-> IF Counted(A \cup C, i) > 0
                                   THEN tick_counter ELSE metrics[i].last_advanced_tick ]
    BY Zenon DEF MetricsAfter
  <2> QED BY <1>1, <2>3, <2>4 DEF MetricsType
<1>4. DOMAIN MetricsAfter(A, C, K) = Pats
  BY DEF MetricsAfter
<1>5. MetricsAfter(A, C, K) = [i \in Pats |-> MetricsAfter(A, C, K)[i]]
  BY DEF MetricsAfter
<1> QED BY <1>3, <1>4, <1>5

-----------------------------------------------------------------------------
(* The inductive invariant *)

Inv == TypeOK /\ IdsUnique /\ NoDuplicateMatch /\ DisabledPatternsQuiet /\ ClocksAgree

\* A new engine satisfies the invariant
LEMMA InitInv == Init => Inv
<1> SUFFICES ASSUME Init PROVE Inv
  OBVIOUS
<1>1. Pats = {} /\ registered = 0 /\ pms = {}
  BY DEF Init, Pats
<1>2. TypeOK
  <2>1. graph \in Seq(Edge) /\ notified \subseteq DOMAIN graph
    BY EmptySeq DEF Init
  <2>2. enabled \in [Pats -> BOOLEAN] /\ metrics \in [Pats -> MetricsType]
    BY <1>1 DEF Init
  <2>3. IsFiniteSet(pms)
    BY <1>1, FS_EmptySet
  <2> QED BY <1>1, <2>1, <2>2, <2>3, LibraryDomain, BoundsAssumption
          DEF TypeOK, Init, BoundsAssumption, MetricsType
<1>3. IdsUnique /\ NoDuplicateMatch /\ DisabledPatternsQuiet /\ ClocksAgree
  BY <1>1 DEF IdsUnique, NoDuplicateMatch, DisabledPatternsQuiet, ClocksAgree, Active
<1> QED BY <1>2, <1>3 DEF Inv

\* What every operation does that writes no match
Retains ==
  /\ pms' \subseteq pms
  /\ registered' = registered /\ next_match_id' = next_match_id /\ metrics' = metrics
  /\ graph' \in Seq(Edge) /\ notified' \subseteq DOMAIN graph'
  /\ tick_counter' \in Nat /\ tick_counter <= tick_counter' /\ tick_counter' <= MaxTick
  /\ enabled' \in [Pats -> BOOLEAN]
  /\ \A pm \in pms' : pm.state = "Active" => enabled'[pm.pattern_idx]

\* Operations that write no match preserve the invariant
LEMMA RetainsInv ==
  ASSUME Inv, Retains
  PROVE  Inv'
<1>1. TypeOK'
  <2>1. IsFiniteSet(pms')
    BY FS_Subset DEF Inv, TypeOK, Retains
  <2>2. \A pm \in pms' : IsMatch(pm)'
    BY DEF Inv, TypeOK, Retains, IsMatch, PastEnd, Pats
  <2>3. tick_counter' \in 0..MaxTick
    BY BoundsAssumption DEF Retains, BoundsAssumption
  <2> QED BY <2>1, <2>2, <2>3 DEF Inv, TypeOK, Retains, Pats
<1>2. IdsUnique' /\ NoDuplicateMatch'
  BY DEF Inv, Retains, IdsUnique, NoDuplicateMatch, Fingerprint
<1>3. DisabledPatternsQuiet'
  BY DEF Retains, DisabledPatternsQuiet, Active
<1>4. ClocksAgree'
  <2>1. \A i : FirstNamed(i)' = FirstNamed(i)
    BY DEF FirstNamed, Named, Pats, Retains
  <2>2. \A i \in Pats : metrics[i].last_advanced_tick \in Nat /\ tick_counter \in Nat
    BY TickType DEF Inv, TypeOK
  <2>3. \A i \in Pats : metrics'[i].last_advanced_tick <= tick_counter'
    BY <2>2 DEF Inv, ClocksAgree, Retains
  <2> QED BY <2>1, <2>3 DEF Inv, ClocksAgree, Retains, Pats
<1> QED BY <1>1, <1>2, <1>3, <1>4 DEF Inv

\* Operations that only drop matches retain
LEMMA RetainsSame ==
  ASSUME Inv, pms' \subseteq pms,
         UNCHANGED <<registered, next_match_id, metrics, enabled>>,
         UNCHANGED <<graph, notified>>, UNCHANGED tick_counter
  PROVE  Retains
<1>1. tick_counter \in Nat /\ tick_counter <= tick_counter /\ tick_counter <= MaxTick
  BY BoundsAssumption DEF Inv, TypeOK, BoundsAssumption
<1>2. \A pm \in pms' : pm.state = "Active" => enabled[pm.pattern_idx]
  BY DEF Inv, DisabledPatternsQuiet, Active
<1> QED BY <1>1, <1>2 DEF Inv, TypeOK, Retains

\* Inserting edges into the graph leaves the engine alone
LEMMA InsertRetains ==
  ASSUME Inv, NEW es \in Batches, Insert(es)
  PROVE  Retains
<1>1. graph \in Seq(Edge) /\ es \in Seq(Edge) /\ notified \subseteq DOMAIN graph
  BY BatchesAssumption DEF Inv, TypeOK, BatchesAssumption
<1>2. graph \o es \in Seq(Edge) /\ DOMAIN graph \subseteq DOMAIN (graph \o es)
  BY <1>1, ConcatProperties, LenProperties
<1>3. tick_counter \in Nat /\ tick_counter <= tick_counter /\ tick_counter <= MaxTick
  BY BoundsAssumption DEF Inv, TypeOK, BoundsAssumption
<1>4. \A pm \in pms : pm.state = "Active" => enabled[pm.pattern_idx]
  BY DEF Inv, DisabledPatternsQuiet, Active
<1> QED BY <1>1, <1>2, <1>3, <1>4 DEF Inv, TypeOK, Retains, Insert, matches

\* set_pattern_enabled drops what a disabled pattern has in progress
LEMMA SetPatternEnabledRetains ==
  ASSUME Inv, NEW i \in Pats, NEW on \in BOOLEAN, SetPatternEnabled(i, on)
  PROVE  Retains
<1>1. enabled \in [Pats -> BOOLEAN] /\ \A pm \in pms : pm.pattern_idx \in Pats
  BY DEF Inv, TypeOK, IsMatch
<1>2. enabled' = [enabled EXCEPT ![i] = on] /\ enabled' \in [Pats -> BOOLEAN]
  BY <1>1 DEF SetPatternEnabled
<1>3. pms' \subseteq pms
  BY DEF SetPatternEnabled
<1>4. ASSUME NEW pm \in pms', pm.state = "Active"
      PROVE  enabled'[pm.pattern_idx]
  <2>1. pm \in pms /\ pm.pattern_idx \in Pats /\ enabled[pm.pattern_idx]
    BY <1>1, <1>3, <1>4 DEF Inv, DisabledPatternsQuiet, Active
  <2>2. CASE on
    BY <1>1, <1>2, <2>1, <2>2
  <2>3. CASE ~on
    <3>1. pm.pattern_idx # i
      BY <1>4, <2>3 DEF SetPatternEnabled
    <3> QED BY <1>1, <1>2, <2>1, <3>1
  <2> QED BY <2>2, <2>3
<1>5. tick_counter \in Nat /\ tick_counter <= tick_counter /\ tick_counter <= MaxTick
  BY BoundsAssumption DEF Inv, TypeOK, BoundsAssumption
<1> QED BY <1>2, <1>3, <1>4, <1>5
    DEF Inv, TypeOK, Retains, SetPatternEnabled, dataSource

\* tick and end_tick only move the clock forward
LEMMA TickRetains ==
  ASSUME Inv, tick_counter < MaxTick, tick_counter' = tick_counter + 1, pms' \subseteq pms,
         UNCHANGED <<dataSource, registered, next_match_id, enabled, metrics>>
  PROVE  Retains
<1>1. /\ tick_counter' \in Nat /\ tick_counter <= tick_counter' /\ tick_counter' <= MaxTick
  BY TickType, BoundsAssumption DEF Inv, BoundsAssumption
<1>2. \A pm \in pms' : pm.state = "Active" => enabled[pm.pattern_idx]
  BY DEF Inv, DisabledPatternsQuiet, Active
<1> QED BY <1>1, <1>2 DEF Inv, TypeOK, Retains, dataSource

\* Appending to a sequence given as a function
LEMMA AppendToFunction ==
  ASSUME NEW S, NEW n \in Nat, NEW f \in [1..n -> S], NEW x \in S
  PROVE  /\ Append(f, x) \in [1..(n + 1) -> S]
         /\ \A i \in 1..n : Append(f, x)[i] = f[i]
         /\ Append(f, x)[n + 1] = x
<1>1. f \in Seq(S) /\ Len(f) = n
  BY SeqDef, LenProperties
<1>2. Append(f, x) \in Seq(S) /\ Len(Append(f, x)) = n + 1
  BY <1>1, AppendProperties
<1>3. Append(f, x) \in [1..(n + 1) -> S]
  BY <1>2, LenProperties
<1> QED BY <1>1, <1>3, AppendProperties

\* ... keeps what was there
LEMMA AppendKeeps ==
  ASSUME NEW S, NEW n \in Nat, NEW f \in [1..n -> S], NEW x \in S
  PROVE  \A i \in 1..n : Append(f, x)[i] = f[i]
BY AppendToFunction

\* register gives the new pattern metrics of its own
LEMMA RegisterMetrics ==
  ASSUME TypeOK, Register
  PROVE  /\ registered \in Nat /\ registered' = registered + 1 /\ registered' \in 0..Len(Library)
         /\ metrics' \in [1..(registered + 1) -> MetricsType]
         /\ \A i \in 1..registered : metrics'[i] = metrics[i]
         /\ metrics'[registered + 1] = NewMetrics
<1>1. NewMetrics \in MetricsType
  BY DEF NewMetrics, MetricsType
<1>2. metrics' = Append(metrics, NewMetrics)
  BY DEF Register
<1>3. /\ registered \in Nat /\ registered' = registered + 1 /\ registered' \in 0..Len(Library)
      /\ metrics \in [1..registered -> MetricsType]
  BY LibraryDomain DEF TypeOK, Register, Pats, MetricsType
<1>4. Append(metrics, NewMetrics) \in [1..(registered + 1) -> MetricsType]
  BY ONLY <1>1, <1>3, AppendToFunction, Zenon
<1>5. \A i \in 1..registered : Append(metrics, NewMetrics)[i] = metrics[i]
  BY ONLY <1>1, <1>3, AppendToFunction
<1>6. Append(metrics, NewMetrics)[registered + 1] = NewMetrics
  BY ONLY <1>1, <1>3, AppendToFunction
<1> QED BY <1>2, <1>3, <1>4, <1>5, <1>6

\* ... and changes no pattern's first namesake
LEMMA RegisterNames ==
  ASSUME TypeOK, Register, NEW i \in Pats
  PROVE  FirstNamed(i)' = FirstNamed(i) /\ FirstNamed(i) \in 1..registered
<1>1. registered \in Nat /\ registered' = registered + 1
  BY RegisterMetrics
<1>2. /\ FirstNamed(i) \in Pats /\ Library[FirstNamed(i)].name = Library[i].name
      /\ \A k \in Pats : Library[k].name = Library[i].name => FirstNamed(i) <= k
  BY <1>1, FirstNamedFacts
<1>3. /\ i \in 1..registered' /\ FirstNamed(i) \in 1..registered' /\ registered' \in Nat
      /\ \A k \in 1..registered' : Library[k].name = Library[i].name => FirstNamed(i) <= k
  BY <1>1, <1>2 DEF Pats
<1>4. (FirstNamed(i)') \in 1..registered' /\ Library[FirstNamed(i)'].name = Library[i].name
      /\ \A k \in 1..registered' : Library[k].name = Library[i].name => (FirstNamed(i)') <= k
  <2>1. i \in Named(Library[i].name)' /\ (Named(Library[i].name)') \in SUBSET Nat
    BY <1>3 DEF Named, Pats
  <2>2. \E j \in (Named(Library[i].name)') : \A k \in (Named(Library[i].name)') : j <= k
    BY <2>1, LeastNatural
  <2>3. /\ (FirstNamed(i)') \in (Named(Library[i].name)')
        /\ \A k \in (Named(Library[i].name)') : (FirstNamed(i)') <= k
    BY <2>2, Zenon DEF FirstNamed
  <2> QED BY <2>3 DEF Named, Pats
<1>5. (FirstNamed(i)') <= FirstNamed(i) /\ FirstNamed(i) <= (FirstNamed(i)')
  BY <1>2, <1>3, <1>4
<1> QED BY <1>2, <1>3, <1>4, <1>5 DEF Pats

\* register preserves the invariant
LEMMA RegisterInv ==
  ASSUME Inv, Register
  PROVE  Inv'
<1>1. /\ registered \in Nat /\ registered' = registered + 1 /\ registered' \in 0..Len(Library)
      /\ enabled \in [1..registered -> BOOLEAN] /\ metrics \in [1..registered -> MetricsType]
  BY LibraryDomain DEF Inv, TypeOK, Register, Pats, MetricsType
<1>2. /\ enabled' \in [1..(registered + 1) -> BOOLEAN]
      /\ \A i \in 1..registered : enabled'[i] = enabled[i]
  <2>1. TRUE \in BOOLEAN /\ enabled' = Append(enabled, TRUE)
    BY DEF Register
  <2>2. registered \in Nat /\ enabled \in [1..registered -> BOOLEAN]
    BY <1>1
  <2>3. Append(enabled, TRUE) \in [1..(registered + 1) -> BOOLEAN]
    BY ONLY <2>1, <2>2, AppendToFunction, Zenon
  <2>4. \A i \in 1..registered : Append(enabled, TRUE)[i] = enabled[i]
    BY ONLY <2>1, <2>2, AppendKeeps, Zenon
  <2> QED BY <2>1, <2>3, <2>4
<1>3. /\ metrics' \in [1..(registered + 1) -> MetricsType]
      /\ \A i \in 1..registered : metrics'[i] = metrics[i]
      /\ metrics'[registered + 1].last_advanced_tick = 0
  BY RegisterMetrics DEF Inv, NewMetrics
<1>4. TypeOK'
  <2>1. \A pm \in pms' : IsMatch(pm)'
    BY <1>1 DEF Inv, TypeOK, IsMatch, PastEnd, Pats, Register, matches
  <2> QED BY <1>1, <1>2, <1>3, <2>1
          DEF Inv, TypeOK, Register, Pats, MetricsType, dataSource, matches
<1>5. IdsUnique' /\ NoDuplicateMatch'
  BY DEF Inv, IdsUnique, NoDuplicateMatch, Fingerprint, Register, matches
<1>6. \A pm \in pms : pm.pattern_idx \in 1..registered
  BY DEF Inv, TypeOK, IsMatch, Pats
<1>7. DisabledPatternsQuiet'
  BY <1>2, <1>6 DEF Inv, DisabledPatternsQuiet, Active, Register, matches
<1>8. \A i \in Pats : FirstNamed(i)' = FirstNamed(i) /\ FirstNamed(i) \in 1..registered
  BY RegisterNames DEF Inv
<1>9. ClocksAgree'
  <2>1. ASSUME NEW pm \in pms'
        PROVE  /\ pm.created_at_tick <= pm.last_advanced_tick
               /\ pm.last_advanced_tick <= (metrics[FirstNamed(pm.pattern_idx)].last_advanced_tick)'
    <3>1. pm \in pms /\ pm.pattern_idx \in Pats
      BY <1>6 DEF Register, matches, Pats
    <3>2. (metrics[FirstNamed(pm.pattern_idx)])' = metrics[FirstNamed(pm.pattern_idx)]
      BY <1>3, <1>8, <3>1
    <3> QED BY <3>1, <3>2 DEF Inv, ClocksAgree
  <2>2. ASSUME NEW i \in Pats'
        PROVE  metrics'[i].last_advanced_tick <= tick_counter'
    <3>1. tick_counter' = tick_counter /\ tick_counter \in Nat
      BY TickType DEF Inv, Register
    <3>2. i \in 1..registered \/ i = registered + 1
      BY <1>1 DEF Pats
    <3> QED BY <1>3, <3>1, <3>2 DEF Inv, ClocksAgree, Pats
  <2> QED BY <2>1, <2>2 DEF ClocksAgree
<1> QED BY <1>4, <1>5, <1>7, <1>9 DEF Inv

-----------------------------------------------------------------------------
(* on_edge_added *)

\* on_edge_added keeps the state well-formed
LEMMA OnEdgeAddedTypeOK ==
  ASSUME Inv, NEW i \in DOMAIN graph, Notify(i)
  PROVE  TypeOK'
<1> DEFINE e == graph[i]
           new == NewMatches(MatchesMade(e))
           A == {pm \in new : pm.state = "Active"}
           C == {pm \in new : pm.state = "Complete"}
<1>1. TypeOK /\ IdsUnique
  BY DEF Inv
<1>2. /\ pms' = StoreAfter(e, MatchesMade(e))
      /\ next_match_id' = next_match_id + Cardinality(Born(MatchesMade(e)))
      /\ metrics' = MetricsAfter(A, C, Killed(e))
      /\ notified' = notified \cup {i}
      /\ UNCHANGED <<graph, now, registered, enabled, tick_counter>>
  BY DEF Notify, OnEdgeAdded
<1>3. IsFiniteSet(pms') /\ \A pm \in pms' : IsMatch(pm)
  BY <1>1, <1>2, StoreAfterIsOK
<1>4. \A pm \in pms' : IsMatch(pm)'
  BY <1>2, <1>3 DEF IsMatch, PastEnd, Pats
<1>5. next_match_id' \in Nat
  BY <1>1, <1>2, BornFacts DEF TypeOK
<1>6. IsFiniteSet(A) /\ IsFiniteSet(C) /\ IsFiniteSet(Killed(e))
  BY <1>1, NewMatchesFinite, FS_Subset DEF TypeOK, Killed, Active
<1>7. metrics' \in [Pats -> MetricsType]
  BY <1>1, <1>2, <1>6, MetricsAfterType, Zenon
<1> HIDE DEF e
<1> QED BY <1>1, <1>2, <1>3, <1>4, <1>5, <1>7 DEF TypeOK, Pats, MetricsType

\* ... the ids and fingerprints apart
LEMMA OnEdgeAddedUnique ==
  ASSUME Inv, NEW i \in DOMAIN graph, Notify(i)
  PROVE  IdsUnique' /\ NoDuplicateMatch'
<1> DEFINE e == graph[i]
           new == NewMatches(MatchesMade(e))
           B == Cardinality(Born(MatchesMade(e)))
<1>1. TypeOK /\ IdsUnique /\ NoDuplicateMatch
  BY DEF Inv
<1>2. /\ pms' = StoreAfter(e, MatchesMade(e))
      /\ next_match_id' = next_match_id + B
  BY DEF Notify, OnEdgeAdded
<1>3. /\ \A n \in new : /\ n.id \in next_match_id..(next_match_id + B - 1)
                        /\ Fingerprint(n) \notin Fingerprints(pms)
      /\ \A m, n \in new : m.id = n.id \/ Fingerprint(m) = Fingerprint(n) => m = n
  BY <1>1, NewMatchesApart
<1>4. \A pm \in pms' : pm \in pms \/ pm \in new
  BY <1>2, StoreAfterParts
<1>5. B \in Nat /\ next_match_id \in Nat
  BY <1>1, BornFacts DEF TypeOK
<1>6. \A pm \in pms : pm.id \in Nat /\ pm.id < next_match_id
                      /\ Fingerprint(pm) \in Fingerprints(pms)
  BY <1>1 DEF TypeOK, IsMatch, IdsUnique, Fingerprints
<1> HIDE DEF e, new, B
<1>7. \A pm \in pms' : pm.id < next_match_id'
  BY <1>2, <1>3, <1>4, <1>5, <1>6
<1>8. ASSUME NEW pm \in pms', NEW q \in pms', pm.id = q.id
      PROVE  pm = q
  <2>1. CASE pm \in pms /\ q \in pms
    BY <1>1, <1>8, <2>1 DEF IdsUnique
  <2>2. CASE pm \in new /\ q \in new
    BY <1>3, <1>8, <2>2
  <2>3. ~(pm \in pms /\ q \in new) /\ ~(pm \in new /\ q \in pms)
    BY <1>3, <1>5, <1>6, <1>8
  <2> QED BY <1>4, <2>1, <2>2, <2>3
<1>9. ASSUME NEW pm \in pms', NEW q \in pms', Fingerprint(pm) = Fingerprint(q)
      PROVE  pm = q
  <2>1. CASE pm \in pms /\ q \in pms
    BY <1>1, <1>9, <2>1 DEF NoDuplicateMatch
  <2>2. CASE pm \in new /\ q \in new
    BY <1>3, <1>9, <2>2
  <2>3. ~(pm \in pms /\ q \in new) /\ ~(pm \in new /\ q \in pms)
    BY <1>3, <1>6, <1>9
  <2> QED BY <1>4, <2>1, <2>2, <2>3
<1>10. IdsUnique'
  BY <1>7, <1>8 DEF IdsUnique
<1>11. NoDuplicateMatch'
  BY <1>9 DEF NoDuplicateMatch, Fingerprint
<1> QED BY <1>10, <1>11

\* ... disabled patterns quiet
LEMMA OnEdgeAddedQuiet ==
  ASSUME Inv, NEW i \in DOMAIN graph, Notify(i)
  PROVE  DisabledPatternsQuiet'
<1> DEFINE e == graph[i]
<1>1. pms' = StoreAfter(e, MatchesMade(e)) /\ enabled' = enabled
  BY DEF Notify, OnEdgeAdded
<1>2. ASSUME NEW pm \in Active'
      PROVE  enabled[pm.pattern_idx]
  <2>1. pm \in StoreAfter(e, MatchesMade(e)) /\ pm.state = "Active"
    BY <1>1, <1>2 DEF Active
  <2>2. CASE pm \in pms
    BY <2>1, <2>2 DEF Inv, DisabledPatternsQuiet, Active
  <2>3. CASE pm \in NewMatches(MatchesMade(e))
    BY <2>3, NewMatchFacts DEF Inv, GoodMatch
  <2> QED BY <2>1, <2>2, <2>3, StoreAfterParts
<1> QED BY <1>1, <1>2 DEF DisabledPatternsQuiet

\* ... and the clocks in agreement
LEMMA OnEdgeAddedClocks ==
  ASSUME Inv, NEW i \in DOMAIN graph, Notify(i)
  PROVE  ClocksAgree'
<1> DEFINE e == graph[i]
           new == NewMatches(MatchesMade(e))
           A == {pm \in new : pm.state = "Active"}
           C == {pm \in new : pm.state = "Complete"}
<1>1. TypeOK /\ IdsUnique /\ ClocksAgree
  BY DEF Inv
<1>2. /\ pms' = StoreAfter(e, MatchesMade(e))
      /\ metrics' = MetricsAfter(A, C, Killed(e))
      /\ registered' = registered /\ tick_counter' = tick_counter
  BY DEF Notify, OnEdgeAdded
<1>3. IsFiniteSet(A) /\ IsFiniteSet(C) /\ IsFiniteSet(A \cup C) /\ IsFiniteSet(Killed(e))
  BY <1>1, NewMatchesFinite, FS_Subset, FS_Union DEF TypeOK, Killed, Active
<1>4. \A j \in Pats : metrics'[j].last_advanced_tick =
                        IF Counted(A \cup C, j) > 0
                        THEN tick_counter ELSE metrics[j].last_advanced_tick
  BY <1>1, <1>2, <1>3, MetricsAfterType
<1>5. registered \in Nat /\ tick_counter \in Nat
  BY <1>1, TickType, LibraryDomain DEF TypeOK
<1>6. \A j \in Pats : metrics[j].last_advanced_tick \in Nat
                      /\ metrics[j].last_advanced_tick <= tick_counter
  BY <1>1 DEF TypeOK, ClocksAgree
<1>7. \A j : FirstNamed(j)' = FirstNamed(j)
  BY <1>2 DEF FirstNamed, Named, Pats
<1>8. ASSUME NEW pm \in pms
      PROVE  /\ pm.created_at_tick \in Nat /\ pm.last_advanced_tick \in Nat
             /\ pm.created_at_tick <= pm.last_advanced_tick
             /\ FirstNamed(pm.pattern_idx) \in Pats
             /\ pm.last_advanced_tick <= metrics[FirstNamed(pm.pattern_idx)].last_advanced_tick
  BY <1>1, <1>5, FirstNamedFacts DEF TypeOK, IsMatch, ClocksAgree
<1>9. ASSUME NEW pm \in new
      PROVE  /\ pm.created_at_tick <= tick_counter /\ pm.last_advanced_tick = tick_counter
             /\ FirstNamed(pm.pattern_idx) \in Pats
             /\ Counted(A \cup C, FirstNamed(pm.pattern_idx)) > 0
  <2>1. GoodMatch(pm)
    BY <1>1, NewMatchFacts
  <2>2. pm.created_at_tick <= tick_counter
    <3>1. \A q \in Active : q.created_at_tick <= tick_counter
      BY <1>5, <1>6, <1>8 DEF Active
    <3> QED BY <1>5, <2>1, <3>1 DEF GoodMatch
  <2>3. pm.pattern_idx \in Pats /\ pm.state \in {"Active", "Complete"}
    BY <2>1 DEF GoodMatch, IsMatch
  <2>4. pm \in A \cup C
    BY <2>3
  <2>5. Counted(A \cup C, FirstNamed(pm.pattern_idx)) > 0
    BY <1>3, <2>4, CountedType
  <2> QED BY <1>5, <2>1, <2>2, <2>3, <2>5, FirstNamedFacts DEF GoodMatch
<1>10. \A pm \in pms' : pm \in pms \/ pm \in new
  BY <1>2, StoreAfterParts
<1> HIDE DEF e, new, A, C
<1>11. ASSUME NEW pm \in pms'
       PROVE  /\ pm.created_at_tick <= pm.last_advanced_tick
              /\ pm.last_advanced_tick <= metrics'[FirstNamed(pm.pattern_idx)].last_advanced_tick
  <2>1. CASE pm \in pms
    BY <1>4, <1>5, <1>6, <1>8, <2>1
  <2>2. CASE pm \in new
    <3>1. /\ pm.created_at_tick <= tick_counter /\ pm.last_advanced_tick = tick_counter
          /\ FirstNamed(pm.pattern_idx) \in Pats
          /\ Counted(A \cup C, FirstNamed(pm.pattern_idx)) > 0
      BY <1>9, <2>2
    <3>2. metrics'[FirstNamed(pm.pattern_idx)].last_advanced_tick = tick_counter
      BY <1>4, <3>1
    <3> QED BY <1>5, <3>1, <3>2
  <2> QED BY <1>10, <2>1, <2>2
<1>12. \A j \in Pats : metrics'[j].last_advanced_tick <= tick_counter
  BY <1>4, <1>5, <1>6
<1> QED BY <1>2, <1>7, <1>11, <1>12 DEF ClocksAgree, Pats

-----------------------------------------------------------------------------

\* Every operation preserves the invariant
LEMMA NextInv == Inv /\ [Next]_vars => Inv'
<1> SUFFICES ASSUME Inv, [Next]_vars PROVE Inv'
  OBVIOUS
<1>1. CASE Register
  BY <1>1, RegisterInv
<1>2. ASSUME NEW es \in Batches, Insert(es)
      PROVE  Inv'
  BY <1>2, InsertRetains, RetainsInv
<1>3. ASSUME NEW i \in DOMAIN graph, Notify(i)
      PROVE  Inv'
  BY <1>3, OnEdgeAddedTypeOK, OnEdgeAddedUnique, OnEdgeAddedQuiet, OnEdgeAddedClocks DEF Inv
<1>4. ASSUME NEW i \in Pats, NEW on \in BOOLEAN, SetPatternEnabled(i, on)
      PROVE  Inv'
  BY <1>4, SetPatternEnabledRetains, RetainsInv
<1>5. ASSUME NEW i \in Pats, Deregister(i)
      PROVE  Inv'
  BY <1>5, SetPatternEnabledRetains, RetainsInv DEF Deregister
<1>6. ASSUME NEW node \in Nodes, KillPmsInvolving(node)
      PROVE  Inv'
  BY <1>6, RetainsSame, RetainsInv DEF KillPmsInvolving, dataSource
<1>7. CASE DrainCompleted
  BY <1>7, RetainsSame, RetainsInv DEF DrainCompleted, dataSource, Active
<1>8. CASE Tick
  BY <1>8, TickRetains, RetainsInv DEF Tick, matches
<1>9. ASSUME NEW threshold \in StaleThresholds, EndTick(threshold)
      PROVE  Inv'
  BY <1>9, TickRetains, RetainsInv DEF EndTick
<1>10. CASE CommitFork
  BY <1>10, RetainsSame, RetainsInv DEF CommitFork, dataSource, matches
<1>11. CASE UNCHANGED vars
  BY <1>11, RetainsSame, RetainsInv DEF vars, dataSource, matches
<1> QED BY <1>1, <1>2, <1>3, <1>4, <1>5, <1>6, <1>7, <1>8, <1>9, <1>10, <1>11 DEF Next

-----------------------------------------------------------------------------
(* The engine implements the ledger of matches *)

\* An operation that writes no match and drains none retires matches in progress
LEMMA RetiringEnters ==
  ASSUME Inv, pms' \subseteq pms, Complete \subseteq pms', next_match_id' = next_match_id
  PROVE  Ledger!Enter
<1>1. Active' \subseteq Active /\ Complete' = Complete
  BY DEF Active, Complete
<1>2. next_match_id' \in Nat /\ next_match_id' >= next_match_id
  BY DEF Inv, TypeOK
<1>3. Ledger!New = {}
  BY <1>1 DEF Ledger!New
<1>4. Active' \cap Complete' = {}
  BY DEF Active, Complete
<1> QED BY <1>1, <1>2, <1>3, <1>4 DEF Ledger!Enter

\* on_edge_added enters new matches under fresh ids and keeps the complete ones
LEMMA OnEdgeAddedEnters ==
  ASSUME Inv, NEW i \in DOMAIN graph, Notify(i)
  PROVE  Ledger!Enter
<1> DEFINE e == graph[i]
           new == NewMatches(MatchesMade(e))
           B == Cardinality(Born(MatchesMade(e)))
<1>1. TypeOK /\ IdsUnique
  BY DEF Inv
<1>2. pms' = StoreAfter(e, MatchesMade(e)) /\ next_match_id' = next_match_id + B
  BY DEF Notify, OnEdgeAdded
<1>3. /\ \A n \in new : n.id \in next_match_id..(next_match_id + B - 1)
      /\ \A m, n \in new : m.id = n.id => m = n
  BY <1>1, NewMatchesApart
<1>4. B \in Nat /\ next_match_id \in Nat
  BY <1>1, BornFacts DEF TypeOK
<1>5. Complete \subseteq Complete'
  <2>1. ASSUME NEW pm \in Complete
        PROVE  pm \in StoreAfter(e, MatchesMade(e))
    <3>1. pm \in pms /\ pm.state = "Complete"
      BY DEF Complete
    <3>2. pm \notin Killed(e) /\ pm \notin Consumed(MatchesMade(e))
      BY <3>1 DEF Killed, Consumed, Active
    <3>3. ~Dominated(pm, CompletedPatterns(NewMatches(MatchesMade(e))))
      BY <3>1 DEF Dominated
    <3> QED BY <3>1, <3>2, <3>3 DEF StoreAfter
  <2> QED BY <1>2, <2>1 DEF Complete
<1>6. \A m \in Ledger!New : m \in new
  <2>1. ASSUME NEW m \in Ledger!New
        PROVE  m \in pms' /\ m \notin pms
    BY DEF Ledger!New, Active, Complete
  <2> QED BY <1>2, <2>1, StoreAfterParts
<1>7. Active' \cap Complete' = {}
  BY DEF Active, Complete
<1>8. next_match_id' \in Nat /\ next_match_id' >= next_match_id
  BY <1>2, <1>4
<1> HIDE DEF e, new, B
<1>9. next_match_id' - 1 = next_match_id + B - 1
  BY <1>2, <1>4
<1>10. \A m \in Ledger!New : m.id \in next_match_id..(next_match_id' - 1)
  BY <1>3, <1>6, <1>9
<1>11. \A m, q \in Ledger!New : m.id = q.id => m = q
  BY <1>3, <1>6
<1> QED BY <1>5, <1>7, <1>8, <1>10, <1>11 DEF Ledger!Enter

\* Every operation is a step of the ledger, or none
LEMMA NextLedger ==
  Inv /\ [Next]_vars => [Ledger!Next]_<<Active, Complete, next_match_id>>
<1> SUFFICES ASSUME Inv, [Next]_vars
             PROVE  [Ledger!Next]_<<Active, Complete, next_match_id>>
  OBVIOUS
<1>1. CASE \/ Register \/ Tick \/ CommitFork \/ UNCHANGED vars
           \/ \E es \in Batches : Insert(es)
  <2>1. pms' = pms /\ next_match_id' = next_match_id
    BY <1>1 DEF Register, Tick, CommitFork, Insert, vars, matches
  <2> QED BY <2>1 DEF Active, Complete
<1>2. ASSUME NEW i \in DOMAIN graph, Notify(i)
      PROVE  Ledger!Next
  BY <1>2, OnEdgeAddedEnters DEF Ledger!Next
<1>3. ASSUME NEW i \in Pats, NEW on \in BOOLEAN, SetPatternEnabled(i, on)
      PROVE  Ledger!Next
  <2>1. pms' \subseteq pms /\ Complete \subseteq pms' /\ next_match_id' = next_match_id
    BY <1>3 DEF SetPatternEnabled, Complete
  <2> QED BY <2>1, RetiringEnters DEF Ledger!Next
<1>4. ASSUME NEW i \in Pats, Deregister(i)
      PROVE  Ledger!Next
  BY <1>3, <1>4 DEF Deregister
<1>5. ASSUME NEW node \in Nodes, KillPmsInvolving(node)
      PROVE  Ledger!Next
  <2>1. pms' \subseteq pms /\ Complete \subseteq pms' /\ next_match_id' = next_match_id
    BY <1>5 DEF KillPmsInvolving, Complete
  <2> QED BY <2>1, RetiringEnters DEF Ledger!Next
<1>6. CASE DrainCompleted
  <2>1. Active' = Active /\ Complete' = {} /\ next_match_id' = next_match_id
    BY <1>6 DEF DrainCompleted, Active, Complete
  <2> QED BY <2>1 DEF Ledger!Next, Ledger!Drain
<1>7. ASSUME NEW threshold \in StaleThresholds, EndTick(threshold)
      PROVE  Ledger!Next
  <2>1. pms' \subseteq pms /\ Complete \subseteq pms' /\ next_match_id' = next_match_id
    BY <1>7 DEF EndTick, Complete, Expired, Inactive, Active
  <2> QED BY <2>1, RetiringEnters DEF Ledger!Next
<1> QED BY <1>1, <1>2, <1>3, <1>4, <1>5, <1>6, <1>7 DEF Next

-----------------------------------------------------------------------------
(* Libraries whose patterns have different names *)

\* With different names every pattern is its own first namesake
LEMMA FirstNamedIsSelf ==
  ASSUME UniqueNames, TypeOK, NEW i \in Pats
  PROVE  FirstNamed(i) = i
<1>1. registered \in Nat /\ Pats \subseteq DOMAIN Library
  BY LibraryDomain DEF TypeOK, Pats
<1>2. FirstNamed(i) \in Pats /\ Library[FirstNamed(i)].name = Library[i].name
  BY <1>1, FirstNamedFacts
<1> QED BY <1>1, <1>2 DEF UniqueNames

\* on_edge_added closes the groups it completes
LEMMA NotifyClosesGroup ==
  ASSUME UniqueNames, Inv, NEW i \in DOMAIN graph, Notify(i)
  PROVE  ClosesGroup
<1> DEFINE e == graph[i]
           new == NewMatches(MatchesMade(e))
<1>1. pms' = StoreAfter(e, MatchesMade(e)) /\ TypeOK /\ IdsUnique
  BY DEF Notify, OnEdgeAdded, Inv
<1>2. ASSUME NEW pm \in Complete' \ Complete, NEW q \in Active',
             Library[pm.pattern_idx].group \cap Library[q.pattern_idx].group # {}
      PROVE  q.pattern_idx = FirstNamed(pm.pattern_idx)
             /\ Library[pm.pattern_idx].repeat_range # {}
  <2>1. pm \in new /\ pm.state = "Complete"
    BY <1>1, <1>2, StoreAfterParts DEF Complete
  <2>2. pm.pattern_idx \in Pats
    BY <1>1, <2>1, NewMatchFacts DEF GoodMatch, IsMatch
  <2>3. FirstNamed(pm.pattern_idx) = pm.pattern_idx
    BY <1>1, <2>2, FirstNamedIsSelf
  <2>4. pm.pattern_idx \in CompletedPatterns(new)
    <3>1. pm \in {n \in new : n.state = "Complete"}
      BY <2>1
    <3>2. FirstNamed(pm.pattern_idx) \in CompletedPatterns(new)
      BY <3>1, Zenon DEF CompletedPatterns
    <3> QED BY <2>3, <3>2
  <2>5. ~Dominated(q, CompletedPatterns(new)) /\ q.state = "Active"
    BY <1>1 DEF StoreAfter, Active
  <2>6. q.pattern_idx = pm.pattern_idx /\ Library[pm.pattern_idx].repeat_range # {}
    BY <1>2, <2>4, <2>5 DEF Dominated
  <2> QED BY <2>3, <2>6
<1> QED BY <1>2 DEF ClosesGroup

\* ... and no other operation completes a match
LEMMA NextClosesGroup ==
  ASSUME UniqueNames, Inv, [Next]_vars
  PROVE  ClosesGroup
<1>1. ASSUME NEW i \in DOMAIN graph, Notify(i)
      PROVE  ClosesGroup
  BY <1>1, NotifyClosesGroup
<1>2. CASE pms' \subseteq pms
  <2>1. Complete' \subseteq Complete
    BY <1>2 DEF Complete
  <2> QED BY <2>1 DEF ClosesGroup
<1>3. (\E i \in DOMAIN graph : Notify(i)) \/ pms' \subseteq pms
  BY DEF Next, vars, matches, Register, Insert, SetPatternEnabled, Deregister,
         KillPmsInvolving, DrainCompleted, Active, Tick, EndTick, CommitFork
<1> QED BY <1>1, <1>2, <1>3

\* A stale pattern is idle when the clocks agree
LEMMA StaleIdle ==
  ASSUME UniqueNames, Inv
  PROVE  StaleIsIdle
<1>1. TypeOK /\ ClocksAgree
  BY DEF Inv
<1>2. ASSUME NEW threshold \in StaleThresholds,
             NEW i \in StalePatterns(pms, tick_counter, threshold),
             NEW pm \in pms, pm.pattern_idx = i
      PROVE  tick_counter - pm.last_advanced_tick >= threshold
  <2>1. i \in Pats /\ tick_counter - metrics[i].last_advanced_tick >= threshold
    BY DEF StalePatterns
  <2>2. FirstNamed(i) = i
    BY <1>1, <2>1, FirstNamedIsSelf
  <2>3. pm.last_advanced_tick <= metrics[i].last_advanced_tick
    BY <1>1, <1>2, <2>2 DEF ClocksAgree
  <2>4. /\ pm.last_advanced_tick \in Nat /\ metrics[i].last_advanced_tick \in Nat
        /\ tick_counter \in Nat /\ threshold \in Nat
    BY <1>1, <2>1, TickType, BoundsAssumption DEF TypeOK, IsMatch, BoundsAssumption
  <2> QED BY <2>1, <2>3, <2>4
<1> QED BY <1>2 DEF StaleIsIdle

-----------------------------------------------------------------------------
(* Libraries whose anchors differ and whose groups are blocks of stages *)

\* Where a match stands: at the start of a segment, or past the last, with
\* marks on stages behind it and on stages of that segment only
AtSegment(p, next, mask) ==
  /\ next \in 1..(StageCount(p) + 1)
  /\ next <= StageCount(p) => SegmentStart(p, next) = next
  /\ \A m \in mask : m < next \/ (next <= StageCount(p) /\ m \in Segment(p, next))

PassedBy(p, next, mask) == {s \in 1..StageCount(p) : s < next \/ s \in mask}

\* The stages of `passed` have intervals, in the order of the stages
InStageOrder(p, passed, intervals) ==
  /\ \A s \in passed : p.stages[s].anchor \in DOMAIN intervals
  /\ \A s, t \in passed :
       s < t /\ ~SameGroup(p, s, t) =>
         intervals[p.stages[s].anchor].start < intervals[p.stages[t].anchor].start

\* What makes StagesInSequence inductive
Sequenced(pm) ==
  LET p == Library[pm.pattern_idx]
  IN  /\ AtSegment(p, pm.next_stage, pm.matched_stages)
      /\ InStageOrder(p, PassedBy(p, pm.next_stage, pm.matched_stages), pm.intervals)

\* Stages of a group share its segment, and conversely
LEMMA GroupIsSegment ==
  ASSUME NEW p, NEW s \in Int, NEW t \in Int, s # t
  PROVE  SameGroup(p, s, t) <=> t \in Segment(p, s)
<1>1. SameGroup(p, s, t) <=> t \in UnorderedGroup(p, s)
  BY DEF SameGroup, UnorderedGroup
<1>2. t \in UnorderedGroup(p, s) <=> t \in Segment(p, s)
  BY DEF Segment, InGroup
<1> QED BY <1>1, <1>2

\* SegmentStart depends on the segment alone
LEMMA SameSegmentSameStart ==
  ASSUME NEW p, NEW s, NEW t, Segment(p, s) = Segment(p, t)
  PROVE  SegmentStart(p, s) = SegmentStart(p, t)
BY DEF SegmentStart

\* A segment is followed by the start of another, or by nothing
LEMMA SegmentFollows ==
  ASSUME BlockLibrary, NEW i \in DOMAIN Library, NEW s \in 1..StageCount(Library[i]),
         SegmentEnd(Library[i], s) <= StageCount(Library[i])
  PROVE  SegmentStart(Library[i], SegmentEnd(Library[i], s)) = SegmentEnd(Library[i], s)
<1> DEFINE p == Library[i]
           n == SegmentEnd(p, s)
           N == StageCount(p)
<1>1. N \in Nat /\ s \in 1..N /\ n \in (s + 1)..(N + 1) /\ n <= N
  BY StageFacts, Zenon
<1>2. BlockPattern(p)
  BY DEF BlockLibrary
<1>3. n \in 1..N /\ n - 1 \in 1..N
  BY <1>1
<1>4. SegmentStart(p, n) \in 1..n /\ SegmentStart(p, s) \in 1..s
  BY <1>1, <1>3, StageFacts, Zenon
<1>5. n - 1 \in Segment(p, s) /\ n \notin Segment(p, s)
  <2>1. SegmentStart(p, s) <= n - 1 /\ n - 1 < n /\ ~(n < n)
    BY <1>1, <1>4
  <2> QED BY <1>1, <1>2, <1>3, <2>1, Zenon DEF BlockPattern
<1>6. Segment(p, n - 1) = Segment(p, s)
  BY <1>1, <1>2, <1>3, <1>5, Zenon DEF BlockPattern
<1>7. ASSUME SegmentStart(p, n) < n
      PROVE  FALSE
  <2>1. SegmentEnd(p, n) \in (n + 1)..(N + 1)
    BY <1>3, StageFacts, Zenon
  <2>2. /\ SegmentStart(p, n) <= n - 1 /\ n - 1 < SegmentEnd(p, n)
        /\ SegmentStart(p, n) <= n /\ n < SegmentEnd(p, n)
    BY <1>1, <1>3, <1>4, <1>7, <2>1
  <2>3. n - 1 \in Segment(p, n) /\ n \in Segment(p, n)
    BY <1>2, <1>3, <2>2, Zenon DEF BlockPattern
  <2>4. Segment(p, n - 1) = Segment(p, n)
    BY <1>2, <1>3, <2>3, Zenon DEF BlockPattern
  <2> QED BY <1>5, <1>6, <2>3, <2>4
<1> HIDE DEF p, n, N
<1>8. SegmentStart(p, n) = n
  BY <1>1, <1>4, <1>7
<1> QED BY <1>8 DEF p, n

\* Matching a stage of the segment a match stands at: the stages passed are
\* those it had passed and that one, and it stands at a segment again
LEMMA SequenceGrows ==
  ASSUME BlockLibrary, NEW i \in DOMAIN Library,
         NEW next \in 1..StageCount(Library[i]), NEW mask \in SUBSET Nat,
         AtSegment(Library[i], next, mask),
         NEW s \in Segment(Library[i], next), s \notin mask
  PROVE  /\ s \in 1..StageCount(Library[i])
         /\ s \notin PassedBy(Library[i], next, mask)
         /\ AtSegment(Library[i], NextStage(Library[i], s, mask), NewMask(Library[i], s, mask))
         /\ PassedBy(Library[i], NextStage(Library[i], s, mask), NewMask(Library[i], s, mask))
              \subseteq PassedBy(Library[i], next, mask) \cup {s}
         /\ \A t \in PassedBy(Library[i], next, mask) : t > s => SameGroup(Library[i], s, t)
<1> DEFINE p == Library[i]
           N == StageCount(p)
           seg == Segment(p, s)
           end == SegmentEnd(p, s)
           after == NextStage(p, s, mask)
           marks == NewMask(p, s, mask)
<1>1. BlockPattern(p) /\ N \in Nat /\ next \in 1..N
  BY StageFacts DEF BlockLibrary
<1>2. s \in 1..N
  BY <1>1, StageFacts, Zenon
<1>3. seg = Segment(p, next)
  BY <1>1, <1>2, Zenon DEF BlockPattern
<1>4. next \in Int /\ next <= N /\ s \in Int
  BY <1>1, <1>2
<1>5. SegmentStart(p, s) = next
  BY <1>3, <1>4, SameSegmentSameStart DEF AtSegment
<1>6. /\ end \in (s + 1)..(N + 1) /\ seg \subseteq 1..N /\ s \in seg
      /\ end <= N => SegmentStart(p, end) = end
  BY <1>2, <1>3, StageFacts, SegmentFollows, Zenon
<1>7. \A t \in 1..N : t \in seg <=> next <= t /\ t < end
  BY <1>1, <1>2, <1>5, Zenon DEF BlockPattern
<1>8. next <= s
  BY <1>2, <1>6, <1>7
<1>9. mask \subseteq Nat /\ \A m \in mask : m < next \/ m \in seg
  BY <1>3 DEF AtSegment
<1>10. marks \subseteq mask \cup {s}
  BY DEF NewMask
<1>11. /\ after = IF seg \subseteq mask \cup {s} THEN end ELSE next
       /\ PassedBy(p, after, marks) = {t \in 1..N : t < after \/ t \in marks}
       /\ PassedBy(p, next, mask) = {t \in 1..N : t < next \/ t \in mask}
  BY <1>5 DEF NextStage, PassedBy
<1>12. AtSegment(p, after, marks)
           <=> /\ after \in 1..(N + 1) /\ (after <= N => SegmentStart(p, after) = after)
               /\ \A m \in marks : m < after \/ (after <= N /\ m \in Segment(p, after))
  BY DEF AtSegment
<1>13. SegmentStart(p, next) = next
  BY <1>4 DEF AtSegment
<1>14. \A t \in PassedBy(p, next, mask) : t > s => SameGroup(p, s, t)
  <2>1. ASSUME NEW t \in PassedBy(p, next, mask), t > s
        PROVE  SameGroup(p, s, t)
    <3>1. t \in Int /\ t # s /\ t \in seg
      BY <1>4, <1>8, <1>9, <1>11, <2>1
    <3> QED BY <1>4, <3>1, GroupIsSegment
  <2> QED BY <2>1
<1> HIDE DEF p, N, seg, end, after, marks
<1>15. s \notin PassedBy(p, next, mask)
  BY <1>2, <1>4, <1>8, <1>11
<1>16. CASE seg \subseteq mask \cup {s}
  <2>1. after = end
    BY <1>11, <1>16
  <2>2. \A m \in marks : m < end
    <3>1. \A m \in seg : m < end
      BY <1>6, <1>7
    <3>2. \A m \in mask : m < next => m < end
      BY <1>2, <1>4, <1>6, <1>8, <1>9
    <3> QED BY <1>6, <1>9, <1>10, <3>1, <3>2
  <2>3. AtSegment(p, after, marks)
    BY <1>1, <1>2, <1>6, <1>12, <2>1, <2>2
  <2>4. ASSUME NEW t \in PassedBy(p, after, marks)
        PROVE  t \in PassedBy(p, next, mask) \cup {s}
    <3>1. t \in 1..N /\ (t < end \/ t \in mask \cup {s})
      BY <1>10, <1>11, <2>1
    <3>2. t < next \/ t \in mask \cup {s}
      BY <1>1, <1>7, <1>16, <3>1
    <3> QED BY <1>11, <3>1, <3>2
  <2> QED BY <1>2, <1>14, <1>15, <2>3, <2>4 DEF p, N, after, marks
<1>17. CASE ~(seg \subseteq mask \cup {s})
  <2>1. after = next
    BY <1>11, <1>17
  <2>2. AtSegment(p, after, marks)
    BY <1>1, <1>3, <1>4, <1>6, <1>9, <1>10, <1>12, <1>13, <2>1 DEF seg
  <2>3. PassedBy(p, after, marks) \subseteq PassedBy(p, next, mask) \cup {s}
    BY <1>10, <1>11, <2>1
  <2> QED BY <1>2, <1>14, <1>15, <2>2, <2>3 DEF p, N, after, marks
<1> QED BY <1>16, <1>17

\* The intervals of a match that matched one more stage with a later edge
LEMMA OrderGrows ==
  ASSUME BlockLibrary, NEW i \in DOMAIN Library, NEW s \in 1..StageCount(Library[i]),
         NEW passed \in SUBSET (1..StageCount(Library[i])), s \notin passed,
         NEW intervals, NEW interval,
         InStageOrder(Library[i], passed, intervals),
         \A x \in DOMAIN intervals :
           \/ intervals[x].start < interval.start
           \/ \E t \in AnchorStage(Library[i], x) : SameGroup(Library[i], t, s),
         \A t \in passed : t > s => SameGroup(Library[i], s, t),
         NEW more \in SUBSET (passed \cup {s})
  PROVE  InStageOrder(Library[i], more,
                      WithInterval(intervals, Library[i].stages[s].anchor, interval))
<1> DEFINE p == Library[i]
           x == p.stages[s].anchor
           after == WithInterval(intervals, x, interval)
<1>1. /\ \A t \in 1..StageCount(p) : p.stages[t].anchor = x => t = s
      /\ StageCount(p) \in Nat
  BY StageFacts DEF BlockLibrary, BlockPattern
<1>2. /\ x \in DOMAIN after /\ after[x] = interval
      /\ \A y \in DOMAIN intervals : y \in DOMAIN after
      /\ \A y \in DOMAIN intervals : y # x => after[y] = intervals[y]
  BY DEF WithInterval
<1>3. ASSUME NEW t \in passed
      PROVE  /\ p.stages[t].anchor \in DOMAIN intervals
             /\ p.stages[t].anchor # x
             /\ after[p.stages[t].anchor] = intervals[p.stages[t].anchor]
  BY <1>1, <1>2 DEF InStageOrder
<1>4. ASSUME NEW t \in passed, ~SameGroup(p, t, s)
      PROVE  intervals[p.stages[t].anchor].start < interval.start
  <2>1. \A u \in AnchorStage(p, p.stages[t].anchor) : u = t
    BY DEF AnchorStage, BlockLibrary, BlockPattern
  <2> QED BY <1>3, <1>4, <2>1
<1>5. ASSUME NEW t \in more
      PROVE  p.stages[t].anchor \in DOMAIN after
  BY <1>2, <1>3
<1>6. ASSUME NEW t \in more, NEW u \in more, t < u, ~SameGroup(p, t, u)
      PROVE  after[p.stages[t].anchor].start < after[p.stages[u].anchor].start
  <2>1. CASE t \in passed /\ u \in passed
    BY <1>3, <1>6, <2>1 DEF InStageOrder
  <2>2. CASE t \in passed /\ u = s
    BY <1>2, <1>3, <1>4, <1>6, <2>2
  <2>3. ~(t = s /\ u \in passed) /\ ~(t = s /\ u = s)
    BY <1>6
  <2> QED BY <2>1, <2>2, <2>3
<1> HIDE DEF after
<1>7. InStageOrder(p, more, after)
  BY <1>5, <1>6, Zenon DEF InStageOrder
<1> QED BY <1>7 DEF after

\* A match that completes has passed every stage
LEMMA PastEndPassedAll ==
  ASSUME NEW i \in DOMAIN Library, NEW next \in Nat, NEW mask, PastEnd(i, next)
  PROVE  PassedBy(Library[i], next, mask) = 1..StageCount(Library[i])
<1>1. StageCount(Library[i]) \in Nat
  BY StageFacts
<1> QED BY <1>1 DEF PastEnd, PassedBy

\* A new match has passed one stage, at most
LEMMA InitiatedSequenced ==
  ASSUME BlockLibrary, TypeOK, NEW i \in Pats, Library[i].stages # << >>, NEW e,
         NEW s \in Segment(Library[i], 1)
  PROVE  Sequenced(Initiated(i, s, e))
<1> DEFINE p == Library[i]
           m == Initiated(i, s, e)
<1>1. i \in DOMAIN Library /\ s \in 1..StageCount(p) /\ StageCount(p) \in Nat
  BY StartedStage, StageFacts
<1>2. 1 \in 1..StageCount(p) /\ AtSegment(p, 1, {}) /\ PassedBy(p, 1, {}) = {}
  <2>1. 1 \in 1..StageCount(p)
    BY <1>1
  <2>2. SegmentStart(p, 1) \in 1..1
    BY <1>1, <2>1, StageFacts, Zenon
  <2> QED BY <1>1, <2>1, <2>2 DEF AtSegment, PassedBy
<1>3. {} \in SUBSET Nat /\ s \notin {}
  OBVIOUS
<1>4. /\ AtSegment(p, NextStage(p, s, {}), NewMask(p, s, {}))
      /\ PassedBy(p, NextStage(p, s, {}), NewMask(p, s, {})) \subseteq PassedBy(p, 1, {}) \cup {s}
  BY <1>1, <1>2, <1>3, SequenceGrows, Zenon
<1>5. /\ m.pattern_idx = i /\ m.next_stage = NextStage(p, s, {})
      /\ m.matched_stages = NewMask(p, s, {})
      /\ m.intervals = [x \in {p.stages[s].anchor} |-> e.interval]
  BY DEF Initiated
<1>6. PassedBy(p, m.next_stage, m.matched_stages) \subseteq {s}
  BY <1>2, <1>4, <1>5
<1>7. InStageOrder(p, PassedBy(p, m.next_stage, m.matched_stages), m.intervals)
  BY <1>1, <1>5, <1>6 DEF InStageOrder
<1> HIDE DEF m
<1> QED BY <1>4, <1>5, <1>7, Zenon DEF Sequenced, m

\* An advance passes one more stage, whose edge came later
LEMMA AdvancedSequenced ==
  ASSUME BlockLibrary, TypeOK, NEW pm \in Active, Sequenced(pm), NEW e,
         NEW s \in TryStages(pm, e)
  PROVE  Sequenced(AdvancedMatch(pm, s, e))
<1> DEFINE i == pm.pattern_idx
           p == Library[pm.pattern_idx]
           m == AdvancedMatch(pm, s, e)
           passed == PassedBy(p, pm.next_stage, pm.matched_stages)
<1>1. /\ i \in DOMAIN Library /\ pm.next_stage \in 1..StageCount(p) /\ IsMatch(pm)
      /\ DOMAIN pm = MatchFields /\ pm.matched_stages \in SUBSET Nat
  BY ActiveUnfinished DEF IsMatch
<1>2. s \in Segment(p, pm.next_stage) /\ s \notin pm.matched_stages /\ InOrder(pm, s, e)
  BY DEF TryStages
<1>3. AtSegment(p, pm.next_stage, pm.matched_stages) /\ InStageOrder(p, passed, pm.intervals)
  BY DEF Sequenced
<1>4. /\ m.pattern_idx = i /\ m.next_stage = NextStage(p, s, pm.matched_stages)
      /\ m.matched_stages = NewMask(p, s, pm.matched_stages)
      /\ m.intervals = WithInterval(pm.intervals, p.stages[s].anchor, e.interval)
  BY <1>1 DEF AdvancedMatch, MatchFields
<1>5. /\ s \in 1..StageCount(p) /\ s \notin passed
      /\ AtSegment(p, m.next_stage, m.matched_stages)
      /\ PassedBy(p, m.next_stage, m.matched_stages) \subseteq passed \cup {s}
      /\ \A t \in passed : t > s => SameGroup(p, s, t)
  BY <1>1, <1>2, <1>3, <1>4, SequenceGrows
<1>6. /\ passed \in SUBSET (1..StageCount(p))
      /\ PassedBy(p, m.next_stage, m.matched_stages) \in SUBSET (passed \cup {s})
  BY <1>5 DEF PassedBy
<1>7. \A x \in DOMAIN pm.intervals :
        \/ pm.intervals[x].start < e.interval.start
        \/ \E t \in AnchorStage(p, x) : SameGroup(p, t, s)
  BY <1>2 DEF InOrder
<1> HIDE DEF m, passed
<1>8. InStageOrder(p, PassedBy(p, m.next_stage, m.matched_stages), m.intervals)
  BY <1>1, <1>3, <1>4, <1>5, <1>6, <1>7, OrderGrows, Zenon
<1> QED BY <1>4, <1>5, <1>8, Zenon DEF Sequenced, m

\* A match that loops had passed every stage: it is sent back to the start of
\* a segment, and the order of the stages before it stands
LEMMA LoopedSequenced ==
  ASSUME BlockLibrary, TypeOK, NEW pm \in Active, Sequenced(pm), NEW e,
         NEW s \in TryStages(pm, e), NEW rr \in Library[pm.pattern_idx].repeat_range,
         Looping(pm, s)
  PROVE  Sequenced(LoopedMatch(pm, s, e, rr))
<1> DEFINE i == pm.pattern_idx
           p == Library[pm.pattern_idx]
           m == AdvancedMatch(pm, s, e)
           l == LoopedMatch(pm, s, e, rr)
<1>1. i \in DOMAIN Library /\ DOMAIN pm = MatchFields /\ StageCount(p) \in Nat
  BY ActiveUnfinished, StageFacts DEF IsMatch
<1>2. m.pattern_idx = i /\ m.next_stage = NextStage(p, s, pm.matched_stages)
  BY <1>1 DEF AdvancedMatch, MatchFields
<1>3. Sequenced(m)
  BY AdvancedSequenced
<1>4. PastEnd(i, m.next_stage) /\ m.next_stage \in Nat
  BY <1>1, <1>2, <1>3 DEF Looping, Sequenced, AtSegment
<1>5. InStageOrder(p, 1..StageCount(p), m.intervals)
  BY <1>1, <1>2, <1>3, <1>4, PastEndPassedAll DEF Sequenced
<1>6. /\ l.pattern_idx = i /\ l.next_stage = rr.stage_start
      /\ l.matched_stages = {} /\ l.intervals = m.intervals
  <2>1. DOMAIN m = MatchFields
    BY <1>1 DEF AdvancedMatch, MatchFields
  <2> HIDE DEF m
  <2> QED BY <1>2, <2>1, Zenon DEF LoopedMatch, MatchFields, m
<1>7. rr.stage_start \in 1..StageCount(p) /\ SegmentStart(p, rr.stage_start) = rr.stage_start
  BY <1>1, StageFacts DEF BlockLibrary, BlockPattern
<1>8. AtSegment(p, l.next_stage, l.matched_stages)
  BY <1>1, <1>6, <1>7 DEF AtSegment
<1>9. PassedBy(p, l.next_stage, l.matched_stages) \subseteq 1..StageCount(p)
  BY DEF PassedBy
<1> HIDE DEF l, m
<1>10. InStageOrder(p, PassedBy(p, l.next_stage, l.matched_stages), l.intervals)
  BY <1>5, <1>6, <1>9 DEF InStageOrder
<1> QED BY <1>6, <1>8, <1>10, Zenon DEF Sequenced, l

AllSequenced == \A pm \in pms : Sequenced(pm)

\* Whatever an attempt makes is in the order of the stages
LEMMA MadeSequenced ==
  ASSUME BlockLibrary, TypeOK, IdsUnique, AllSequenced, NEW e, NEW k \in Attempts(e)
  PROVE  Sequenced(Made(e, k))
<1>1. CASE k \in Initiations(e)
  <2>1. PICK i \in Pats : /\ Library[i].stages # << >>
                          /\ \E s \in Segment(Library[i], 1) : k = <<0, i, s, 0>>
    BY <1>1, InitiationParts
  <2>2. PICK s \in Segment(Library[i], 1) : k = <<0, i, s, 0>>
    BY <2>1
  <2>3. Made(e, k) = Initiated(i, s, e)
    BY <2>2 DEF Made
  <2> QED BY <2>1, <2>3, InitiatedSequenced
<1>2. CASE k \in Advances(e)
  <2>1. PICK pm \in Advancing(e) : \E s \in TryStages(pm, e) : \E br \in Branches(pm, s, e) :
               k = <<1, pm.id, s, br>> /\ Parent(k) = pm
    BY <1>2, ParentOfAdvance
  <2>2. PICK s \in TryStages(pm, e) : \E br \in Branches(pm, s, e) : k = <<1, pm.id, s, br>>
    BY <2>1
  <2>3. PICK br \in Branches(pm, s, e) : k = <<1, pm.id, s, br>>
    BY <2>2
  <2>4. pm \in Active /\ Sequenced(pm)
    BY DEF Advancing, Active, AllSequenced
  <2>5. br \in {0, 1} /\ (br = 1 => Library[pm.pattern_idx].repeat_range # {})
    BY BranchParts
  <2>6. k[1] = 1 /\ k[3] = s /\ k[4] = br /\ Parent(k) = pm
    BY <2>1, <2>3
  <2>7. CASE br = 0
    <3>1. Made(e, k) = AdvancedMatch(pm, s, e)
      BY <2>6, <2>7 DEF Made
    <3> QED BY <2>4, <3>1, AdvancedSequenced
  <2>8. CASE br = 1
    <3> DEFINE rr == CHOOSE r \in Library[pm.pattern_idx].repeat_range : TRUE
    <3>1. rr \in Library[pm.pattern_idx].repeat_range
      BY <2>5, <2>8
    <3>2. Looping(pm, s)
      BY <2>8 DEF Branches
    <3>3. Made(e, k) = LoopedMatch(Parent(k), k[3], e,
                                   CHOOSE r \in Library[Parent(k).pattern_idx].repeat_range : TRUE)
      BY <2>6, <2>8 DEF Made
    <3>4. Made(e, k) = LoopedMatch(pm, s, e, rr)
      BY <2>6, <3>3
    <3> HIDE DEF rr
    <3> QED BY <2>4, <3>1, <3>2, <3>4, LoopedSequenced
  <2> QED BY <2>5, <2>7, <2>8
<1> QED BY <1>1, <1>2 DEF Attempts

\* Every operation keeps the order
LEMMA NextSequenced ==
  ASSUME BlockLibrary, Inv, AllSequenced, [Next]_vars
  PROVE  AllSequenced'
<1>1. ASSUME NEW i \in DOMAIN graph, Notify(i)
      PROVE  AllSequenced'
  <2> DEFINE made == MatchesMade(graph[i])
  <2>1. pms' = StoreAfter(graph[i], made) /\ TypeOK /\ IdsUnique
    BY <1>1 DEF Notify, OnEdgeAdded, Inv
  <2>2. ASSUME NEW n \in NewMatches(made)
        PROVE  Sequenced(n)
    <3>1. PICK k \in KeptOf(made) : n = [made[k] EXCEPT !.id = IdOf(made, k)]
      BY Zenon DEF NewMatches
    <3>2. k \in Attempts(graph[i]) /\ made[k] = Made(graph[i], k)
      BY <2>1, BornFacts
    <3>3. Sequenced(made[k]) /\ DOMAIN made[k] = MatchFields
      BY <2>1, <3>2, MadeSequenced, MadeIsMatch DEF GoodMatch, IsMatch
    <3> HIDE DEF made
    <3>4. /\ n.pattern_idx = made[k].pattern_idx /\ n.next_stage = made[k].next_stage
          /\ n.matched_stages = made[k].matched_stages /\ n.intervals = made[k].intervals
      BY <3>1, <3>3 DEF MatchFields
    <3> QED BY <3>3, <3>4, Zenon DEF Sequenced
  <2>3. \A pm \in pms' : pm \in pms \/ pm \in NewMatches(made)
    BY <2>1, StoreAfterParts
  <2> HIDE DEF made
  <2>4. \A pm \in pms' : Sequenced(pm)
    BY <2>2, <2>3 DEF AllSequenced
  <2> QED BY <2>4, Zenon DEF AllSequenced, Sequenced
<1>2. CASE pms' \subseteq pms
  BY <1>2, Zenon DEF AllSequenced, Sequenced
<1>3. (\E i \in DOMAIN graph : Notify(i)) \/ pms' \subseteq pms
  BY DEF Next, vars, matches, Register, Insert, SetPatternEnabled, Deregister,
         KillPmsInvolving, DrainCompleted, Active, Tick, EndTick, CommitFork
<1> QED BY <1>1, <1>2, <1>3

\* ... which is what is expected
LEMMA SequencedInSequence ==
  ASSUME AllSequenced
  PROVE  StagesInSequence
<1>1. ASSUME NEW pm \in pms, NEW s \in Passed(pm), NEW t \in Passed(pm),
             s < t, ~SameGroup(Library[pm.pattern_idx], s, t)
      PROVE  pm.intervals[Library[pm.pattern_idx].stages[s].anchor].start
               < pm.intervals[Library[pm.pattern_idx].stages[t].anchor].start
  <2>1. Passed(pm) = PassedBy(Library[pm.pattern_idx], pm.next_stage, pm.matched_stages)
    BY DEF Passed, PassedBy
  <2> QED BY <1>1, <2>1 DEF AllSequenced, Sequenced, InStageOrder
<1> QED BY <1>1 DEF StagesInSequence

-----------------------------------------------------------------------------
(* What is stored was counted *)

\* SumTo is the last of the sums of its recursive function
LEMMA SumSteps ==
  ASSUME NEW f, NEW n \in Nat
  PROVE  \E h : /\ h = [i \in 0..n |-> IF i = 0 THEN 0 ELSE f[i] + h[i - 1]]
                /\ SumTo(f, n) = h[n]
<1> DEFINE F(h, i) == IF i = 0 THEN 0 ELSE f[i] + h[i - 1]
           S == {k \in Nat : \E h : h = [i \in 0..k |-> F(h, i)]}
           upTo == CHOOSE h : h = [i \in 0..n |-> F(h, i)]
<1> HIDE DEF upTo
<1>1. 0 \in S
  <2> DEFINE h == [i \in 0..0 |-> 0]
  <2>1. h = [i \in 0..0 |-> F(h, i)]
    OBVIOUS
  <2> HIDE DEF h, F
  <2> QED BY <2>1
<1>2. ASSUME NEW k \in Nat, k \in S
      PROVE  k + 1 \in S
  <2>1. PICK h : h = [i \in 0..k |-> F(h, i)]
    BY <1>2
  <2> DEFINE h2 == [i \in 0..(k + 1) |-> IF i \in 0..k THEN h[i] ELSE F(h, k + 1)]
  <2>2. ASSUME NEW i \in 0..(k + 1)
        PROVE  h2[i] = F(h2, i)
    <3>1. i # 0 => i - 1 \in 0..k /\ h2[i - 1] = h[i - 1]
      OBVIOUS
    <3>2. h2[i] = F(h, i)
      <4> HIDE DEF F, S
      <4>1. i \in 0..k \/ i = k + 1
        OBVIOUS
      <4> QED BY <2>1, <4>1
    <3> HIDE DEF h2
    <3> QED BY <3>1, <3>2
  <2>3. h2 = [i \in 0..(k + 1) |-> F(h2, i)]
    <3> HIDE DEF F
    <3>1. h2 = [i \in 0..(k + 1) |-> h2[i]]
      OBVIOUS
    <3> HIDE DEF h2
    <3> QED BY <2>2, <3>1
  <2> HIDE DEF h2, F
  <2>4. k + 1 \in Nat
    OBVIOUS
  <2> QED BY <2>3, <2>4
<1>3. Nat \subseteq S
  <2> HIDE DEF S
  <2> QED BY <1>1, <1>2, Induction
<1>4. upTo = [i \in 0..n |-> F(upTo, i)]
  <2>1. n \in S
    BY <1>3
  <2> HIDE DEF F
  <2>2. \E h : h = [i \in 0..n |-> F(h, i)]
    BY <2>1
  <2> QED BY <2>2, Zenon DEF upTo
<1>5. SumTo(f, n) = upTo[n]
  BY Zenon DEF SumTo, upTo
<1> QED BY <1>4, <1>5

\* The events of S added to a sum, each to the term of its pattern
LEMMA SumGrows ==
  ASSUME NEW n \in Nat, NEW f \in [1..n -> Nat], NEW g, NEW S, IsFiniteSet(S),
         \A pm \in S : FirstNamed(pm.pattern_idx) \in 1..n,
         \A i \in 1..n : g[i] = f[i] + Counted(S, i)
  PROVE  SumTo(f, n) \in Nat /\ SumTo(g, n) = SumTo(f, n) + Cardinality(S)
<1>1. PICK u : u = [i \in 0..n |-> IF i = 0 THEN 0 ELSE f[i] + u[i - 1]] /\ SumTo(f, n) = u[n]
  BY SumSteps
<1>2. PICK v : v = [i \in 0..n |-> IF i = 0 THEN 0 ELSE g[i] + v[i - 1]] /\ SumTo(g, n) = v[n]
  BY SumSteps
<1> DEFINE N(x) == FirstNamed(x.pattern_idx)
           UpTo(k) == {x \in S : N(x) <= k}
           At(k) == {x \in S : N(x) = k}
           c == [k \in 0..n |-> Cardinality(UpTo(k))]
           d == [k \in 1..n |-> Cardinality(At(k))]
<1>3. c[0] = 0 /\ c[n] = Cardinality(S)
  <2>1. UpTo(0) = {} /\ UpTo(n) = S
    OBVIOUS
  <2>2. 0 \in 0..n /\ n \in 0..n
    OBVIOUS
  <2> HIDE DEF UpTo
  <2>3. c[0] = Cardinality(UpTo(0)) /\ c[n] = Cardinality(UpTo(n))
    BY <2>2
  <2> HIDE DEF c
  <2> QED BY <2>1, <2>3, FS_EmptySet
<1>4. ASSUME NEW k \in Nat, k + 1 <= n
      PROVE  c[k] \in Nat /\ d[k + 1] \in Nat /\ c[k + 1] = c[k] + d[k + 1]
  <2> DEFINE i == k + 1
  <2>1. UpTo(i) = UpTo(k) \cup At(i) /\ UpTo(k) \cap At(i) = {}
    <3>1. \A x \in S : N(x) \in 1..n /\ (N(x) <= i <=> N(x) <= k \/ N(x) = i) /\ ~(N(x) <= k /\ N(x) = i)
      OBVIOUS
    <3> HIDE DEF i, N
    <3> QED BY <3>1
  <2>2. IsFiniteSet(UpTo(k)) /\ IsFiniteSet(At(i))
    BY FS_Subset
  <2>3. c[k] = Cardinality(UpTo(k)) /\ c[i] = Cardinality(UpTo(i)) /\ d[i] = Cardinality(At(i))
    <3>1. k \in 0..n /\ i \in 0..n /\ i \in 1..n
      BY <1>4
    <3> HIDE DEF UpTo, At, i
    <3> QED BY <3>1
  <2> HIDE DEF UpTo, At, c, d, i
  <2>4. Cardinality(UpTo(k)) \in Nat /\ Cardinality(At(i)) \in Nat
    BY <2>2, FS_CardinalityType
  <2>5. /\ Cardinality(UpTo(k) \cup At(i))
             = Cardinality(UpTo(k)) + Cardinality(At(i)) - Cardinality(UpTo(k) \cap At(i))
        /\ Cardinality(UpTo(k) \cap At(i)) = 0
    BY <2>1, <2>2, FS_Union, FS_EmptySet
  <2>6. Cardinality(UpTo(i)) = Cardinality(UpTo(k) \cup At(i))
    BY <2>1
  <2>7. c[k] \in Nat /\ d[i] \in Nat /\ c[i] = c[k] + d[i]
    BY <2>3, <2>4, <2>5, <2>6
  <2> QED BY <2>7 DEF i
<1>5. \A k \in 1..n : g[k] = f[k] + d[k]
  BY DEF Counted
<1> HIDE DEF UpTo, At, c, d
<1> DEFINE T == {k \in Nat : k <= n => u[k] \in Nat /\ v[k] = u[k] + c[k]}
<1>6. 0 \in T
  <2>1. u[0] = 0 /\ v[0] = 0
    BY <1>1, <1>2
  <2>2. u[0] \in Nat /\ v[0] = u[0] + c[0]
    BY <1>3, <2>1
  <2> QED BY <2>2
<1>7. ASSUME NEW k \in Nat, k \in T
      PROVE  k + 1 \in T
  <2> SUFFICES ASSUME k + 1 <= n
               PROVE  u[k + 1] \in Nat /\ v[k + 1] = u[k + 1] + c[k + 1]
    OBVIOUS
  <2> DEFINE i == k + 1
  <2>1. i \in 1..n /\ i \in 0..n /\ i # 0 /\ i - 1 = k
    OBVIOUS
  <2>2. c[k] \in Nat /\ d[i] \in Nat /\ c[i] = c[k] + d[i]
    BY <1>4
  <2>3. u[k] \in Nat /\ v[k] = u[k] + c[k]
    BY <1>7
  <2> HIDE DEF i, T
  <2>4. u[i] = f[i] + u[k] /\ v[i] = g[i] + v[k]
    BY <1>1, <1>2, <2>1
  <2>5. f[i] \in Nat /\ g[i] = f[i] + d[i]
    BY <1>5, <2>1
  <2>6. u[i] \in Nat /\ v[i] = u[i] + c[i]
    BY <2>2, <2>3, <2>4, <2>5
  <2> QED BY <2>6 DEF i
<1>8. n \in T
  <2> HIDE DEF T
  <2> QED BY <1>6, <1>7, Induction
<1> QED BY <1>1, <1>2, <1>3, <1>8

\* One more term
LEMMA SumNext ==
  ASSUME NEW n \in Nat, NEW f, NEW g, \A i \in 1..n : g[i] = f[i]
  PROVE  SumTo(g, n + 1) = g[n + 1] + SumTo(f, n)
<1> DEFINE m == n + 1
<1>0. m \in Nat /\ m \in 0..m /\ m # 0 /\ m - 1 = n
  OBVIOUS
<1> HIDE DEF m
<1>1. PICK u : u = [i \in 0..n |-> IF i = 0 THEN 0 ELSE f[i] + u[i - 1]] /\ SumTo(f, n) = u[n]
  BY SumSteps
<1>2. PICK v : v = [i \in 0..m |-> IF i = 0 THEN 0 ELSE g[i] + v[i - 1]] /\ SumTo(g, m) = v[m]
  BY <1>0, SumSteps
<1> DEFINE T == {k \in Nat : k <= n => v[k] = u[k]}
<1>3. 0 \in T
  BY <1>0, <1>1, <1>2
<1>4. ASSUME NEW k \in Nat, k \in T
      PROVE  k + 1 \in T
  <2> SUFFICES ASSUME k + 1 <= n
               PROVE  v[k + 1] = u[k + 1]
    OBVIOUS
  <2> DEFINE i == k + 1
  <2>1. i \in 0..n /\ i \in 0..m /\ i \in 1..n /\ i # 0 /\ i - 1 = k
    BY DEF m
  <2>2. v[k] = u[k]
    BY <1>4
  <2> HIDE DEF i
  <2>3. u[i] = f[i] + u[k] /\ v[i] = g[i] + v[k] /\ g[i] = f[i]
    BY <1>1, <1>2, <2>1
  <2> QED BY <2>2, <2>3 DEF i
<1>5. n \in T
  <2> HIDE DEF T
  <2> QED BY <1>3, <1>4, Induction
<1>6. v[m] = g[m] + v[n]
  BY <1>0, <1>2
<1> QED BY <1>1, <1>2, <1>5, <1>6 DEF m

\* StoredIsCounted, of every registered pattern under its own index
StoreCounted ==
  \A j \in Pats : /\ Counted(Complete, j) <= metrics[j].completion_count
                  /\ Counted(Active, j) <= metrics[j].advancement_count

\* A part of what is counted counts for no more, and two parts for no more
\* than their sum
LEMMA CountedParts ==
  ASSUME NEW S, NEW A, NEW B, IsFiniteSet(A), IsFiniteSet(B), S \subseteq A \cup B, NEW j
  PROVE  Counted(S, j) <= Counted(A, j) + Counted(B, j)
<1> DEFINE Of(X) == {pm \in X : FirstNamed(pm.pattern_idx) = j}
<1>1. IsFiniteSet(Of(A)) /\ IsFiniteSet(Of(B))
  BY FS_Subset
<1>2. Of(S) \subseteq Of(A) \cup Of(B)
  OBVIOUS
<1>3. /\ Counted(S, j) = Cardinality(Of(S)) /\ Counted(A, j) = Cardinality(Of(A))
      /\ Counted(B, j) = Cardinality(Of(B))
  BY DEF Counted
<1> HIDE DEF Of
<1>4. /\ IsFiniteSet(Of(A) \cup Of(B))
      /\ Cardinality(Of(A) \cup Of(B))
           = Cardinality(Of(A)) + Cardinality(Of(B)) - Cardinality(Of(A) \cap Of(B))
  BY <1>1, FS_Union
<1>5. IsFiniteSet(Of(S)) /\ Cardinality(Of(S)) <= Cardinality(Of(A) \cup Of(B))
  BY <1>2, <1>4, FS_Subset
<1>6. IsFiniteSet(Of(A) \cap Of(B))
  BY <1>1, FS_Subset
<1>7. /\ Cardinality(Of(S)) \in Nat /\ Cardinality(Of(A)) \in Nat /\ Cardinality(Of(B)) \in Nat
      /\ Cardinality(Of(A) \cap Of(B)) \in Nat
  BY <1>1, <1>5, <1>6, FS_CardinalityType
<1> QED BY <1>3, <1>4, <1>5, <1>7

\* Whatever is new is written, or a completion that is rejected
LEMMA BornKeptOrRejected ==
  ASSUME TypeOK, IdsUnique, NEW e
  PROVE  /\ Cardinality(NewMatches(MatchesMade(e))) \in Nat
         /\ Cardinality(Rejections(e)) \in Nat
         /\ Cardinality(Born(MatchesMade(e)))
              = Cardinality(NewMatches(MatchesMade(e))) + Cardinality(Rejections(e))
<1> DEFINE made == MatchesMade(e)
           B == Born(made)
           K == KeptOf(made)
           R == Rejections(e)
           N == NewMatches(made)
           f == [k \in K |-> [made[k] EXCEPT !.id = IdOf(made, k)]]
<1>1. IsFiniteSet(B) /\ K \subseteq B
  BY BornFacts
<1>2. R \subseteq B /\ \A k \in B : k \in R <=> ~Kept(k, made[k])
  BY DEF Rejections, Kept
<1>3. \A k \in B : k \in K <=> Kept(k, made[k])
  BY DEF KeptOf
<1>4. B = K \cup R /\ K \cap R = {}
  BY <1>1, <1>2, <1>3, Zenon
<1>5. f \in Surjection(K, N)
  BY DEF NewMatches, Surjection
<1>6. ASSUME NEW k \in K, NEW l \in K, f[k] = f[l]
      PROVE  k = l
  <2>1. k \in B /\ l \in B /\ k \in Attempts(e) /\ l \in Attempts(e)
        /\ made[k] = Made(e, k) /\ made[l] = Made(e, l)
    BY BornFacts
  <2>2. "id" \in DOMAIN made[k] /\ "id" \in DOMAIN made[l]
    <3>1. DOMAIN made[k] = MatchFields /\ DOMAIN made[l] = MatchFields
      BY <2>1, MadeIsMatch DEF GoodMatch, IsMatch
    <3> QED BY <3>1 DEF MatchFields
  <2>3. f[k].id = IdOf(made, k) /\ f[l].id = IdOf(made, l)
    BY <2>2
  <2> HIDE DEF made, f
  <2>4. IdOf(made, k) = IdOf(made, l)
    BY <1>6, <2>3
  <2> QED BY <2>1, <2>4, IdsDistinct DEF made
<1> HIDE DEF made, B, K, R, N, f
<1>7. f \in Injection(K, N)
  BY <1>5, <1>6, Zenon DEF Injection, Surjection, IsInjective
<1>8. IsFiniteSet(K) /\ IsFiniteSet(R)
  BY <1>1, <1>2, FS_Subset
<1>9. IsFiniteSet(N) /\ Cardinality(N) = Cardinality(K)
  BY <1>5, <1>7, <1>8, FS_Surjection
<1>10. Cardinality(K) \in Nat /\ Cardinality(R) \in Nat
  BY <1>8, FS_CardinalityType
<1>11. Cardinality(B) = Cardinality(K) + Cardinality(R) - Cardinality(K \cap R)
  BY <1>4, <1>8, FS_Union
<1>12. Cardinality(K \cap R) = 0
  BY <1>4, FS_EmptySet
<1>13. Cardinality(N) \in Nat /\ Cardinality(B) = Cardinality(N) + Cardinality(R)
  BY <1>9, <1>10, <1>11, <1>12
<1> QED BY <1>10, <1>13 DEF made, B, R, N

\* on_edge_added counts whatever it stores, once, and gives an id to what it
\* counts and to what it rejects
LEMMA OnEdgeAddedCounts ==
  ASSUME Inv, StoreCounted, NEW i \in DOMAIN graph, Notify(i)
  PROVE  StoreCounted' /\ IdsAccounted
<1> DEFINE e == graph[i]
           made == MatchesMade(e)
           new == NewMatches(made)
           A == {pm \in new : pm.state = "Active"}
           C == {pm \in new : pm.state = "Complete"}
<1>1. TypeOK /\ IdsUnique /\ registered \in Nat
  BY LibraryDomain DEF Inv, TypeOK
<1>2. /\ pms' = StoreAfter(e, made) /\ registered' = registered
      /\ metrics' = MetricsAfter(A, C, Killed(e))
      /\ next_match_id' = next_match_id + Cardinality(Born(made))
  BY DEF Notify, OnEdgeAdded
<1>3. /\ IsFiniteSet(new) /\ IsFiniteSet(A) /\ IsFiniteSet(C)
      /\ IsFiniteSet(Active) /\ IsFiniteSet(Complete)
  BY <1>1, NewMatchesFinite, FS_Subset DEF TypeOK, Active, Complete
<1>4. \A pm \in pms' : pm \in pms \/ pm \in new
  BY <1>2, StoreAfterParts
<1>5. Active' \subseteq Active \cup A /\ Complete' \subseteq Complete \cup C
  BY <1>4 DEF Active, Complete
<1>6. \A S, j : Counted(S, j)' = Counted(S', j)
  BY <1>2 DEF Counted, FirstNamed, Named, Pats
<1>7. \A n \in new : n.pattern_idx \in Pats /\ n.state \in {"Active", "Complete"}
  BY <1>1, NewMatchFacts DEF GoodMatch, IsMatch
<1>8. \A j \in Pats :
        /\ metrics'[j].advancement_count = metrics[j].advancement_count + Counted(A, j)
        /\ metrics'[j].completion_count = metrics[j].completion_count + Counted(C, j)
        /\ metrics[j].advancement_count \in Nat /\ metrics[j].completion_count \in Nat
  BY <1>1, <1>2 DEF MetricsAfter, TypeOK
<1>9. /\ Cardinality(new) \in Nat /\ Cardinality(Rejections(e)) \in Nat
      /\ Cardinality(Born(made)) = Cardinality(new) + Cardinality(Rejections(e))
  BY <1>1, BornKeptOrRejected
<1>10. RejectedNow = Rejections(e)
  <2>1. notified' \ notified = {i}
    BY DEF Notify
  <2> QED BY <2>1 DEF RejectedNow
<1>11. A \cup C = new /\ A \cap C = {}
  BY <1>7
<1> HIDE DEF e, made, new, A, C
<1>12. StoreCounted'
  <2>1. ASSUME NEW j \in Pats
        PROVE  /\ Counted(Complete', j) <= metrics'[j].completion_count
               /\ Counted(Active', j) <= metrics'[j].advancement_count
    <3>1. /\ Counted(Complete', j) <= Counted(Complete, j) + Counted(C, j)
          /\ Counted(Active', j) <= Counted(Active, j) + Counted(A, j)
      BY <1>3, <1>5, CountedParts
    <3>2. /\ Counted(Complete, j) \in Nat /\ Counted(C, j) \in Nat
          /\ Counted(Active, j) \in Nat /\ Counted(A, j) \in Nat
          /\ IsFiniteSet(Complete') /\ IsFiniteSet(Active')
      BY <1>3, <1>5, CountedType, FS_Subset, FS_Union
    <3>3. Counted(Complete', j) \in Nat /\ Counted(Active', j) \in Nat
      BY <3>2, CountedType
    <3> QED BY <1>8, <3>1, <3>2, <3>3 DEF StoreCounted
  <2> QED BY <1>2, <1>6, <2>1 DEF StoreCounted, Pats
<1>13. IdsAccounted
  <2>1. \A n \in new : FirstNamed(n.pattern_idx) \in 1..registered
    BY <1>1, <1>7, FirstNamedFacts DEF Pats
  <2>2. Events \in [1..registered -> Nat]
    BY <1>8 DEF Events, Pats
  <2>3. ASSUME NEW j \in 1..registered
        PROVE  Events'[j] = Events[j] + Counted(new, j)
    <3>1. /\ Events[j] = metrics[j].completion_count + metrics[j].advancement_count
          /\ Events'[j] = metrics'[j].completion_count + metrics'[j].advancement_count
      BY <1>2 DEF Events, Pats
    <3> DEFINE Of(X) == {n \in X : FirstNamed(n.pattern_idx) = j}
    <3>2. Of(new) = Of(A) \cup Of(C) /\ Of(A) \cap Of(C) = {}
      BY <1>11
    <3>3. IsFiniteSet(Of(A)) /\ IsFiniteSet(Of(C))
      BY <1>3, FS_Subset
    <3>4. \A X : Counted(X, j) = Cardinality(Of(X))
      BY DEF Counted
    <3> HIDE DEF Of
    <3>5. Cardinality(Of(A)) \in Nat /\ Cardinality(Of(C)) \in Nat
      BY <3>3, FS_CardinalityType
    <3>6. Cardinality(Of(new)) = Cardinality(Of(A)) + Cardinality(Of(C))
      <4>1. Cardinality(Of(A) \cup Of(C))
              = Cardinality(Of(A)) + Cardinality(Of(C)) - Cardinality(Of(A) \cap Of(C))
        BY <3>3, FS_Union
      <4>2. Cardinality(Of(A) \cap Of(C)) = 0
        BY <3>2, FS_EmptySet
      <4>3. Cardinality(Of(new)) = Cardinality(Of(A) \cup Of(C))
        BY <3>2
      <4> QED BY <3>5, <4>1, <4>2, <4>3
    <3> QED BY <1>8, <3>1, <3>4, <3>5, <3>6 DEF Pats
  <2>4. SumTo(Events, registered) \in Nat
        /\ SumTo(Events', registered) = SumTo(Events, registered) + Cardinality(new)
    <3> DEFINE g == Events'
    <3>1. \A j \in 1..registered : g[j] = Events[j] + Counted(new, j)
      BY <2>3
    <3> HIDE DEF g
    <3>2. SumTo(Events, registered) \in Nat
          /\ SumTo(g, registered) = SumTo(Events, registered) + Cardinality(new)
      BY <1>1, <1>3, <2>1, <2>2, <3>1, SumGrows
    <3> QED BY <3>2 DEF g
  <2>5. next_match_id \in Nat
    BY <1>1 DEF TypeOK
  <2>6. SumTo(Events', registered') - SumTo(Events, registered) = Cardinality(new)
    BY <1>2, <1>9, <2>4
  <2>7. next_match_id' = next_match_id + Cardinality(new) + Cardinality(RejectedNow)
    BY <1>2, <1>9, <1>10, <2>5
  <2> QED BY <2>6, <2>7 DEF IdsAccounted
<1> QED BY <1>12, <1>13

\* The terms of the sum, and the sum, are naturals
LEMMA EventsType ==
  ASSUME TypeOK
  PROVE  /\ registered \in Nat /\ Events \in [1..registered -> Nat]
         /\ SumTo(Events, registered) \in Nat
<1>1. registered \in Nat /\ Events \in [1..registered -> Nat]
  BY LibraryDomain DEF TypeOK, Events, Pats
<1>2. IsFiniteSet({}) /\ \A i : Counted({}, i) = 0
  <2>1. \A i : {pm \in {} : FirstNamed(pm.pattern_idx) = i} = {}
    OBVIOUS
  <2> QED BY <2>1, FS_EmptySet DEF Counted
<1>3. \A i \in 1..registered : Events[i] = Events[i] + Counted({}, i)
  BY <1>1, <1>2
<1>4. SumTo(Events, registered) \in Nat
  BY <1>1, <1>2, <1>3, SumGrows
<1> QED BY <1>1, <1>4

\* Where nothing is told, nothing is rejected
LEMMA NothingTold ==
  ASSUME notified' = notified, next_match_id' = next_match_id, next_match_id \in Nat,
         SumTo(Events', registered') = SumTo(Events, registered), SumTo(Events, registered) \in Nat
  PROVE  IdsAccounted
<1>1. RejectedNow = {}
  BY DEF RejectedNow
<1>2. Cardinality(RejectedNow) = 0
  BY <1>1, FS_EmptySet
<1> QED BY <1>2 DEF IdsAccounted

\* A new pattern has nothing stored and nothing counted
LEMMA RegisterCounts ==
  ASSUME Inv, StoreCounted, Register
  PROVE  StoreCounted' /\ IdsAccounted
<1>1. /\ TypeOK /\ pms' = pms /\ next_match_id' = next_match_id /\ next_match_id \in Nat
      /\ notified' = notified
  BY DEF Inv, TypeOK, Register, matches, dataSource
<1>2. /\ registered \in Nat /\ registered' = registered + 1
      /\ \A i \in 1..registered : metrics'[i] = metrics[i]
      /\ metrics'[registered + 1] = NewMetrics
  BY <1>1, RegisterMetrics
<1>3. \A pm \in pms : FirstNamed(pm.pattern_idx)' = FirstNamed(pm.pattern_idx)
                      /\ FirstNamed(pm.pattern_idx) \in 1..registered
  BY <1>1, RegisterNames DEF TypeOK, IsMatch
<1>4. StoreCounted'
  <2> DEFINE Of(S, j) == {pm \in S : FirstNamed(pm.pattern_idx) = j}
  <2>1. Active' = Active /\ Complete' = Complete /\ Active \subseteq pms /\ Complete \subseteq pms
    BY <1>1 DEF Active, Complete
  <2>2. \A j : Of(Active, j)' = Of(Active, j) /\ Of(Complete, j)' = Of(Complete, j)
    BY <1>3, <2>1
  <2>3. \A j \in 1..(registered + 1) : ~(j \in 1..registered) => j = registered + 1
    BY <1>2
  <2>4. \A j : j = registered + 1 => Of(Active, j) = {} /\ Of(Complete, j) = {}
    BY <1>2, <1>3, <2>1
  <2>5. \A j : /\ Counted(Active, j)' = Cardinality(Of(Active, j)')
               /\ Counted(Complete, j)' = Cardinality(Of(Complete, j)')
               /\ Counted(Active, j) = Cardinality(Of(Active, j))
               /\ Counted(Complete, j) = Cardinality(Of(Complete, j))
    BY DEF Counted
  <2> HIDE DEF Of
  <2>6. ASSUME NEW j \in 1..(registered + 1)
        PROVE  /\ Counted(Complete, j)' <= metrics'[j].completion_count
               /\ Counted(Active, j)' <= metrics'[j].advancement_count
    <3>1. CASE j \in 1..registered
      BY <1>2, <2>2, <2>5, <3>1 DEF StoreCounted, Pats
    <3>2. CASE j = registered + 1
      BY <1>2, <2>2, <2>4, <2>5, <3>2, FS_EmptySet DEF NewMetrics
    <3> QED BY <2>3, <3>1, <3>2
  <2> QED BY <1>2, <2>6 DEF StoreCounted, Pats
<1>5. IdsAccounted
  <2> DEFINE g == Events'
  <2>1. \A i \in 1..registered : g[i] = Events[i]
    BY <1>2 DEF Events, Pats
  <2>2. g[registered + 1] = 0
    BY <1>2 DEF Events, Pats, NewMetrics
  <2> HIDE DEF g
  <2>3. SumTo(g, registered + 1) = g[registered + 1] + SumTo(Events, registered)
    BY <1>2, <2>1, SumNext
  <2>4. SumTo(Events, registered) \in Nat
    BY <1>1, EventsType
  <2>5. SumTo(Events', registered') = SumTo(Events, registered)
    BY <1>2, <2>2, <2>3, <2>4 DEF g
  <2> QED BY <1>1, <2>4, <2>5, NothingTold
<1> QED BY <1>4, <1>5

\* Every operation counts what it stores and accounts for the ids it gives
LEMMA NextCounts ==
  ASSUME Inv, StoreCounted, [Next]_vars
  PROVE  StoreCounted' /\ IdsAccounted
<1>1. CASE Register
  BY <1>1, RegisterCounts
<1>2. ASSUME NEW i \in DOMAIN graph, Notify(i)
      PROVE  StoreCounted' /\ IdsAccounted
  BY <1>2, OnEdgeAddedCounts
<1>3. CASE pms' \subseteq pms /\ UNCHANGED <<notified, registered, next_match_id, metrics>>
  <2>1. IsFiniteSet(Active) /\ IsFiniteSet(Complete)
    BY FS_Subset DEF Inv, TypeOK, Active, Complete
  <2>2. Active' \subseteq Active /\ Complete' \subseteq Complete
    BY <1>3 DEF Active, Complete
  <2>3. ASSUME NEW S, NEW R, IsFiniteSet(S), R \subseteq S, NEW j
        PROVE  Counted(R, j) <= Counted(S, j)
    <3> DEFINE Of(X) == {pm \in X : FirstNamed(pm.pattern_idx) = j}
    <3>1. Of(R) \subseteq Of(S) /\ IsFiniteSet(Of(S))
      BY <2>3, FS_Subset
    <3>2. Counted(R, j) = Cardinality(Of(R)) /\ Counted(S, j) = Cardinality(Of(S))
      BY DEF Counted
    <3> HIDE DEF Of
    <3> QED BY <3>1, <3>2, FS_Subset
  <2>4. \A S, j : Counted(S, j)' = Counted(S', j)
    BY <1>3 DEF Counted, FirstNamed, Named, Pats
  <2>5. \A j \in Pats : /\ Counted(Active', j) <= Counted(Active, j)
                        /\ Counted(Complete', j) <= Counted(Complete, j)
    BY <2>1, <2>2, <2>3
  <2>6. \A j \in Pats : /\ Counted(Active', j) \in Nat /\ Counted(Active, j) \in Nat
                        /\ Counted(Complete', j) \in Nat /\ Counted(Complete, j) \in Nat
                        /\ metrics[j].advancement_count \in Nat
                        /\ metrics[j].completion_count \in Nat
    BY <2>1, <2>2, FS_Subset, CountedType DEF Inv, TypeOK
  <2>7. StoreCounted'
    BY <1>3, <2>4, <2>5, <2>6 DEF StoreCounted, Pats
  <2>8. IdsAccounted
    <3>1. Events' = Events /\ registered' = registered
      BY <1>3 DEF Events, Pats
    <3>2. next_match_id \in Nat /\ SumTo(Events, registered) \in Nat
      BY EventsType DEF Inv, TypeOK
    <3> QED BY <1>3, <3>1, <3>2, NothingTold
  <2> QED BY <2>7, <2>8
<1>4. \/ Register
      \/ \E i \in DOMAIN graph : Notify(i)
      \/ pms' \subseteq pms /\ UNCHANGED <<notified, registered, next_match_id, metrics>>
  BY DEF Next, vars, dataSource, matches, Insert, SetPatternEnabled, Deregister,
         KillPmsInvolving, DrainCompleted, Active, Tick, EndTick, CommitFork
<1> QED BY <1>1, <1>2, <1>3, <1>4

\* A new engine has stored nothing
LEMMA InitCounts == Init => StoreCounted
  BY DEF Init, Pats, StoreCounted

\* ... which is what is expected
LEMMA CountedStored ==
  ASSUME Inv, StoreCounted
  PROVE  StoredIsCounted
<1>1. registered \in Nat
  BY LibraryDomain DEF Inv, TypeOK
<1>2. ASSUME NEW i \in Pats
      PROVE  /\ Counted(Complete, FirstNamed(i)) <= metrics[FirstNamed(i)].completion_count
             /\ Counted(Active, FirstNamed(i)) <= metrics[FirstNamed(i)].advancement_count
  BY <1>1, FirstNamedFacts DEF StoreCounted
<1> QED BY <1>2 DEF StoredIsCounted, Counted

(***************************************************************************)
(* The theorems                                                            *)
(***************************************************************************)

\* The invariant holds in every state the engine can reach, whatever its
\* caller inserts, notifies, disables, drains, kills, ticks or clones.
THEOREM Invariance == Spec => []Inv
<1>1. Init => Inv
  BY InitInv
<1>2. Inv /\ [Next]_vars => Inv'
  BY NextInv
<1> QED BY <1>1, <1>2, PTL DEF Spec

\* The store of matches, the registry and the metrics are always well-formed:
\* a match is Complete exactly when it is past its last stage (eval.rs), the
\* mask of matched stages fits its 64 bits.
THEOREM TypeCorrect == Spec => []TypeOK
<1>1. Inv => TypeOK
  BY DEF Inv
<1> QED BY <1>1, Invariance, PTL

\* next_match_id never catches up with an id in use, though one call of
\* on_edge_added takes ids in three places and a rejected completion takes
\* one too: no two stored matches share an id.
THEOREM UniqueIds == Spec => []IdsUnique
<1>1. Inv => IdsUnique
  BY DEF Inv
<1> QED BY <1>1, Invariance, PTL

\* The fingerprints of on_edge_added never let the same partial match be
\* stored twice, whichever paths of a call, or calls, lead to it.
THEOREM Deduplication == Spec => []NoDuplicateMatch
<1>1. Inv => NoDuplicateMatch
  BY DEF Inv
<1> QED BY <1>1, Invariance, PTL

\* A disabled or deregistered pattern has nothing in progress: neither
\* set_pattern_enabled nor a later on_edge_added leaves a match active.
THEOREM DisabledQuiet == Spec => []DisabledPatternsQuiet
<1>1. Inv => DisabledPatternsQuiet
  BY DEF Inv
<1> QED BY <1>1, Invariance, PTL

\* No match is ahead of the clock of its pattern's metrics and no metrics are
\* ahead of the engine's clock: the u64 subtractions of end_tick and
\* stale_patterns never wrap.
THEOREM ClockAgreement == Spec => []ClocksAgree
<1>1. Inv => ClocksAgree
  BY DEF Inv
<1> QED BY <1>1, Invariance, PTL

\* The counters of PatternMetrics lose no event and invent none: in every step
\* next_match_id moves by the advances and completions counted, of all patterns
\* together, and the completions that failed the temporal check; and of every
\* pattern, under the first of its name, at least as many completions and
\* advances were counted as complete and active matches are stored.
THEOREM NothingUncounted == Spec => EveryIdAccounted
<1>1. Inv /\ StoreCounted /\ [Next]_vars => StoreCounted' /\ IdsAccounted
  BY NextCounts
<1>2. Inv /\ StoreCounted => StoredIsCounted
  BY CountedStored
<1> QED BY <1>1, <1>2, InitCounts, Invariance, PTL DEF Spec, EveryIdAccounted

\* The engine implements the ledger of matches: every operation writes
\* matches once under fresh ids, only drops matches in progress, and only
\* drain_completed removes complete ones.
THEOREM ImplementsLedger == Spec => LedgerSpec
<1>1. Init => Ledger!Init
  BY DEF Init, Ledger!Init, Active, Complete
<1>2. Inv /\ [Next]_vars => [Ledger!Next]_<<Active, Complete, next_match_id>>
  BY NextLedger
<1> QED BY <1>1, <1>2, Invariance, PTL DEF Spec, LedgerSpec, Ledger!Spec

\* When the names of the patterns differ, a completion leaves nothing of its
\* exclusive group in progress (the retain that ends on_edge_added).
THEOREM GroupsClose ==
  ASSUME UniqueNames
  PROVE  Spec => CompletionClosesGroup
<1>1. Inv /\ [Next]_vars => [ClosesGroup]_vars
  BY NextClosesGroup
<1> QED BY <1>1, Invariance, PTL DEF Spec, CompletionClosesGroup, ClosesGroup

\* When the names of the patterns differ, stale_patterns never reports a
\* pattern one of whose matches advanced within the threshold.
THEOREM StaleMeansIdle ==
  ASSUME UniqueNames
  PROVE  Spec => []StaleIsIdle
<1>1. Inv => StaleIsIdle
  BY StaleIdle
<1> QED BY <1>1, Invariance, PTL

\* The order holds in every state
LEMMA SequencedAlways ==
  ASSUME BlockLibrary
  PROVE  Spec => []AllSequenced
<1>1. Init => AllSequenced
  BY DEF Init, AllSequenced
<1>2. Inv /\ AllSequenced /\ [Next]_vars => AllSequenced'
  BY NextSequenced
<1> QED BY <1>1, <1>2, Invariance, PTL DEF Spec

\* When anchors are told apart and groups are blocks of stages, the stages a
\* match has been through started in the order of the stages, in whatever order
\* the engine was told of the edges, however often the match looped (InOrder,
\* the check of on_edge_added's third phase, is against the anchors that remain
\* after a loop too).
THEOREM SequenceInOrder ==
  ASSUME BlockLibrary
  PROVE  Spec => []StagesInSequence
<1>1. Spec => []AllSequenced
  BY SequencedAlways
<1>2. AllSequenced => StagesInSequence
  BY SequencedInSequence
<1> QED BY <1>1, <1>2, PTL

-----------------------------------------------------------------------------
(***************************************************************************)
(* Every stage a match passed is borne out by the graph, for every library *)
(* of patterns and in whatever order edges are inserted and told.          *)
(*                                                                         *)
(* That an edge agrees with bindings is not kept when bindings change.  So *)
(* a stage is vouched for by edges that are Firm: everything the clause    *)
(* speaks of is bound, and no later binding can take that away.  A stage's *)
(* match is firm when it is made (try_match_stage), stays so while         *)
(* bindings grow (advances, forks), and is given up together with the      *)
(* bindings a loop clears.                                                 *)
(***************************************************************************)

(* Bindings that grow *)

Extends(m, b) == DOMAIN b \subseteq DOMAIN m /\ \A x \in DOMAIN b : m[x] = b[x]

\* Agrees, and no later binding can change it: all the clause is about is bound
Firm(b, c, x) ==
  /\ x.label = c.label
  /\ c.source \in DOMAIN b /\ b[c.source] = x.source
  /\ c.target.kind = "in" => x.target \in c.target.vals
  /\ c.target.kind = "var" => /\ c.target.var \in DOMAIN b
                              /\ <<b[c.target.var], x.target>> \in c.target.rel
  /\ c.target.kind = "bind" => c.target.var \in DOMAIN b /\ b[c.target.var] = x.target

\* More bindings take nothing back
LEMMA FirmGrows ==
  ASSUME NEW m, NEW b, NEW c, NEW x, Extends(m, b), Firm(b, c, x)
  PROVE  Firm(m, c, x)
BY DEF Extends, Firm

\* Some edge of g that covers the instant `at` satisfies the clause
Found(g, c, b, at) ==
  c.negated \/ \E j \in DOMAIN g : Firm(b, c, g[j]) /\ Covers(g[j].interval, at)

\* Of the variables A, those that are bound are bound to nodes
BoundToNodes(b, A) == \A x \in A : x \in DOMAIN b => b[x] \in Nodes

\* What BindNew adds is the target's variable, if it was free, and nothing else
LEMMA BindNewExtends ==
  ASSUME NEW target, NEW v, NEW b
  PROVE  /\ Extends(BindNew(target, v, b), b)
         /\ target.kind = "bind" /\ target.var \notin DOMAIN b => BindNew(target, v, b)[target.var] = v
         /\ target.kind = "bind" => target.var \in DOMAIN BindNew(target, v, b)
         /\ \A x \in DOMAIN BindNew(target, v, b) :
              x \in DOMAIN b \/ (target.kind = "bind" /\ x = target.var /\ x \notin DOMAIN b)
BY DEF BindNew, Extends, Single, Overlay

-----------------------------------------------------------------------------
(* One stage against one edge *)

\* The candidate bindings after the first i clauses, from those after the first
After(g, stage, at, first, h, i) ==
  IF i = 1 THEN first
  ELSE UNION {LookupClause(g, stage.clauses[i], m, at) : m \in h[i - 1]}

\* What try_match_stage returns: the candidates after the last clause
LEMMA TryMatchSteps ==
  ASSUME NEW g, NEW stage, NEW e, NEW b, Len(stage.clauses) \in Nat
  PROVE  \E h : /\ h = [i \in 1..Len(stage.clauses) |->
                          After(g, stage, e.interval.start, {Overlay(FirstBindings(stage, e, b), b)}, h, i)]
                /\ TryMatchStage(g, stage, e, b)
                     = IF FirstClauseMatches(stage, e, b) THEN h[Len(stage.clauses)] ELSE {}
<1> DEFINE first == {Overlay(FirstBindings(stage, e, b), b)}
           n == Len(stage.clauses)
           at == e.interval.start
           F(h, i) == After(g, stage, at, first, h, i)
           S == {k \in Nat : \E h : h = [i \in 1..k |-> F(h, i)]}
           after == CHOOSE h : h = [i \in 1..n |-> F(h, i)]
<1> HIDE DEF after
<1>1. 0 \in S
  <2> DEFINE h == [i \in 1..0 |-> first]
  <2>1. h = [i \in 1..0 |-> F(h, i)]
    OBVIOUS
  <2> HIDE DEF h, F
  <2> QED BY <2>1
<1>2. ASSUME NEW k \in Nat, k \in S
      PROVE  k + 1 \in S
  <2>1. PICK h : h = [i \in 1..k |-> F(h, i)]
    BY <1>2
  <2> DEFINE h2 == [i \in 1..(k + 1) |-> IF i \in 1..k THEN h[i] ELSE F(h, k + 1)]
  <2>2. ASSUME NEW i \in 1..(k + 1)
        PROVE  h2[i] = F(h2, i)
    <3>1. i # 1 => i - 1 \in 1..k /\ h2[i - 1] = h[i - 1]
      OBVIOUS
    <3>2. h2[i] = F(h, i)
      <4> HIDE DEF F, S, n
      <4>1. i \in 1..k \/ i = k + 1
        OBVIOUS
      <4> QED BY <2>1, <4>1
    <3> HIDE DEF h2
    <3>3. F(h, i) = F(h2, i)
      BY <3>1 DEF After
    <3> QED BY <3>2, <3>3
  <2>3. h2 = [i \in 1..(k + 1) |-> F(h2, i)]
    <3> HIDE DEF F
    <3>1. h2 = [i \in 1..(k + 1) |-> h2[i]]
      OBVIOUS
    <3> HIDE DEF h2
    <3> QED BY <2>2, <3>1
  <2> HIDE DEF h2, F
  <2>4. k + 1 \in Nat
    OBVIOUS
  <2> QED BY <2>3, <2>4
<1>3. Nat \subseteq S
  <2> HIDE DEF S
  <2> QED BY <1>1, <1>2, Induction
<1>4. after = [i \in 1..n |-> F(after, i)]
  <2>1. n \in S
    BY <1>3
  <2> HIDE DEF F, n
  <2>2. \E h : h = [i \in 1..n |-> F(h, i)]
    BY <2>1
  <2> QED BY <2>2, Zenon DEF after
<1>5. TryMatchStage(g, stage, e, b) = IF FirstClauseMatches(stage, e, b) THEN after[n] ELSE {}
  BY Zenon DEF TryMatchStage, After, after
<1> QED BY <1>4, <1>5

\* A later clause: what it binds comes from the first edge that fits
LEMMA LookupSound ==
  ASSUME NEW g \in Seq(Edge), NEW c, NEW b, NEW at, NEW m \in LookupClause(g, c, b, at),
         NEW A, LeadsToNodes(c, A), BoundToNodes(b, A)
  PROVE  Extends(m, b) /\ Found(g, c, m, at) /\ BoundToNodes(m, A)
<1> DEFINE hits == {i \in EdgesFrom(g, b[c.source], c.label, at) :
                      TargetAccepts(c.target, g[i].target, b)}
<1>1. BoundToNode(b, c.source) /\ Resolvable(c.target, b)
  BY DEF LookupClause
<1>2. CASE c.negated
  <2>1. m = b
    BY <1>1, <1>2 DEF LookupClause
  <2> QED BY <1>2, <2>1 DEF Extends, Found
<1>3. CASE ~c.negated
  <2>1. hits # {} /\ m = BindNew(c.target, FirstOf(g, hits).target, b)
    BY <1>1, <1>3 DEF LookupClause
  <2>2. hits \in SUBSET Nat /\ hits \subseteq DOMAIN g
    BY LenProperties DEF EdgesFrom
  <2>3. PICK i \in hits : FirstOf(g, hits) = g[i]
    <3> HIDE DEF hits
    <3>1. \E i \in hits : \A j \in hits : i <= j
      BY <2>1, <2>2, LeastNatural
    <3> QED BY <3>1, Zenon DEF FirstOf
  <2>4. /\ i \in DOMAIN g /\ g[i].source = b[c.source] /\ g[i].label = c.label
        /\ Covers(g[i].interval, at) /\ TargetAccepts(c.target, g[i].target, b)
    BY DEF EdgesFrom
  <2>5. g[i] \in Edge
    BY <2>4, ElementOfSeq, LenProperties
  <2> HIDE DEF hits
  <2>6. m = BindNew(c.target, g[i].target, b)
    BY <2>1, <2>3
  <2>7. Extends(m, b)
    BY <2>6, BindNewExtends
  <2>8. c.source \in DOMAIN m /\ m[c.source] = g[i].source
    BY <1>1, <2>4, <2>7 DEF Extends, BoundToNode
  <2>9. c.target.kind = "in" => g[i].target \in c.target.vals
    BY <2>4 DEF TargetAccepts, ConstraintAccepts
  <2>10. c.target.kind = "var" => /\ c.target.var \in DOMAIN m
                                 /\ <<m[c.target.var], g[i].target>> \in c.target.rel
    BY <1>1, <2>4, <2>7 DEF TargetAccepts, ConstraintAccepts, Resolvable, Extends
  <2>11. c.target.kind = "bind" => c.target.var \in DOMAIN m /\ m[c.target.var] = g[i].target
    <3>1. CASE c.target.var \in DOMAIN b
      BY <2>4, <2>7, <3>1 DEF TargetAccepts, Extends
    <3>2. CASE c.target.var \notin DOMAIN b
      BY <2>6, <3>2, BindNewExtends
    <3> QED BY <3>1, <3>2
  <2>12. Found(g, c, m, at)
    BY <2>4, <2>8, <2>9, <2>10, <2>11 DEF Found, Firm
  <2>13. ASSUME NEW x \in A, x \in DOMAIN m
         PROVE  m[x] \in Nodes
    <3>1. x \in DOMAIN b \/ (c.target.kind = "bind" /\ x = c.target.var)
      BY <2>6, <2>13, BindNewExtends
    <3>2. CASE x \in DOMAIN b
      BY <2>7, <3>2 DEF Extends, BoundToNodes
    <3>3. CASE c.target.kind = "bind" /\ x = c.target.var
      BY <2>4, <2>5, <2>11, <3>3 DEF LeadsToNodes
    <3> QED BY <3>1, <3>2, <3>3
  <2> QED BY <2>7, <2>12, <2>13 DEF BoundToNodes
<1> QED BY <1>2, <1>3

\* The first clause is the new edge
LEMMA FirstSound ==
  ASSUME NEW stage, AnchoredStage(stage), NEW e \in Edge, NEW b, FirstClauseMatches(stage, e, b),
         NEW A, stage.anchor \in A, LeadsToNodes(stage.clauses[1], A), BoundToNodes(b, A)
  PROVE  LET m == Overlay(FirstBindings(stage, e, b), b)
         IN  Extends(m, b) /\ Firm(m, stage.clauses[1], e) /\ BoundToNodes(m, A)
<1> DEFINE c == stage.clauses[1]
           a == stage.anchor
           f == FirstBindings(stage, e, b)
           m == Overlay(f, b)
<1>1. /\ c.source = a /\ (c.target.kind = "bind" => c.target.var # a)
      /\ c.label = e.label /\ TargetAccepts(c.target, e.target, b)
      /\ BoundToNode(b, a) => b[a] = e.source
  BY DEF AnchoredStage, FirstClauseMatches
<1>2. a \in DOMAIN b => b[a] = e.source
  BY <1>1 DEF BoundToNodes, BoundToNode
<1>3. e.source \in Nodes
  BY BatchesAssumption DEF BatchesAssumption
<1>4. f = IF c.target.kind = "bind" /\ c.target.var \notin DOMAIN b
          THEN [x \in {a, c.target.var} |-> IF x = a THEN e.source ELSE e.target]
          ELSE [x \in {a} |-> e.source]
  BY <1>1 DEF FirstBindings, BindNew, Single, Overlay, NoBindings
<1> HIDE DEF f, c, a
<1>5. /\ DOMAIN m = DOMAIN f \cup DOMAIN b
      /\ \A x \in DOMAIN f \cup DOMAIN b : m[x] = IF x \in DOMAIN f THEN f[x] ELSE b[x]
  BY DEF Overlay
<1> HIDE DEF m
<1>6. /\ a \in DOMAIN m /\ m[a] = e.source
      /\ Extends(m, b)
      /\ c.target.kind = "bind" => c.target.var \in DOMAIN m
      /\ c.target.kind = "bind" /\ c.target.var \notin DOMAIN b => m[c.target.var] = e.target
      /\ \A x \in DOMAIN m :
           x \in DOMAIN b \/ x = a \/ (c.target.kind = "bind" /\ x = c.target.var /\ m[x] = e.target)
  <2>1. CASE c.target.kind = "bind" /\ c.target.var \notin DOMAIN b
    <3>1. /\ DOMAIN f = {a, c.target.var} /\ f[a] = e.source /\ f[c.target.var] = e.target
      BY <1>1, <1>4, <2>1
    <3> QED BY <1>1, <1>2, <1>5, <2>1, <3>1 DEF Extends
  <2>2. CASE ~(c.target.kind = "bind" /\ c.target.var \notin DOMAIN b)
    <3>1. DOMAIN f = {a} /\ f[a] = e.source
      BY <1>4, <2>2
    <3> QED BY <1>2, <1>5, <2>2, <3>1 DEF Extends
  <2> QED BY <2>1, <2>2
<1>7. c.target.kind = "in" => e.target \in c.target.vals
  BY <1>1 DEF TargetAccepts, ConstraintAccepts
<1>8. c.target.kind = "var" => c.target.var \in DOMAIN m /\ <<m[c.target.var], e.target>> \in c.target.rel
  BY <1>1, <1>6 DEF TargetAccepts, ConstraintAccepts, Resolvable, Extends
<1>9. c.target.kind = "bind" => m[c.target.var] = e.target
  <2>1. CASE c.target.var \in DOMAIN b
    BY <1>1, <1>6, <2>1 DEF TargetAccepts, Extends
  <2> QED BY <1>6, <2>1
<1>10. Firm(m, c, e)
  BY <1>1, <1>6, <1>7, <1>8, <1>9 DEF Firm
<1>11. ASSUME NEW x \in A, x \in DOMAIN m
       PROVE  m[x] \in Nodes
  <2>1. CASE x \in DOMAIN b
    BY <1>6, <2>1 DEF Extends, BoundToNodes
  <2>2. CASE x = a
    BY <1>3, <1>6, <2>2
  <2>3. CASE c.target.kind = "bind" /\ x = c.target.var /\ m[x] = e.target
    BY <1>1, <2>3 DEF LeadsToNodes, c
  <2> QED BY <1>6, <1>11, <2>1, <2>2, <2>3
<1> QED BY <1>6, <1>10, <1>11 DEF BoundToNodes, m, c, f

\* Whatever try_match_stage returns binds more than it was given, and agrees
\* with the new edge and with an edge for every other clause
LEMMA StageMatchSound ==
  ASSUME NEW g \in Seq(Edge), NEW stage, AnchoredStage(stage), NEW e \in Edge, NEW b,
         NEW T, stage.clauses \in Seq(T), NEW m \in TryMatchStage(g, stage, e, b),
         NEW A, stage.anchor \in A, BoundToNodes(b, A),
         \A k \in 1..Len(stage.clauses) : LeadsToNodes(stage.clauses[k], A)
  PROVE  /\ Extends(m, b) /\ BoundToNodes(m, A)
         /\ stage.clauses # << >> /\ Firm(m, stage.clauses[1], e)
         /\ \A k \in 2..Len(stage.clauses) : Found(g, stage.clauses[k], m, e.interval.start)
<1> DEFINE n == Len(stage.clauses)
           at == e.interval.start
           first == {Overlay(FirstBindings(stage, e, b), b)}
           Sound(c, k) == /\ Extends(c, b) /\ BoundToNodes(c, A) /\ Firm(c, stage.clauses[1], e)
                          /\ \A j \in 2..k : Found(g, stage.clauses[j], c, at)
<1>0. n \in Nat /\ (stage.clauses # << >> => n # 0)
  BY EmptySeq, LenProperties
<1>1. PICK h : /\ h = [i \in 1..n |-> After(g, stage, at, first, h, i)]
               /\ TryMatchStage(g, stage, e, b)
                    = IF FirstClauseMatches(stage, e, b) THEN h[n] ELSE {}
  BY <1>0, TryMatchSteps
<1>2. FirstClauseMatches(stage, e, b) /\ m \in h[n]
  BY <1>1
<1>3. stage.clauses # << >>
  BY <1>2 DEF FirstClauseMatches
<1>4. \A i \in 1..n : h[i] = After(g, stage, at, first, h, i)
  BY <1>1
<1> DEFINE S == {k \in Nat : k + 1 \in 1..n => \A c \in h[k + 1] : Sound(c, k + 1)}
<1>5. 0 \in S
  <2> SUFFICES ASSUME 1 \in 1..n, NEW c \in h[1]
               PROVE  Sound(c, 1)
    OBVIOUS
  <2>1. c = Overlay(FirstBindings(stage, e, b), b)
    BY <1>4 DEF After
  <2>2. LeadsToNodes(stage.clauses[1], A)
    OBVIOUS
  <2>3. Extends(c, b) /\ Firm(c, stage.clauses[1], e) /\ BoundToNodes(c, A)
    BY <1>2, <2>1, <2>2, FirstSound
  <2> QED BY <2>3
<1>6. ASSUME NEW k \in Nat, k \in S
      PROVE  k + 1 \in S
  <2> SUFFICES ASSUME k + 1 + 1 \in 1..n, NEW c \in h[k + 1 + 1]
               PROVE  Sound(c, k + 1 + 1)
    OBVIOUS
  <2>1. k + 1 \in 1..n /\ k + 1 + 1 # 1 /\ k + 1 + 1 - 1 = k + 1
    OBVIOUS
  <2>2. PICK d \in h[k + 1] : c \in LookupClause(g, stage.clauses[k + 1 + 1], d, at)
    <3> DEFINE i == k + 1 + 1
    <3>1. i \in 1..n /\ i # 1 /\ i - 1 = k + 1
      OBVIOUS
    <3> HIDE DEF i
    <3>2. h[i] = UNION {LookupClause(g, stage.clauses[i], d, at) : d \in h[i - 1]}
      BY <1>4, <3>1 DEF After
    <3>3. c \in UNION {LookupClause(g, stage.clauses[i], d, at) : d \in h[k + 1]}
      BY <3>1, <3>2 DEF i
    <3> QED BY <3>3 DEF i
  <2>3. Sound(d, k + 1)
    BY <1>6, <2>1
  <2>4. /\ Extends(c, d) /\ BoundToNodes(c, A)
        /\ Found(g, stage.clauses[k + 1 + 1], c, at)
    BY <2>2, <2>3, LookupSound
  <2>5. Extends(c, b)
    BY <2>3, <2>4 DEF Extends
  <2>6. Firm(c, stage.clauses[1], e)
    BY <2>3, <2>4, FirmGrows
  <2>7. ASSUME NEW j \in 2..(k + 1 + 1)
        PROVE  Found(g, stage.clauses[j], c, at)
    <3>1. CASE j = k + 1 + 1
      BY <2>4, <3>1
    <3>2. CASE j \in 2..(k + 1)
      BY <2>3, <2>4, <3>2, FirmGrows DEF Found
    <3> QED BY <3>1, <3>2
  <2> QED BY <2>4, <2>5, <2>6, <2>7
<1>7. Nat \subseteq S
  <2> HIDE DEF S
  <2> QED BY <1>5, <1>6, Induction
<1>8. n - 1 \in Nat /\ n - 1 + 1 = n /\ n \in 1..n
  <2>1. n # 0
    BY <1>0, <1>3
  <2> QED BY <1>0, <2>1
<1>9. Sound(m, n)
  BY <1>2, <1>7, <1>8
<1> QED BY <1>3, <1>9

-----------------------------------------------------------------------------
(* Patterns whose bindings stay put *)

\* Witness, so firmly that more bindings and more edges change nothing
FirmWitness(g, st, b, intervals, i) ==
  /\ i \in DOMAIN g /\ g[i].interval = intervals[st.anchor]
  /\ st.clauses # << >> /\ Firm(b, st.clauses[1], g[i])
  /\ \A k \in 2..Len(st.clauses) : Found(g, st.clauses[k], b, g[i].interval.start)

\* The stages of `passed` have each a witness among the edges `told` of g
Vouched(g, told, p, passed, b, intervals) ==
  /\ \A s \in passed : /\ p.stages[s].anchor \in DOMAIN intervals
                        /\ \E i \in told : FirmWitness(g, p.stages[s], b, intervals, i)
  /\ BoundToNodes(b, Anchors(p))

\* More edges, more of them told
LEMMA VouchedLater ==
  ASSUME NEW g, NEW h, DOMAIN g \subseteq DOMAIN h, \A i \in DOMAIN g : h[i] = g[i],
         NEW told, NEW more, told \subseteq more, NEW p, NEW passed, NEW b, NEW intervals,
         Vouched(g, told, p, passed, b, intervals)
  PROVE  Vouched(h, more, p, passed, b, intervals)
<1>1. ASSUME NEW c, NEW at, Found(g, c, b, at)
      PROVE  Found(h, c, b, at)
  BY <1>1 DEF Found
<1>2. ASSUME NEW st, NEW i, FirmWitness(g, st, b, intervals, i)
      PROVE  FirmWitness(h, st, b, intervals, i)
  BY <1>1, <1>2 DEF FirmWitness
<1> QED BY <1>2 DEF Vouched

\* One more stage, by the edge of index i
LEMMA VouchedMore ==
  ASSUME NEW g, NEW told, NEW p, NEW passed \in SUBSET (1..StageCount(p)), NEW b, NEW intervals,
         Vouched(g, told, p, passed, b, intervals),
         NEW s \in 1..StageCount(p), s \notin passed,
         \A t \in 1..StageCount(p) : p.stages[t].anchor = p.stages[s].anchor => t = s,
         NEW m, Extends(m, b), BoundToNodes(m, Anchors(p)),
         NEW i \in DOMAIN g, p.stages[s].clauses # << >>, Firm(m, p.stages[s].clauses[1], g[i]),
         \A k \in 2..Len(p.stages[s].clauses) :
           Found(g, p.stages[s].clauses[k], m, g[i].interval.start),
         NEW more \in SUBSET (passed \cup {s})
  PROVE  Vouched(g, told \cup {i}, p, more, m,
                 WithInterval(intervals, p.stages[s].anchor, g[i].interval))
<1> DEFINE x == p.stages[s].anchor
           after == WithInterval(intervals, x, g[i].interval)
<1>1. /\ x \in DOMAIN after /\ after[x] = g[i].interval
      /\ \A y \in DOMAIN intervals : y \in DOMAIN after /\ (y # x => after[y] = intervals[y])
  BY DEF WithInterval
<1> HIDE DEF after
<1>2. FirmWitness(g, p.stages[s], m, after, i)
  BY <1>1 DEF FirmWitness
<1>3. ASSUME NEW t \in passed
      PROVE  /\ p.stages[t].anchor \in DOMAIN after
             /\ \E j \in told : FirmWitness(g, p.stages[t], m, after, j)
  <2> DEFINE st == p.stages[t]
  <2>1. st.anchor \in DOMAIN intervals /\ st.anchor # x
    BY DEF Vouched
  <2>2. st.anchor \in DOMAIN after /\ after[st.anchor] = intervals[st.anchor]
    BY <1>1, <2>1
  <2>3. PICK j \in told : FirmWitness(g, st, b, intervals, j)
    BY DEF Vouched
  <2> HIDE DEF st
  <2>4. \A c, y : Firm(b, c, y) => Firm(m, c, y)
    BY FirmGrows
  <2>5. FirmWitness(g, st, m, after, j)
    BY <2>2, <2>3, <2>4 DEF FirmWitness, Found
  <2> QED BY <2>2, <2>5 DEF st
<1> QED BY <1>1, <1>2, <1>3 DEF Vouched, after

\* Fewer stages, and of the bindings those their clauses are about
LEMMA VouchedLess ==
  ASSUME NEW g, NEW told, NEW p, NEW passed, NEW b, NEW intervals,
         Vouched(g, told, p, passed, b, intervals),
         NEW less \in SUBSET passed, NEW cleared,
         \A s \in less : \A k \in 1..Len(p.stages[s].clauses) :
           ClauseVars(p.stages[s].clauses[k]) \cap cleared = {},
         \A s \in less : p.stages[s].clauses # << >> => 1 \in 1..Len(p.stages[s].clauses)
  PROVE  Vouched(g, told, p, less, [x \in DOMAIN b \ cleared |-> b[x]], intervals)
<1> DEFINE m == [x \in DOMAIN b \ cleared |-> b[x]]
<1>1. ASSUME NEW c, NEW y, ClauseVars(c) \cap cleared = {}, Firm(b, c, y)
      PROVE  Firm(m, c, y)
  BY <1>1 DEF Firm, ClauseVars
<1>2. DOMAIN m \subseteq DOMAIN b /\ \A x \in DOMAIN m : m[x] = b[x]
  OBVIOUS
<1> HIDE DEF m
<1>3. ASSUME NEW s \in less
      PROVE  /\ p.stages[s].anchor \in DOMAIN intervals
             /\ \E j \in told : FirmWitness(g, p.stages[s], m, intervals, j)
  <2> DEFINE st == p.stages[s]
  <2>1. PICK j \in told : FirmWitness(g, st, b, intervals, j)
    BY DEF Vouched
  <2>2. st.clauses # << >> /\ 1 \in 1..Len(st.clauses)
    BY <2>1 DEF FirmWitness
  <2>3. \A k \in 1..Len(st.clauses) : ClauseVars(st.clauses[k]) \cap cleared = {}
    OBVIOUS
  <2> HIDE DEF st
  <2>4. \A k \in 2..Len(st.clauses) : k \in 1..Len(st.clauses)
    BY <2>2
  <2>5. FirmWitness(g, st, m, intervals, j)
    BY <1>1, <2>1, <2>2, <2>3, <2>4 DEF FirmWitness, Found
  <2> QED BY <2>5 DEF Vouched, st
<1>4. BoundToNodes(m, Anchors(p))
  BY <1>2 DEF BoundToNodes, Vouched
<1> QED BY <1>3, <1>4 DEF Vouched, m

-----------------------------------------------------------------------------
(* The matches of the engine *)

\* A match all of whose stages are vouched for, by edges told of the graph g
VouchedMatch(pm, g, told) ==
  Vouched(g, told, Library[pm.pattern_idx],
          PassedBy(Library[pm.pattern_idx], pm.next_stage, pm.matched_stages),
          pm.bindings, pm.intervals)

\* What the assumption on the library says of the clauses of a stage
LEMMA ClauseFacts ==
  ASSUME NEW i \in DOMAIN Library, NEW s \in 1..StageCount(Library[i])
  PROVE  Library[i].stages[s].clauses \in Seq({Library[i].stages[s].clauses[k] :
                                                k \in DOMAIN Library[i].stages[s].clauses})
BY LibraryAssumption, Zenon DEF LibraryAssumption, BuiltPattern

\* What Extended chooses is a match of the stage, and so agrees with the edges
\* of the graph that it was made of
LEMMA ExtendedSound ==
  ASSUME AnchoredLibrary, TypeOK, NEW i \in DOMAIN Library,
         NEW s \in 1..StageCount(Library[i]), NEW e \in Edge, NEW b, Matches(i, s, e, b),
         BoundToNodes(b, Anchors(Library[i]))
  PROVE  LET st == Library[i].stages[s]
             m  == Extended(i, s, e, b)
         IN  /\ Extends(m, b) /\ BoundToNodes(m, Anchors(Library[i]))
             /\ st.clauses # << >> /\ Firm(m, st.clauses[1], e)
             /\ \A k \in 2..Len(st.clauses) : Found(graph, st.clauses[k], m, e.interval.start)
<1> DEFINE st == Library[i].stages[s]
           A == Anchors(Library[i])
           m == Extended(i, s, e, b)
           T == {st.clauses[k] : k \in DOMAIN st.clauses}
<1>1. m \in TryMatchStage(graph, st, e, b)
  BY DEF Matches, Extended
<1>2. graph \in Seq(Edge)
  BY DEF TypeOK
<1>3. st.clauses \in Seq(T)
  BY ClauseFacts
<1>4. /\ AnchoredStage(st) /\ st.anchor \in A
      /\ \A k \in 1..Len(st.clauses) : LeadsToNodes(st.clauses[k], A)
  BY DEF AnchoredLibrary, AnchoredPattern, Anchors
<1> HIDE DEF st, A, m, T
<1>5. BoundToNodes(b, A)
  BY DEF A
<1>6. /\ Extends(m, b) /\ BoundToNodes(m, A)
      /\ st.clauses # << >> /\ Firm(m, st.clauses[1], e)
      /\ \A k \in 2..Len(st.clauses) : Found(graph, st.clauses[k], m, e.interval.start)
  BY <1>1, <1>2, <1>3, <1>4, <1>5, StageMatchSound
<1> QED BY <1>6 DEF st, A, m

\* A new match has its first stage vouched for by the edge that started it
LEMMA InitiatedVouched ==
  ASSUME BlockLibrary, AnchoredLibrary, TypeOK, NEW i \in Pats, Library[i].stages # << >>,
         NEW at \in DOMAIN graph, NEW s \in Segment(Library[i], 1),
         Matches(i, s, graph[at], NoBindings)
  PROVE  VouchedMatch(Initiated(i, s, graph[at]), graph, notified \cup {at})
<1> DEFINE p == Library[i]
           e == graph[at]
           m == Initiated(i, s, e)
           x == Extended(i, s, e, NoBindings)
<1>1. i \in DOMAIN Library /\ s \in 1..StageCount(p) /\ StageCount(p) \in Nat
  BY StartedStage, StageFacts
<1>2. 1 \in 1..StageCount(p) /\ AtSegment(p, 1, {}) /\ PassedBy(p, 1, {}) = {}
  <2>1. 1 \in 1..StageCount(p)
    BY <1>1
  <2>2. SegmentStart(p, 1) \in 1..1
    BY <1>1, <2>1, StageFacts, Zenon
  <2> QED BY <1>1, <2>1, <2>2 DEF AtSegment, PassedBy
<1>3. {} \in SUBSET Nat /\ s \notin {}
  OBVIOUS
<1>4. PassedBy(p, NextStage(p, s, {}), NewMask(p, s, {})) \subseteq {} \cup {s}
  BY <1>1, <1>2, <1>3, SequenceGrows, Zenon
<1>5. e \in Edge
  BY ElementOfSeq, LenProperties DEF TypeOK
<1>6. BoundToNodes(NoBindings, Anchors(p))
  BY DEF BoundToNodes, NoBindings
<1>7. /\ Extends(x, NoBindings) /\ BoundToNodes(x, Anchors(p))
      /\ p.stages[s].clauses # << >> /\ Firm(x, p.stages[s].clauses[1], e)
      /\ \A k \in 2..Len(p.stages[s].clauses) :
           Found(graph, p.stages[s].clauses[k], x, e.interval.start)
  BY <1>1, <1>5, <1>6, ExtendedSound
<1>8. Vouched(graph, notified, p, {}, NoBindings, NoBindings)
  BY <1>6 DEF Vouched
<1>9. \A t \in 1..StageCount(p) : p.stages[t].anchor = p.stages[s].anchor => t = s
  BY <1>1 DEF BlockLibrary, BlockPattern
<1>10. /\ m.pattern_idx = i /\ m.next_stage = NextStage(p, s, {})
       /\ m.matched_stages = NewMask(p, s, {}) /\ m.bindings = x
       /\ m.intervals = [y \in {p.stages[s].anchor} |-> e.interval]
  BY DEF Initiated
<1>11. m.intervals = WithInterval(NoBindings, p.stages[s].anchor, e.interval)
  BY <1>10 DEF WithInterval, NoBindings
<1>12. {} \in SUBSET (1..StageCount(p))
  OBVIOUS
<1> DEFINE more == PassedBy(p, NextStage(p, s, {}), NewMask(p, s, {}))
<1>13. more \in SUBSET ({} \cup {s})
  BY <1>4
<1> HIDE DEF m, x, more
<1>14. Vouched(graph, notified \cup {at}, p, more, x,
               WithInterval(NoBindings, p.stages[s].anchor, e.interval))
  BY <1>1, <1>3, <1>7, <1>8, <1>9, <1>12, <1>13, VouchedMore, Zenon
<1> QED BY <1>10, <1>11, <1>14 DEF VouchedMatch, m, more

\* An advance has one more stage vouched for, by the edge that made it
LEMMA AdvancedVouched ==
  ASSUME BlockLibrary, AnchoredLibrary, TypeOK, NEW pm \in Active, Sequenced(pm),
         VouchedMatch(pm, graph, notified),
         NEW at \in DOMAIN graph, NEW s \in TryStages(pm, graph[at])
  PROVE  VouchedMatch(AdvancedMatch(pm, s, graph[at]), graph, notified \cup {at})
<1> DEFINE i == pm.pattern_idx
           p == Library[pm.pattern_idx]
           e == graph[at]
           m == AdvancedMatch(pm, s, e)
           x == Extended(i, s, e, pm.bindings)
           passed == PassedBy(p, pm.next_stage, pm.matched_stages)
           more == PassedBy(p, m.next_stage, m.matched_stages)
<1>1. /\ i \in DOMAIN Library /\ pm.next_stage \in 1..StageCount(p) /\ IsMatch(pm)
      /\ DOMAIN pm = MatchFields /\ pm.matched_stages \in SUBSET Nat
  BY ActiveUnfinished DEF IsMatch
<1>2. s \in Segment(p, pm.next_stage) /\ s \notin pm.matched_stages /\ Matches(i, s, e, pm.bindings)
  BY DEF TryStages
<1>3. AtSegment(p, pm.next_stage, pm.matched_stages)
  BY DEF Sequenced
<1>4. /\ m.pattern_idx = i /\ m.next_stage = NextStage(p, s, pm.matched_stages)
      /\ m.matched_stages = NewMask(p, s, pm.matched_stages) /\ m.bindings = x
      /\ m.intervals = WithInterval(pm.intervals, p.stages[s].anchor, e.interval)
  BY <1>1 DEF AdvancedMatch, MatchFields
<1>5. s \in 1..StageCount(p) /\ s \notin passed /\ more \subseteq passed \cup {s}
  BY <1>1, <1>2, <1>3, <1>4, SequenceGrows
<1>6. passed \in SUBSET (1..StageCount(p)) /\ more \in SUBSET (passed \cup {s})
  BY <1>5 DEF PassedBy
<1>7. e \in Edge
  BY ElementOfSeq, LenProperties DEF TypeOK
<1>8. Vouched(graph, notified, p, passed, pm.bindings, pm.intervals)
  BY DEF VouchedMatch
<1>9. BoundToNodes(pm.bindings, Anchors(p))
  BY <1>8 DEF Vouched
<1>10. /\ Extends(x, pm.bindings) /\ BoundToNodes(x, Anchors(p))
       /\ p.stages[s].clauses # << >> /\ Firm(x, p.stages[s].clauses[1], e)
       /\ \A k \in 2..Len(p.stages[s].clauses) :
            Found(graph, p.stages[s].clauses[k], x, e.interval.start)
  BY <1>1, <1>2, <1>5, <1>7, <1>9, ExtendedSound
<1>11. \A t \in 1..StageCount(p) : p.stages[t].anchor = p.stages[s].anchor => t = s
  BY <1>1, <1>5 DEF BlockLibrary, BlockPattern
<1> HIDE DEF m, x, passed, more
<1>12. Vouched(graph, notified \cup {at}, p, more, x,
               WithInterval(pm.intervals, p.stages[s].anchor, e.interval))
  BY <1>5, <1>6, <1>8, <1>10, <1>11, VouchedMore, Zenon
<1> QED BY <1>4, <1>12 DEF VouchedMatch, m, more

\* A match that loops keeps the stages before its repeat, and the bindings
\* they are about
LEMMA LoopedVouched ==
  ASSUME BlockLibrary, AnchoredLibrary, TypeOK, NEW pm \in Active, Sequenced(pm),
         VouchedMatch(pm, graph, notified),
         NEW at \in DOMAIN graph, NEW s \in TryStages(pm, graph[at]),
         NEW rr \in Library[pm.pattern_idx].repeat_range, Looping(pm, s)
  PROVE  VouchedMatch(LoopedMatch(pm, s, graph[at], rr), graph, notified \cup {at})
<1> DEFINE i == pm.pattern_idx
           p == Library[pm.pattern_idx]
           e == graph[at]
           m == AdvancedMatch(pm, s, e)
           l == LoopedMatch(pm, s, e, rr)
           all == 1..StageCount(p)
           less == PassedBy(p, rr.stage_start, {})
           told == notified \cup {at}
<1>1. i \in DOMAIN Library /\ DOMAIN pm = MatchFields /\ StageCount(p) \in Nat
  BY ActiveUnfinished, StageFacts DEF IsMatch
<1>2. m.pattern_idx = i /\ m.next_stage = NextStage(p, s, pm.matched_stages)
  BY <1>1 DEF AdvancedMatch, MatchFields
<1>3. Sequenced(m) /\ VouchedMatch(m, graph, told)
  BY AdvancedSequenced, AdvancedVouched
<1>4. PastEnd(i, m.next_stage) /\ m.next_stage \in Nat
  BY <1>1, <1>2, <1>3 DEF Looping, Sequenced, AtSegment
<1>5. Vouched(graph, told, p, all, m.bindings, m.intervals)
  BY <1>1, <1>2, <1>3, <1>4, PastEndPassedAll DEF VouchedMatch
<1>6. /\ l.pattern_idx = i /\ l.next_stage = rr.stage_start
      /\ l.matched_stages = {} /\ l.intervals = m.intervals
      /\ l.bindings = [x \in DOMAIN m.bindings \ LoopVars(p, rr) |-> m.bindings[x]]
  <2>1. DOMAIN m = MatchFields /\ m.bindings = Extended(i, s, e, pm.bindings)
    BY <1>1 DEF AdvancedMatch, MatchFields
  <2> HIDE DEF m
  <2> QED BY <1>2, <2>1, Zenon DEF LoopedMatch, MatchFields, m
<1>7. rr.stage_start \in all
  BY <1>1, StageFacts
<1>8. less \in SUBSET all /\ \A t \in less : t \in 1..(rr.stage_start - 1)
  BY <1>7 DEF PassedBy
<1>9. \A t \in less : \A k \in 1..Len(p.stages[t].clauses) :
        ClauseVars(p.stages[t].clauses[k]) \cap LoopVars(p, rr) = {}
  BY <1>1, <1>8 DEF AnchoredLibrary, AnchoredPattern
<1>10. \A t \in less : p.stages[t].clauses # << >> => 1 \in 1..Len(p.stages[t].clauses)
  <2> SUFFICES ASSUME NEW t \in less, p.stages[t].clauses # << >>
               PROVE  1 \in 1..Len(p.stages[t].clauses)
    OBVIOUS
  <2> DEFINE c == p.stages[t].clauses
             T == {c[k] : k \in DOMAIN c}
  <2>1. c \in Seq(T)
    BY <1>1, <1>8, ClauseFacts
  <2> HIDE DEF c, T
  <2>2. c # << >> => Len(c) \in Nat \ {0}
    BY <2>1, EmptySeq, LenProperties
  <2> QED BY <2>2 DEF c
<1> HIDE DEF m, l, less, all, told
<1>11. Vouched(graph, told, p, less,
               [x \in DOMAIN m.bindings \ LoopVars(p, rr) |-> m.bindings[x]], m.intervals)
  BY <1>5, <1>8, <1>9, <1>10, VouchedLess
<1> QED BY <1>6, <1>11 DEF VouchedMatch, less, l, told

AllVouched == \A pm \in pms : VouchedMatch(pm, graph, notified)

\* Whatever an attempt makes is vouched for
LEMMA MadeVouched ==
  ASSUME BlockLibrary, AnchoredLibrary, TypeOK, IdsUnique, AllSequenced, AllVouched,
         NEW at \in DOMAIN graph, NEW k \in Attempts(graph[at])
  PROVE  VouchedMatch(Made(graph[at], k), graph, notified \cup {at})
<1> DEFINE e == graph[at]
           Good(m) == VouchedMatch(m, graph, notified \cup {at})
<1>1. CASE k \in Initiations(e)
  <2>1. PICK i \in Pats : Library[i].stages # << >> /\
               \E s \in Segment(Library[i], 1) :
                 Matches(i, s, e, NoBindings) /\ k = <<0, i, s, 0>>
    BY <1>1, Zenon DEF Initiations
  <2>2. PICK s \in Segment(Library[i], 1) : Matches(i, s, e, NoBindings) /\ k = <<0, i, s, 0>>
    BY <2>1
  <2>3. Made(e, k) = Initiated(i, s, e)
    BY <2>2 DEF Made
  <2> QED BY <2>1, <2>2, <2>3, InitiatedVouched
<1>2. CASE k \in Advances(e)
  <2>1. PICK pm \in Advancing(e) : \E s \in TryStages(pm, e) : \E br \in Branches(pm, s, e) :
               k = <<1, pm.id, s, br>> /\ Parent(k) = pm
    BY <1>2, ParentOfAdvance
  <2>2. PICK s \in TryStages(pm, e) : \E br \in Branches(pm, s, e) : k = <<1, pm.id, s, br>>
    BY <2>1
  <2>3. PICK br \in Branches(pm, s, e) : k = <<1, pm.id, s, br>>
    BY <2>2
  <2>4. pm \in Active /\ Sequenced(pm) /\ VouchedMatch(pm, graph, notified)
    BY DEF Advancing, Active, AllSequenced, AllVouched
  <2>5. br \in {0, 1} /\ (br = 1 => Library[pm.pattern_idx].repeat_range # {})
    BY BranchParts
  <2>6. k[1] = 1 /\ k[3] = s /\ k[4] = br /\ Parent(k) = pm
    BY <2>1, <2>3
  <2>7. CASE br = 0
    <3>1. Made(e, k) = AdvancedMatch(pm, s, e)
      BY <2>6, <2>7 DEF Made
    <3> QED BY <2>4, <3>1, AdvancedVouched
  <2>8. CASE br = 1
    <3> DEFINE rr == CHOOSE r \in Library[pm.pattern_idx].repeat_range : TRUE
    <3>1. rr \in Library[pm.pattern_idx].repeat_range
      BY <2>5, <2>8
    <3>2. Looping(pm, s)
      BY <2>8 DEF Branches
    <3>3. Made(e, k) = LoopedMatch(Parent(k), k[3], e,
                                   CHOOSE r \in Library[Parent(k).pattern_idx].repeat_range : TRUE)
      BY <2>6, <2>8 DEF Made
    <3>4. Made(e, k) = LoopedMatch(pm, s, e, rr)
      BY <2>6, <3>3
    <3> HIDE DEF rr
    <3> QED BY <2>4, <3>1, <3>2, <3>4, LoopedVouched
  <2> QED BY <2>5, <2>7, <2>8
<1> QED BY <1>1, <1>2 DEF Attempts

\* Every operation keeps every stage vouched for
LEMMA NextVouched ==
  ASSUME BlockLibrary, AnchoredLibrary, Inv, AllSequenced, AllVouched, [Next]_vars
  PROVE  AllVouched'
<1>1. ASSUME NEW at \in DOMAIN graph, Notify(at)
      PROVE  AllVouched'
  <2> DEFINE made == MatchesMade(graph[at])
             told == notified \cup {at}
  <2>1. /\ pms' = StoreAfter(graph[at], made) /\ TypeOK /\ IdsUnique
        /\ graph' = graph /\ notified' = told
    BY <1>1 DEF Notify, OnEdgeAdded, Inv
  <2>2. ASSUME NEW n \in NewMatches(made)
        PROVE  VouchedMatch(n, graph, told)
    <3>1. PICK k \in KeptOf(made) : n = [made[k] EXCEPT !.id = IdOf(made, k)]
      BY Zenon DEF NewMatches
    <3>2. k \in Attempts(graph[at]) /\ made[k] = Made(graph[at], k)
      BY <2>1, BornFacts
    <3>3. VouchedMatch(made[k], graph, told) /\ DOMAIN made[k] = MatchFields
      BY <2>1, <3>2, MadeVouched, MadeIsMatch DEF GoodMatch, IsMatch
    <3> HIDE DEF made
    <3>4. /\ n.pattern_idx = made[k].pattern_idx /\ n.next_stage = made[k].next_stage
          /\ n.matched_stages = made[k].matched_stages /\ n.intervals = made[k].intervals
          /\ n.bindings = made[k].bindings
      BY <3>1, <3>3 DEF MatchFields
    <3> HIDE DEF told
    <3> QED BY <3>3, <3>4, Zenon DEF VouchedMatch
  <2>3. ASSUME NEW pm \in pms
        PROVE  VouchedMatch(pm, graph, told)
    <3>1. VouchedMatch(pm, graph, notified) /\ notified \subseteq told
      BY DEF AllVouched
    <3> HIDE DEF told
    <3> QED BY <3>1, VouchedLater DEF VouchedMatch
  <2>4. \A pm \in pms' : pm \in pms \/ pm \in NewMatches(made)
    BY <2>1, StoreAfterParts
  <2> HIDE DEF made
  <2>5. \A pm \in pms' : VouchedMatch(pm, graph', notified')
    BY <2>1, <2>2, <2>3, <2>4
  <2> QED BY <2>5, Zenon DEF AllVouched, VouchedMatch
<1>2. CASE pms' \subseteq pms /\ notified' = notified
           /\ (graph' = graph \/ \E es \in Batches : graph' = graph \o es)
  <2>1. DOMAIN graph \subseteq DOMAIN graph' /\ \A i \in DOMAIN graph : graph'[i] = graph[i]
    <3>1. CASE graph' = graph
      BY <3>1
    <3>2. ASSUME NEW es \in Batches, graph' = graph \o es
          PROVE  <2>1!1 /\ <2>1!2
      <4>1. graph \in Seq(Edge) /\ es \in Seq(Edge)
        BY BatchesAssumption DEF Inv, TypeOK, BatchesAssumption
      <4> HIDE DEF Edge
      <4> QED BY <3>2, <4>1, ConcatProperties, LenProperties
    <3> QED BY <1>2, <3>1, <3>2
  <2>2. ASSUME NEW pm \in pms'
        PROVE  VouchedMatch(pm, graph', notified)
    <3>1. VouchedMatch(pm, graph, notified)
      BY <1>2 DEF AllVouched
    <3> QED BY <2>1, <3>1, VouchedLater DEF VouchedMatch
  <2>3. \A pm \in pms' : VouchedMatch(pm, graph', notified')
    BY <1>2, <2>2
  <2> QED BY <2>3, Zenon DEF AllVouched, VouchedMatch
<1>3. \/ \E i \in DOMAIN graph : Notify(i)
      \/ pms' \subseteq pms /\ notified' = notified
         /\ (graph' = graph \/ \E es \in Batches : graph' = graph \o es)
  BY DEF Next, vars, dataSource, matches, Register, Insert, SetPatternEnabled, Deregister,
         KillPmsInvolving, DrainCompleted, Active, Tick, EndTick, CommitFork
<1> QED BY <1>1, <1>2, <1>3

\* What is vouched for is witnessed
LEMMA VouchedWitnessed ==
  ASSUME AllVouched, notified \subseteq DOMAIN graph
  PROVE  MatchesWitnessed
<1> SUFFICES ASSUME NEW pm \in pms, NEW s \in Passed(pm)
             PROVE  /\ Library[pm.pattern_idx].stages[s].anchor \in DOMAIN pm.intervals
                    /\ \E i \in notified : Witness(pm, s, i)
  BY DEF MatchesWitnessed
<1> DEFINE p == Library[pm.pattern_idx]
           st == p.stages[s]
<1>1. s \in PassedBy(p, pm.next_stage, pm.matched_stages)
  BY DEF Passed, PassedBy
<1>2. st.anchor \in DOMAIN pm.intervals
      /\ \E i \in notified : FirmWitness(graph, st, pm.bindings, pm.intervals, i)
  BY <1>1 DEF AllVouched, VouchedMatch, Vouched
<1>3. PICK i \in notified : FirmWitness(graph, st, pm.bindings, pm.intervals, i)
  BY <1>2
<1>4. ASSUME NEW c, NEW x, Firm(pm.bindings, c, x)
      PROVE  Agrees(pm, c, x)
  BY <1>4 DEF Firm, Agrees, ConstraintAccepts
<1> HIDE DEF st
<1>5. /\ graph[i].interval = pm.intervals[st.anchor]
      /\ Agrees(pm, st.clauses[1], graph[i])
      /\ \A k \in 2..Len(st.clauses) :
           st.clauses[k].negated \/ \E j \in DOMAIN graph :
             Agrees(pm, st.clauses[k], graph[j]) /\ Covers(graph[j].interval, graph[i].interval.start)
  BY <1>3, <1>4 DEF FirmWitness, Found
<1>6. Witness(pm, s, i)
  BY <1>5 DEF Witness, st
<1> QED BY <1>2, <1>6 DEF st

(***************************************************************************)
(* The theorem                                                             *)
(***************************************************************************)

\* In every state, each stage a match has been through has an edge the engine
\* was told of that agrees with every binding of the match, and for each of
\* its other clauses an edge that covered that moment (try_match_stage and the
\* three phases of on_edge_added): whatever matches were forked, joined,
\* looped, dropped or deduplicated, and in whatever order edges were told.
THEOREM EveryStageWitnessed ==
  ASSUME BlockLibrary, AnchoredLibrary
  PROVE  Spec => []MatchesWitnessed
<1>1. Init => AllVouched
  BY DEF Init, AllVouched
<1>2. Inv /\ AllSequenced /\ AllVouched /\ [Next]_vars => AllVouched'
  BY NextVouched
<1>3. Inv /\ AllVouched => MatchesWitnessed
  BY VouchedWitnessed DEF Inv, TypeOK
<1>4. Spec => []AllSequenced
  BY SequencedAlways
<1> QED BY <1>1, <1>2, <1>3, <1>4, Invariance, PTL DEF Spec
=============================================================================
