--------------------------- MODULE NarrativeProofs ---------------------------
(***************************************************************************)
(* What the proofs about the narrative trackers and the scorers share.     *)
(*                                                                         *)
(* First, sums over finite sets, which scores are made of: they do not     *)
(* depend on the order of adding.  Then the thread tracker's operators,    *)
(* for every registration of threads and every order of openings and       *)
(* closings: what a report adds to the two orders (observe_delta), and     *)
(* that check_filo, a loop that changes the list it looks at, reports what *)
(* FiloPairs says.                                                         *)
(***************************************************************************)
EXTENDS ThreadTracker, NarrativeScorer, FiniteSetTheorems, SequenceTheorems,
        WellFoundedInduction, TLAPS

\* Some places have a first
LEMMA FirstOfPlaces ==
  ASSUME NEW S \in SUBSET Nat, S # {}
  PROVE  \E x \in S : \A y \in S : x <= y
<1>1. PICK x \in S : \A y \in S : <<y, x>> \notin OpToRel(<, Nat)
  BY NatLessThanWellFounded, WFMin, Zenon
<1>2. \A y \in S : ~(y < x)
  BY <1>1 DEF OpToRel
<1> QED BY <1>2

\* Round by round, a loop of n rounds gets to its end
LEMMA PrefixInduction ==
  ASSUME NEW n \in Nat, NEW S, 0 \in S,
         \A k \in Nat : k < n /\ k \in S => k + 1 \in S
  PROVE  0..n \subseteq S
<1> SUFFICES ASSUME (0..n) \ S # {}
             PROVE  FALSE
  OBVIOUS
<1> DEFINE Left == (0..n) \ S
<1>1. PICK m \in Left : \A k \in Left : m <= k
  <2>1. Left \in SUBSET Nat /\ Left # {}
    OBVIOUS
  <2> HIDE DEF Left
  <2> QED BY <2>1, FirstOfPlaces
<1>2. m # 0
  OBVIOUS
<1>3. m - 1 \in Nat /\ m - 1 < n /\ m - 1 \notin (0..n) \ S
  BY <1>1, <1>2
<1> QED BY <1>1, <1>3

-----------------------------------------------------------------------------
(* Sums over finite sets                                                   *)

\* The next of s to be added, and the sums h of the sets of D
Pick(s) == CHOOSE x \in s : TRUE
Sums(h, D, w) == h = [s \in D |-> IF s = {} THEN 0 ELSE w[Pick(s)] + h[s \ {Pick(s)}]]

\* Without one of its members a finite set has one member less
LEMMA OneLess ==
  ASSUME NEW S, IsFiniteSet(S), NEW x \in S
  PROVE  /\ IsFiniteSet(S \ {x}) /\ Cardinality(S \ {x}) \in Nat
         /\ Cardinality(S) = Cardinality(S \ {x}) + 1
<1>1. IsFiniteSet(S \ {x}) /\ Cardinality(S \ {x}) = Cardinality(S) - 1
  BY FS_RemoveElement
<1>2. Cardinality(S) \in Nat /\ Cardinality(S \ {x}) \in Nat
  BY <1>1, FS_CardinalityType
<1> QED BY <1>1, <1>2

\* Adding up one by one comes to an end
LEMMA SumsExist ==
  ASSUME NEW S, IsFiniteSet(S), NEW w
  PROVE  \E h : Sums(h, SUBSET S, w)
<1> DEFINE Small(n) == {s \in SUBSET S : Cardinality(s) <= n}
           Good == {n \in Nat : \E h : Sums(h, Small(n), w)}
<1>1. \A s \in SUBSET S : IsFiniteSet(s) /\ Cardinality(s) \in Nat
  BY FS_Subset, FS_CardinalityType
<1>2. 0 \in Good
  <2> DEFINE h == [s \in Small(0) |-> 0]
  <2>1. \A s \in Small(0) : s = {}
    BY <1>1, FS_EmptySet
  <2>2. Sums(h, Small(0), w)
    BY <2>1 DEF Sums
  <2> QED BY <2>2
<1>3. ASSUME NEW n \in Nat, n \in Good
      PROVE  n + 1 \in Good
  <2>1. PICK h : Sums(h, Small(n), w)
    BY <1>3
  <2> DEFINE g == [s \in Small(n + 1) |-> IF s = {} THEN 0 ELSE w[Pick(s)] + h[s \ {Pick(s)}]]
  <2>2. \A s \in Small(n) : s \in Small(n + 1) /\ g[s] = h[s]
    <3>1. \A s \in Small(n) : s \in Small(n + 1)
      BY <1>1
    <3> HIDE DEF Small
    <3>2. \A s \in Small(n) : h[s] = IF s = {} THEN 0 ELSE w[Pick(s)] + h[s \ {Pick(s)}]
      BY <2>1, Zenon DEF Sums
    <3> QED BY <3>1, <3>2
  <2>3. \A s \in Small(n + 1) : s # {} => s \ {Pick(s)} \in Small(n)
    <3>1. ASSUME NEW s \in Small(n + 1), s # {}
          PROVE  s \ {Pick(s)} \in Small(n)
      <4>1. Pick(s) \in s
        BY <3>1 DEF Pick
      <4> QED BY <1>1, <4>1, OneLess
    <3> QED BY <3>1
  <2>4. \A s \in Small(n + 1) : s # {} => g[s \ {Pick(s)}] = h[s \ {Pick(s)}]
    BY <2>2, <2>3
  <2> HIDE DEF Small
  <2>5. Sums(g, Small(n + 1), w)
    BY <2>4 DEF Sums
  <2> QED BY <2>5
<1> HIDE DEF Good
<1>4. \A m \in Nat : m \in Good
  <2>1. ASSUME NEW m \in Nat
        PROVE  m \in Good
    <3>1. 0..m \subseteq Good
      BY <1>2, <1>3, PrefixInduction
    <3> QED BY <3>1
  <2> QED BY <2>1
<1>5. Small(Cardinality(S)) = SUBSET S
  BY FS_Subset
<1> QED BY <1>1, <1>4, <1>5 DEF Good

\* Total is what adding up one by one gives
LEMMA TotalSums ==
  ASSUME NEW S, IsFiniteSet(S), NEW w
  PROVE  \E h : Sums(h, SUBSET S, w) /\ Total(S, w) = h[S]
<1> DEFINE g == CHOOSE h : Sums(h, SUBSET S, w)
<1>1. \E h : Sums(h, SUBSET S, w)
  BY SumsExist
<1>2. Sums(g, SUBSET S, w)
  BY <1>1
<1>3. Total(S, w) = g[S]
  BY DEF Total, MapThenSumSet, MapThenFoldSet, Sums, Pick
<1> HIDE DEF g
<1> QED BY <1>2, <1>3

\* What holds of a finite set when it holds of the set without any one of its
\* members, holds of every finite set
LEMMA OneByOne ==
  ASSUME NEW S, IsFiniteSet(S), NEW P,
         \A s \in SUBSET S : (\A x \in s : s \ {x} \in P) => s \in P
  PROVE  SUBSET S \subseteq P
<1> DEFINE Small(n) == {s \in SUBSET S : Cardinality(s) <= n}
           Good == {n \in Nat : Small(n) \subseteq P}
<1>1. \A s \in SUBSET S : IsFiniteSet(s) /\ Cardinality(s) \in Nat
  BY FS_Subset, FS_CardinalityType
<1>2. 0 \in Good
  <2>1. ASSUME NEW s \in Small(0)
        PROVE  s \in P
    <3>1. s = {}
      BY <1>1, FS_EmptySet
    <3> QED BY <3>1
  <2> QED BY <2>1
<1>3. ASSUME NEW n \in Nat, n \in Good
      PROVE  n + 1 \in Good
  <2>1. ASSUME NEW s \in Small(n + 1)
        PROVE  s \in P
    <3>1. ASSUME NEW x \in s
          PROVE  s \ {x} \in Small(n)
      BY <1>1, <3>1, OneLess
    <3> QED BY <1>3, <3>1
  <2> QED BY <2>1
<1> HIDE DEF Good
<1>4. 0..Cardinality(S) \subseteq Good
  BY <1>1, <1>2, <1>3, PrefixInduction
<1>5. Cardinality(S) \in Good
  BY <1>1, <1>4
<1>6. \A s \in SUBSET S : s \in Small(Cardinality(S))
  BY FS_Subset
<1> QED BY <1>5, <1>6 DEF Good

\* The next to be added belongs to what is to be added
LEMMA PickMember ==
  ASSUME NEW s, s # {}
  PROVE  Pick(s) \in s
BY DEF Pick

\* Two ways of adding up the same numbers
LEMMA SumsMeet ==
  ASSUME NEW S, NEW T, NEW w, NEW v, NEW h, NEW g, IsFiniteSet(S), T \subseteq S,
         \A x \in T : v[x] = w[x], Sums(h, SUBSET S, w), Sums(g, SUBSET T, v)
  PROVE  h[T] = g[T]
<1> DEFINE P == {s \in SUBSET T : h[s] = g[s]}
<1>1. ASSUME NEW s \in SUBSET T, \A x \in s : s \ {x} \in P
      PROVE  s \in P
  <2>1. h[s] = IF s = {} THEN 0 ELSE w[Pick(s)] + h[s \ {Pick(s)}]
    BY Zenon DEF Sums
  <2>2. g[s] = IF s = {} THEN 0 ELSE v[Pick(s)] + g[s \ {Pick(s)}]
    BY Zenon DEF Sums
  <2>3. CASE s # {}
    <3>1. Pick(s) \in s
      BY <2>3, PickMember
    <3>2. h[s \ {Pick(s)}] = g[s \ {Pick(s)}] /\ v[Pick(s)] = w[Pick(s)]
      BY <1>1, <3>1
    <3> QED BY <2>1, <2>2, <2>3, <3>2
  <2> QED BY <2>1, <2>2, <2>3
<1>2. IsFiniteSet(T)
  BY FS_Subset
<1> HIDE DEF P
<1>3. SUBSET T \subseteq P
  BY <1>1, <1>2, OneByOne
<1> QED BY <1>3 DEF P

\* Sums of integers are integers
LEMMA SumsAreNumbers ==
  ASSUME NEW S, IsFiniteSet(S), NEW w, \A x \in S : w[x] \in Int,
         NEW h, Sums(h, SUBSET S, w)
  PROVE  \A s \in SUBSET S : h[s] \in Int
<1> DEFINE P == {s \in SUBSET S : h[s] \in Int}
<1>1. ASSUME NEW s \in SUBSET S, \A x \in s : s \ {x} \in P
      PROVE  s \in P
  <2>1. h[s] = IF s = {} THEN 0 ELSE w[Pick(s)] + h[s \ {Pick(s)}]
    BY Zenon DEF Sums
  <2>2. CASE s # {}
    <3>1. Pick(s) \in s
      BY <2>2, PickMember
    <3>2. h[s \ {Pick(s)}] \in Int /\ w[Pick(s)] \in Int
      BY <1>1, <3>1
    <3> QED BY <2>1, <2>2, <3>2
  <2> QED BY <2>1, <2>2
<1> HIDE DEF P
<1>2. SUBSET S \subseteq P
  BY <1>1, OneByOne
<1> QED BY <1>2 DEF P

\* Any of the numbers may be taken to be added last
LEMMA SumsAnyOrder ==
  ASSUME NEW S, IsFiniteSet(S), NEW w, \A x \in S : w[x] \in Int,
         NEW h, Sums(h, SUBSET S, w)
  PROVE  \A s \in SUBSET S : h[s] \in Int /\ \A x \in s : h[s] = w[x] + h[s \ {x}]
<1> DEFINE P == {s \in SUBSET S : h[s] \in Int /\ \A x \in s : h[s] = w[x] + h[s \ {x}]}
<1>1. ASSUME NEW s \in SUBSET S, \A x \in s : s \ {x} \in P
      PROVE  s \in P
  <2>1. h[s] = IF s = {} THEN 0 ELSE w[Pick(s)] + h[s \ {Pick(s)}]
    BY Zenon DEF Sums
  <2>2. CASE s = {}
    BY <2>1, <2>2
  <2>3. CASE s # {}
    <3>1. PICK c \in s : h[s] = w[c] + h[s \ {c}]
      BY <2>1, <2>3, PickMember
    <3>2. \A x \in s : h[s \ {x}] \in Int /\ w[x] \in Int
      BY <1>1
    <3>3. ASSUME NEW x \in s, x # c
          PROVE  h[s] = w[x] + h[s \ {x}]
      <4>1. h[s \ {c}] = w[x] + h[(s \ {c}) \ {x}] /\ h[s \ {x}] = w[c] + h[(s \ {x}) \ {c}]
        BY <1>1, <3>3
      <4>2. (s \ {c}) \ {x} = (s \ {x}) \ {c}
        OBVIOUS
      <4>3. h[(s \ {c}) \ {x}] \in Int
        <5>1. (s \ {c}) \ {x} \in SUBSET S
          OBVIOUS
        <5> QED BY <5>1, SumsAreNumbers
      <4>4. h[(s \ {x}) \ {c}] = h[(s \ {c}) \ {x}]
        BY <4>2
      <4> DEFINE rest == h[(s \ {c}) \ {x}]
      <4>5. /\ h[s] = w[c] + (w[x] + rest) /\ h[s \ {x}] = w[c] + rest
            /\ rest \in Int /\ w[c] \in Int /\ w[x] \in Int
        BY <3>1, <3>2, <4>1, <4>3, <4>4
      <4> HIDE DEF rest
      <4> QED BY <4>5
    <3>4. h[s] \in Int
      BY SumsAreNumbers, Zenon
    <3>5. \A x \in s : h[s] = w[x] + h[s \ {x}]
      BY <3>1, <3>3
    <3> QED BY <3>4, <3>5
  <2> QED BY <2>2, <2>3
<1> HIDE DEF P
<1>2. SUBSET S \subseteq P
  BY <1>1, OneByOne
<1> QED BY <1>2 DEF P

\* The total of a part is what the sums of the whole say of it
LEMMA TotalPart ==
  ASSUME NEW S, IsFiniteSet(S), NEW w, NEW h, Sums(h, SUBSET S, w)
  PROVE  \A x : Total(S \ {x}, w) = h[S \ {x}]
<1> TAKE x
<1>1. PICK T : T = S \ {x}
  OBVIOUS
<1>2. T \subseteq S
  BY <1>1
<1>3. IsFiniteSet(T)
  BY <1>2, FS_Subset
<1>4. PICK g : Sums(g, SUBSET T, w) /\ Total(T, w) = g[T]
  BY <1>3, TotalSums
<1>5. h[T] = g[T]
  BY <1>2, <1>4, SumsMeet
<1> QED BY <1>1, <1>4, <1>5

\* A sum of integers, and what one of them adds to it
LEMMA TotalFacts ==
  ASSUME NEW S, IsFiniteSet(S), NEW w, \A x \in S : w[x] \in Int
  PROVE  /\ Total(S, w) \in Int
         /\ S = {} => Total(S, w) = 0
         /\ \A x \in S : Total(S, w) = w[x] + Total(S \ {x}, w)
<1>1. PICK h : Sums(h, SUBSET S, w) /\ Total(S, w) = h[S]
  BY TotalSums
<1>2. h[S] \in Int /\ \A x \in S : h[S] = w[x] + h[S \ {x}]
  BY <1>1, SumsAnyOrder
<1>3. \A x : Total(S \ {x}, w) = h[S \ {x}]
  <2>1. Sums(h, SUBSET S, w)
    BY <1>1
  <2> QED BY ONLY IsFiniteSet(S), <2>1, TotalPart
<1>4. h[S] = IF S = {} THEN 0 ELSE w[Pick(S)] + h[S \ {Pick(S)}]
  BY <1>1, Zenon DEF Sums
<1> QED BY <1>1, <1>2, <1>3, <1>4

\* The same numbers have the same sum
LEMMA TotalSame ==
  ASSUME NEW S, IsFiniteSet(S), NEW w, NEW v, \A x \in S : v[x] = w[x]
  PROVE  Total(S, v) = Total(S, w)
<1>1. PICK h : Sums(h, SUBSET S, w) /\ Total(S, w) = h[S]
  BY TotalSums
<1>2. PICK g : Sums(g, SUBSET S, v) /\ Total(S, v) = g[S]
  BY TotalSums
<1>3. S \subseteq S
  OBVIOUS
<1>4. h[S] = g[S]
  BY <1>1, <1>2, <1>3, SumsMeet
<1> QED BY <1>1, <1>2, <1>4

\* Ones add up to a count
LEMMA TotalOfOnes ==
  ASSUME NEW S, IsFiniteSet(S), NEW w, \A x \in S : w[x] = One
  PROVE  Total(S, w) = One * Cardinality(S)
<1> DEFINE P == {s \in SUBSET S : Total(s, w) = One * Cardinality(s)}
<1>1. ASSUME NEW s \in SUBSET S, \A x \in s : s \ {x} \in P
      PROVE  s \in P
  <2>1. IsFiniteSet(s)
    BY FS_Subset
  <2>2. /\ s = {} => Total(s, w) = 0
        /\ \A x \in s : Total(s, w) = w[x] + Total(s \ {x}, w)
    <3>1. \A x \in s : w[x] \in Int
      BY DEF One
    <3> QED BY <2>1, <3>1, TotalFacts
  <2>3. CASE s = {}
    BY <2>2, <2>3, FS_EmptySet DEF One
  <2>4. CASE s # {}
    <3>1. PICK x \in s : TRUE
      BY <2>4
    <3>2. Cardinality(s) = Cardinality(s \ {x}) + 1 /\ Cardinality(s \ {x}) \in Nat
      BY <2>1, <3>1, OneLess
    <3>3. Total(s \ {x}, w) = One * Cardinality(s \ {x})
      BY <1>1, <3>1
    <3>4. Total(s, w) = One + Total(s \ {x}, w)
      BY <2>2, <3>1
    <3> QED BY <3>2, <3>3, <3>4 DEF One
  <2> QED BY <2>3, <2>4
<1> HIDE DEF P
<1>2. SUBSET S \subseteq P
  BY <1>1, OneByOne
<1> QED BY <1>2 DEF P

\* One more for each adds their number
LEMMA TotalOneMore ==
  ASSUME NEW S, IsFiniteSet(S), NEW w, NEW v, \A x \in S : w[x] \in Int /\ v[x] = w[x] + 1
  PROVE  Total(S, v) = Total(S, w) + Cardinality(S)
<1> DEFINE P == {s \in SUBSET S : Total(s, v) = Total(s, w) + Cardinality(s)}
<1>1. ASSUME NEW s \in SUBSET S, \A x \in s : s \ {x} \in P
      PROVE  s \in P
  <2>1. IsFiniteSet(s)
    BY FS_Subset
  <2>2. /\ s = {} => Total(s, w) = 0
        /\ \A x \in s : Total(s, w) = w[x] + Total(s \ {x}, w)
    BY <2>1, TotalFacts
  <2>3. /\ s = {} => Total(s, v) = 0
        /\ \A x \in s : Total(s, v) = v[x] + Total(s \ {x}, v)
    <3>1. \A x \in s : v[x] \in Int
      OBVIOUS
    <3> QED BY <2>1, <3>1, TotalFacts
  <2>4. CASE s = {}
    BY <2>2, <2>3, <2>4, FS_EmptySet
  <2>5. CASE s # {}
    <3>1. PICK x \in s : TRUE
      BY <2>5
    <3>2. Cardinality(s) = Cardinality(s \ {x}) + 1 /\ Cardinality(s \ {x}) \in Nat
      BY <2>1, <3>1, OneLess
    <3>3. Total(s \ {x}, v) = Total(s \ {x}, w) + Cardinality(s \ {x})
      BY <1>1, <3>1
    <3>4. IsFiniteSet(s \ {x}) /\ \A y \in s \ {x} : w[y] \in Int
      BY <2>1, FS_Subset
    <3>5. Total(s \ {x}, w) \in Int
      BY <3>4, TotalFacts
    <3> QED BY <2>2, <2>3, <3>1, <3>2, <3>3, <3>5
  <2> QED BY <2>4, <2>5
<1> HIDE DEF P
<1>2. SUBSET S \subseteq P
  BY <1>1, OneByOne
<1> QED BY <1>2 DEF P

\* A sum in which one number grows, or one is added
LEMMA TotalGrows ==
  ASSUME NEW R, IsFiniteSet(R), NEW x, NEW w, NEW v, \A y \in R : w[y] \in Nat, NEW d \in Nat,
         \A y \in R \ {x} : v[y] = w[y], v[x] = (IF x \in R THEN w[x] ELSE 0) + d
  PROVE  Total(R \cup {x}, v) = Total(R, w) + d
<1> DEFINE rest == R \ {x}
           E == R \cup {x}
<1>1. IsFiniteSet(rest) /\ IsFiniteSet(E) /\ rest \subseteq R /\ x \in E /\ E \ {x} = rest
  BY FS_AddElement, FS_Subset
<1>2. v[x] \in Nat /\ \A y \in E : v[y] \in Int
  OBVIOUS
<1>3. Total(E, v) = v[x] + Total(rest, v)
  <2> HIDE DEF E, rest
  <2>1. \A y \in E : Total(E, v) = v[y] + Total(E \ {y}, v)
    BY <1>1, <1>2, TotalFacts
  <2> QED BY <1>1, <2>1
<1>4. \A y \in rest : v[y] = w[y] /\ w[y] \in Int
  OBVIOUS
<1> HIDE DEF E, rest
<1>5. Total(rest, v) = Total(rest, w) /\ Total(rest, w) \in Int
  BY <1>1, <1>4, TotalSame, TotalFacts
<1>6. Total(R, w) = (IF x \in R THEN w[x] ELSE 0) + Total(rest, w)
  <2>1. CASE x \in R
    <3>1. \A y \in R : w[y] \in Int
      OBVIOUS
    <3>2. \A y \in R : Total(R, w) = w[y] + Total(R \ {y}, w)
      BY <3>1, TotalFacts
    <3> QED BY <2>1, <3>2 DEF rest
  <2>2. CASE x \notin R
    <3>1. rest = R
      BY <2>2 DEF rest
    <3> QED BY <1>5, <2>2, <3>1
  <2> QED BY <2>1, <2>2
<1>7. (IF x \in R THEN w[x] ELSE 0) \in Nat
  OBVIOUS
<1>8. Total(E, v) = Total(R, w) + d
  BY <1>3, <1>5, <1>6, <1>7
<1> QED BY <1>8 DEF E

-----------------------------------------------------------------------------
(* How often something is written down *)

\* A count of places, and whether there are any
LEMMA TimesFinite ==
  ASSUME NEW T, NEW s \in Seq(T), NEW n
  PROVE  /\ IsFiniteSet({i \in DOMAIN s : s[i] = n})
         /\ Times(s, n) \in Nat
         /\ Times(s, n) > 0 <=> n \in Recorded(s)
<1> DEFINE P == {i \in DOMAIN s : s[i] = n}
<1>1. DOMAIN s = 1..Len(s) /\ Len(s) \in Nat
  OBVIOUS
<1>2. IsFiniteSet(P)
  <2>1. P \subseteq 1..Len(s) /\ IsFiniteSet(1..Len(s))
    BY <1>1, FS_Interval
  <2> HIDE DEF P
  <2> QED BY <2>1, FS_Subset
<1>3. n \in Recorded(s) <=> P # {}
  BY DEF Recorded
<1> HIDE DEF P
<1>4. Cardinality(P) \in Nat /\ (Cardinality(P) = 0 <=> P = {})
  BY <1>2, FS_CardinalityType, FS_EmptySet
<1>5. Times(s, n) = Cardinality(P)
  BY DEF Times, P
<1>6. IsFiniteSet({i \in DOMAIN s : s[i] = n})
  BY <1>2 DEF P
<1> QED BY <1>3, <1>4, <1>5, <1>6

\* Appending counts the appended once more
LEMMA TimesAppended ==
  ASSUME NEW T, NEW s \in Seq(T), NEW m \in T, NEW n
  PROVE  Times(Append(s, m), n) = Times(s, n) + (IF m = n THEN 1 ELSE 0)
<1> DEFINE P == {i \in DOMAIN s : s[i] = n}
           Q == {i \in DOMAIN Append(s, m) : Append(s, m)[i] = n}
           k == Len(s) + 1
<1>1. DOMAIN s = 1..Len(s) /\ Len(s) \in Nat /\ DOMAIN Append(s, m) = 1..(Len(s) + 1)
  OBVIOUS
<1>2. \A i \in DOMAIN s : Append(s, m)[i] = s[i]
  OBVIOUS
<1>3. Append(s, m)[Len(s) + 1] = m
  OBVIOUS
<1>4. Q = IF m = n THEN P \cup {k} ELSE P
  BY <1>1, <1>2, <1>3
<1>5. IsFiniteSet(P)
  BY TimesFinite, Zenon
<1>7. k \notin P
  BY <1>1
<1> HIDE DEF P, Q, k
<1>8. Cardinality(P) \in Nat /\ Cardinality(P \cup {k}) = Cardinality(P) + 1
  BY <1>5, <1>7, FS_AddElement, FS_CardinalityType
<1>6. Cardinality(Q) = Cardinality(P) + (IF m = n THEN 1 ELSE 0)
  BY <1>4, <1>8
<1> QED BY <1>6 DEF Times, P, Q

\* What is recorded in a longer list
LEMMA RecordedAppended ==
  ASSUME NEW T, NEW s \in Seq(T), NEW m \in T
  PROVE  Recorded(Append(s, m)) = Recorded(s) \cup {m}
<1>1. DOMAIN s = 1..Len(s) /\ Len(s) \in Nat /\ DOMAIN Append(s, m) = 1..(Len(s) + 1)
  OBVIOUS
<1>2. \A i \in DOMAIN s : Append(s, m)[i] = s[i]
  OBVIOUS
<1>3. Append(s, m)[Len(s) + 1] = m
  OBVIOUS
<1> QED BY <1>1, <1>2, <1>3 DEF Recorded

-----------------------------------------------------------------------------
(* What a report adds to the orders *)

OrdersTyped == open_order \in Seq(ThreadNames) /\ close_order \in Seq(ThreadNames)

\* Each thread was opened for the first time once
OpenedOnce == \A i, j \in DOMAIN open_order : open_order[i] = open_order[j] => i = j

Unchanged == [open |-> open_order, close |-> close_order]

\* The recursion of AfterReport, its rounds by name
LEMMA ReportSteps ==
  ASSUME NEW d
  PROVE  \E h : /\ h = [k \in 0..Len(Threads) |->
                         IF k = 0 THEN Unchanged ELSE Noted(h[k - 1], Threads[k], d)]
                /\ AfterReport(d) = h[Len(Threads)]
<1> DEFINE n == Len(Threads)
           F(h, k) == IF k = 0 THEN Unchanged ELSE Noted(h[k - 1], Threads[k], d)
           S == {j \in Nat : \E h : h = [k \in 0..j |-> F(h, k)]}
           upTo == CHOOSE h : h = [k \in 0..n |-> F(h, k)]
<1> HIDE DEF upTo
<1>1. 0 \in S
  <2> DEFINE h == [k \in 0..0 |-> Unchanged]
  <2>1. h = [k \in 0..0 |-> F(h, k)]
    OBVIOUS
  <2> HIDE DEF h, F
  <2> QED BY <2>1
<1>2. ASSUME NEW j \in Nat, j < n, j \in S
      PROVE  j + 1 \in S
  <2>1. PICK h : h = [k \in 0..j |-> F(h, k)]
    BY <1>2
  <2> DEFINE h2 == [k \in 0..(j + 1) |-> IF k \in 0..j THEN h[k] ELSE F(h, j + 1)]
  <2>2. ASSUME NEW k \in 0..(j + 1)
        PROVE  h2[k] = F(h2, k)
    <3>1. k # 0 => h2[k - 1] = h[k - 1]
      OBVIOUS
    <3>2. h2[k] = F(h, k)
      <4> HIDE DEF F, S, n
      <4>1. k \in 0..j \/ k = j + 1
        OBVIOUS
      <4> QED BY <2>1, <4>1
    <3> HIDE DEF h2
    <3>3. F(h, k) = F(h2, k)
      BY <3>1
    <3> QED BY <3>2, <3>3
  <2>3. h2 = [k \in 0..(j + 1) |-> F(h2, k)]
    <3> HIDE DEF F
    <3>1. h2 = [k \in 0..(j + 1) |-> h2[k]]
      OBVIOUS
    <3> HIDE DEF h2
    <3> QED BY <2>2, <3>1
  <2> HIDE DEF h2, F
  <2>4. j + 1 \in Nat
    OBVIOUS
  <2> QED BY <2>3, <2>4
<1>3. n \in S
  <2>1. n \in Nat /\ n \in 0..n
    BY ThreadsAssumption DEF ThreadsAssumption
  <2> HIDE DEF S, n
  <2>2. 0..n \subseteq S
    BY <1>1, <1>2, <2>1, PrefixInduction
  <2> QED BY <2>1, <2>2
<1>4. upTo = [k \in 0..n |-> F(upTo, k)]
  <2> HIDE DEF F, n
  <2>1. \E h : h = [k \in 0..n |-> F(h, k)]
    BY <1>3
  <2> QED BY <2>1, Zenon DEF upTo
<1>5. AfterReport(d) = upTo[n]
  BY Zenon DEF AfterReport, Unchanged, upTo
<1> QED BY <1>4, <1>5

\* One more opening: nothing twice
LEMMA OpenedFacts ==
  ASSUME NEW s \in Seq(ThreadNames), NEW m \in ThreadNames
  PROVE  /\ Opened(s, m) \in Seq(ThreadNames)
         /\ Recorded(Opened(s, m)) = Recorded(s) \cup {m}
         /\ (\A i, j \in DOMAIN s : s[i] = s[j] => i = j)
              => \A i, j \in DOMAIN Opened(s, m) : Opened(s, m)[i] = Opened(s, m)[j] => i = j
<1>1. CASE Times(s, m) > 0
  BY <1>1, TimesFinite, Zenon DEF Opened
<1>2. CASE ~(Times(s, m) > 0)
  <2>1. m \notin Recorded(s) /\ Opened(s, m) = Append(s, m)
    BY <1>2, TimesFinite, Zenon DEF Opened
  <2>2. Recorded(Append(s, m)) = Recorded(s) \cup {m}
    BY RecordedAppended
  <2>3. DOMAIN s = 1..Len(s) /\ Len(s) \in Nat /\ DOMAIN Append(s, m) = 1..(Len(s) + 1)
    OBVIOUS
  <2>4. /\ \A i \in DOMAIN s : Append(s, m)[i] = s[i] /\ s[i] # m
        /\ Append(s, m)[Len(s) + 1] = m
    BY <2>1 DEF Recorded
  <2>5. Append(s, m) \in Seq(ThreadNames)
    OBVIOUS
  <2> QED BY <2>1, <2>2, <2>3, <2>4, <2>5
<1> QED BY <1>1, <1>2

\* A report adds to the openings the threads whose opening advanced, none a
\* second time, and one closing of each thread whose closing completed.
LEMMA ReportFacts ==
  ASSUME NEW d, OrdersTyped
  PROVE  LET r == AfterReport(d)
         IN  /\ r.open \in Seq(ThreadNames) /\ r.close \in Seq(ThreadNames)
             /\ OpenedOnce => \A i, j \in DOMAIN r.open : r.open[i] = r.open[j] => i = j
             /\ Recorded(r.open) = Recorded(open_order)
                  \cup {Threads[i].name : i \in {k \in DOMAIN Threads : Threads[k].open \in d.advanced}}
             /\ \A i \in DOMAIN Threads :
                  Times(r.close, Threads[i].name) = Times(close_order, Threads[i].name)
                    + (IF Threads[i].close \in d.completed THEN 1 ELSE 0)
<1> DEFINE n == Len(Threads)
<1>1. PICK h : /\ h = [k \in 0..n |-> IF k = 0 THEN Unchanged ELSE Noted(h[k - 1], Threads[k], d)]
               /\ AfterReport(d) = h[n]
  BY ReportSteps
<1>0. n \in Nat /\ DOMAIN Threads = 1..n
  BY ThreadsAssumption DEF ThreadsAssumption
<1> HIDE DEF n
<1> DEFINE Begun(k) == {Threads[i].name : i \in {j \in DOMAIN Threads : j <= k /\ Threads[j].open \in d.advanced}}
           Ended(i, k) == IF i <= k /\ Threads[i].close \in d.completed THEN 1 ELSE 0
           OpenOK(k) == /\ h[k].open \in Seq(ThreadNames)
                        /\ OpenedOnce => \A i, j \in DOMAIN h[k].open : h[k].open[i] = h[k].open[j] => i = j
                        /\ Recorded(h[k].open) = Recorded(open_order) \cup Begun(k)
           CloseOK(k) == /\ h[k].close \in Seq(ThreadNames)
                         /\ \A i \in DOMAIN Threads :
                              Times(h[k].close, Threads[i].name)
                                = Times(close_order, Threads[i].name) + Ended(i, k)
           S == {k \in Nat : OpenOK(k) /\ CloseOK(k)}
<1>2. h[0] = Unchanged
  BY <1>0, <1>1
<1>3. \A k \in Nat : k < n => h[k + 1] = Noted(h[k], Threads[k + 1], d) /\ k + 1 \in DOMAIN Threads
  BY <1>0, <1>1
<1>4. 0 \in S
  <2>1. Begun(0) = {} /\ \A i \in DOMAIN Threads : Ended(i, 0) = 0
    BY <1>0
  <2>2. \A i \in DOMAIN Threads : Times(close_order, Threads[i].name) \in Nat
    BY TimesFinite DEF OrdersTyped
  <2> HIDE DEF Begun, Ended
  <2> QED BY <1>2, <2>1, <2>2 DEF Unchanged, OrdersTyped, OpenedOnce
<1>5. ASSUME NEW k \in Nat, k < n, k \in S
      PROVE  k + 1 \in S
  <2> DEFINE t == Threads[k + 1]
             x == h[k]
  <2>1. /\ h[k + 1].open  = IF t.open \in d.advanced THEN Opened(x.open, t.name) ELSE x.open
        /\ h[k + 1].close = IF t.close \in d.completed THEN Append(x.close, t.name) ELSE x.close
    <3> HIDE DEF S
    <3>1. h[k + 1] = Noted(x, t, d)
      BY <1>3, <1>5
    <3> HIDE DEF t, x
    <3> QED BY <3>1 DEF Noted
  <2>2. k + 1 \in DOMAIN Threads /\ t.name \in ThreadNames
    BY <1>3, <1>5 DEF ThreadNames
  <2>3. OpenOK(k) /\ CloseOK(k)
    BY <1>5
  <2>4. OpenOK(k + 1)
    <3>1. Begun(k + 1) = Begun(k) \cup (IF t.open \in d.advanced THEN {t.name} ELSE {})
      BY <1>0, <2>2
    <3> HIDE DEF Begun, Ended, S
    <3>2. CASE t.open \in d.advanced
      <4>1. h[k + 1].open = Opened(x.open, t.name) /\ Begun(k + 1) = Begun(k) \cup {t.name}
        BY <2>1, <3>1, <3>2
      <4> HIDE DEF t, x
      <4>2. /\ x.open \in Seq(ThreadNames)
            /\ OpenedOnce => \A i, j \in DOMAIN x.open : x.open[i] = x.open[j] => i = j
            /\ Recorded(x.open) = Recorded(open_order) \cup Begun(k)
        BY <2>3 DEF x
      <4> HIDE DEF CloseOK
      <4>3. /\ h[k + 1].open \in Seq(ThreadNames)
            /\ OpenedOnce => \A i, j \in DOMAIN h[k + 1].open :
                               h[k + 1].open[i] = h[k + 1].open[j] => i = j
            /\ Recorded(h[k + 1].open) = Recorded(x.open) \cup {t.name}
        BY <2>2, <4>1, <4>2, OpenedFacts, Zenon
      <4> QED BY <4>1, <4>2, <4>3
    <3>3. CASE t.open \notin d.advanced
      <4>1. h[k + 1].open = h[k].open /\ Begun(k + 1) = Begun(k)
        BY <2>1, <3>1, <3>3
      <4> QED BY <2>3, <4>1, Zenon
    <3> QED BY <3>2, <3>3
  <2>5. CloseOK(k + 1)
    <3>1. ASSUME NEW i \in DOMAIN Threads
          PROVE  Ended(i, k + 1) = Ended(i, k)
                   + (IF t.close \in d.completed /\ t.name = Threads[i].name THEN 1 ELSE 0)
      <4>1. t.name = Threads[i].name <=> i = k + 1
        BY <2>2, ThreadsAssumption DEF ThreadsAssumption
      <4>2. i \in Nat
        BY <1>0
      <4> QED BY <2>2, <4>1, <4>2
    <3>2. \A i \in DOMAIN Threads : Ended(i, k) \in Nat /\ Times(close_order, Threads[i].name) \in Nat
      BY TimesFinite DEF OrdersTyped
    <3> HIDE DEF Ended, Begun, S, OpenOK
    <3>3. x.close \in Seq(ThreadNames)
      BY <2>3
    <3>4. h[k + 1].close \in Seq(ThreadNames)
      BY <2>1, <2>2, <3>3
    <3>5. ASSUME NEW i \in DOMAIN Threads
          PROVE  Times(h[k + 1].close, Threads[i].name)
                   = Times(x.close, Threads[i].name)
                     + (IF t.close \in d.completed /\ t.name = Threads[i].name THEN 1 ELSE 0)
      <4>1. Times(x.close, Threads[i].name) \in Nat
        BY <3>3, TimesFinite, Zenon
      <4>2. Times(Append(x.close, t.name), Threads[i].name)
              = Times(x.close, Threads[i].name) + (IF t.name = Threads[i].name THEN 1 ELSE 0)
        BY <2>2, <3>3, TimesAppended
      <4> HIDE DEF t, x, CloseOK
      <4> QED BY <2>1, <4>1, <4>2
    <3>6. \A i \in DOMAIN Threads :
            Times(x.close, Threads[i].name) = Times(close_order, Threads[i].name) + Ended(i, k)
      BY <2>3
    <3>7. \A i \in DOMAIN Threads :
            Times(h[k + 1].close, Threads[i].name) = Times(close_order, Threads[i].name) + Ended(i, k + 1)
      BY <3>1, <3>2, <3>5, <3>6
    <3> QED BY <3>4, <3>7
  <2>6. k + 1 \in Nat
    OBVIOUS
  <2> HIDE DEF OpenOK, CloseOK
  <2> QED BY <2>4, <2>5, <2>6
<1>6. n \in S
  <2> HIDE DEF S
  <2>1. 0..n \subseteq S
    BY <1>0, <1>4, <1>5, PrefixInduction
  <2> QED BY <1>0, <2>1
<1>7. Begun(n) = {Threads[i].name : i \in {k \in DOMAIN Threads : Threads[k].open \in d.advanced}}
  BY <1>0
<1>8. \A i \in DOMAIN Threads : Ended(i, n) = IF Threads[i].close \in d.completed THEN 1 ELSE 0
  BY <1>0
<1> HIDE DEF Begun, Ended
<1>9. OpenOK(n) /\ CloseOK(n)
  BY <1>6
<1> QED BY <1>1, <1>7, <1>8, <1>9

-----------------------------------------------------------------------------
(* check_filo *)

\* The recursion of StillOpen
LEMMA StillOpenSteps ==
  ASSUME NEW n \in Nat, DOMAIN close_order = 1..n
  PROVE  StillOpen = [k \in 1..n |-> IF k = 1 THEN DOMAIN open_order
                                     ELSE StillOpenAfter(StillOpen[k - 1], close_order[k - 1])]
<1> DEFINE F(h, k) == IF k = 1 THEN DOMAIN open_order ELSE StillOpenAfter(h[k - 1], close_order[k - 1])
           S == {j \in Nat : \E h : h = [k \in 1..j |-> F(h, k)]}
<1>1. 0 \in S
  <2> DEFINE h == [k \in 1..0 |-> DOMAIN open_order]
  <2>1. h = [k \in 1..0 |-> F(h, k)]
    OBVIOUS
  <2> HIDE DEF h, F
  <2> QED BY <2>1
<1>2. ASSUME NEW j \in Nat, j < n, j \in S
      PROVE  j + 1 \in S
  <2>1. PICK h : h = [k \in 1..j |-> F(h, k)]
    BY <1>2
  <2> DEFINE h2 == [k \in 1..(j + 1) |-> IF k \in 1..j THEN h[k] ELSE F(h, j + 1)]
  <2>2. ASSUME NEW k \in 1..(j + 1)
        PROVE  h2[k] = F(h2, k)
    <3>1. k # 1 => h2[k - 1] = h[k - 1]
      OBVIOUS
    <3>2. h2[k] = F(h, k)
      <4> HIDE DEF F, S
      <4>1. k \in 1..j \/ k = j + 1
        OBVIOUS
      <4> QED BY <2>1, <4>1
    <3> HIDE DEF h2
    <3>3. F(h, k) = F(h2, k)
      BY <3>1
    <3> QED BY <3>2, <3>3
  <2>3. h2 = [k \in 1..(j + 1) |-> F(h2, k)]
    <3> HIDE DEF F
    <3>1. h2 = [k \in 1..(j + 1) |-> h2[k]]
      OBVIOUS
    <3> HIDE DEF h2
    <3> QED BY <2>2, <3>1
  <2> HIDE DEF h2, F
  <2>4. j + 1 \in Nat
    OBVIOUS
  <2> QED BY <2>3, <2>4
<1>3. n \in S
  <2> HIDE DEF S
  <2>1. n \in 0..n
    OBVIOUS
  <2>2. 0..n \subseteq S
    BY <1>1, <1>2, PrefixInduction
  <2> QED BY <2>1, <2>2
<1> DEFINE at == CHOOSE h : h = [k \in DOMAIN close_order |-> F(h, k)]
<1>4. at = [k \in DOMAIN close_order |-> F(at, k)]
  <2>1. \E h : h = [k \in DOMAIN close_order |-> F(h, k)]
    BY <1>3
  <2> HIDE DEF F
  <2> QED BY <2>1, Zenon
<1>5. StillOpen = at
  BY Zenon DEF StillOpen
<1> HIDE DEF at
<1> QED BY <1>4, <1>5

\* What is still open at a closing: the places whose thread was not closed before
LEMMA StillOpenFacts ==
  ASSUME OrdersTyped, OpenedOnce, NEW k \in DOMAIN close_order
  PROVE  StillOpen[k] = {i \in DOMAIN open_order : \A l \in 1..(k - 1) : close_order[l] # open_order[i]}
<1> DEFINE n == Len(close_order)
           Left(j) == {i \in DOMAIN open_order : \A l \in 1..(j - 1) : close_order[l] # open_order[i]}
           S == {j \in Nat : j >= 1 /\ j <= n => StillOpen[j] = Left(j)}
<1>1. n \in Nat /\ DOMAIN close_order = 1..n
  BY DEF OrdersTyped
<1> HIDE DEF n
<1>2. StillOpen = [j \in 1..n |-> IF j = 1 THEN DOMAIN open_order
                                  ELSE StillOpenAfter(StillOpen[j - 1], close_order[j - 1])]
  BY <1>1, StillOpenSteps
<1>3. 0 \in S
  OBVIOUS
<1>4. ASSUME NEW j \in Nat, j < n, j \in S
      PROVE  j + 1 \in S
  <2> SUFFICES StillOpen[j + 1] = Left(j + 1)
    OBVIOUS
  <2>1. CASE j = 0
    <3>1. Left(1) = DOMAIN open_order
      OBVIOUS
    <3>2. StillOpen[1] = DOMAIN open_order
      BY <1>1, <1>2, <1>4, <2>1
    <3>3. j + 1 = 1
      BY <2>1
    <3> HIDE DEF Left
    <3> QED BY <3>1, <3>2, <3>3, Zenon
  <2>2. CASE j # 0
    <3>0. StillOpen[j] = Left(j)
      <4>1. j >= 1 /\ j <= n
        BY <1>1, <1>4, <2>2
      <4> HIDE DEF Left
      <4> QED BY <1>4, <4>1
    <3>1. StillOpen[j + 1] = StillOpenAfter(StillOpen[j], close_order[j])
      <4> HIDE DEF S, Left
      <4> DEFINE m == j + 1
      <4>1. m \in 1..n /\ m # 1 /\ m - 1 = j
        BY <1>1, <1>4, <2>2
      <4> HIDE DEF m
      <4>2. StillOpen[m] = StillOpenAfter(StillOpen[m - 1], close_order[m - 1])
        BY <1>2, <4>1
      <4> QED BY <4>1, <4>2 DEF m
    <3>2. FirstPlace(Left(j), close_order[j]) = {i \in Left(j) : open_order[i] = close_order[j]}
      <4>1. DOMAIN open_order \subseteq Nat
        BY DEF OrdersTyped
      <4> QED BY <4>1 DEF FirstPlace, OpenedOnce
    <3>3. Left(j + 1) = Left(j) \ {i \in Left(j) : open_order[i] = close_order[j]}
      <4>1. 1..((j + 1) - 1) = (1..(j - 1)) \cup {j}
        <5>1. \A l \in 1..((j + 1) - 1) : l \in 1..(j - 1) \/ l = j
          BY <2>2
        <5>2. \A l \in (1..(j - 1)) \cup {j} : l \in 1..((j + 1) - 1)
          BY <2>2
        <5> QED BY <5>1, <5>2
      <4> QED BY <4>1
    <3> QED BY <3>0, <3>1, <3>2, <3>3 DEF StillOpenAfter
  <2> QED BY <2>1, <2>2
<1>5. k \in S
  <2> HIDE DEF S
  <2>1. 0..n \subseteq S
    BY <1>1, <1>3, <1>4, PrefixInduction
  <2> QED BY <1>1, <2>1
<1> QED BY <1>1, <1>5

\* What check_filo comes to: a pair is reported, and once, when the first was
\* opened before the second, has been closed at some time, and the second never.
\* So the order of closings plays no part in it.
FiloPairs ==
  /\ Cardinality(CheckFilo) = Cardinality(Violations)
  /\ Violations = {[closed_thread |-> p[1], blocking_thread |-> p[2]] :
                     p \in {p \in Recorded(open_order) \X Recorded(open_order) :
                     /\ Position(open_order, p[1]) < Position(open_order, p[2])
                     /\ p[1] \in Recorded(close_order) /\ p[2] \notin Recorded(close_order)}}

\* check_filo reports what FiloPairs says, as long as no thread is written down
\* as opened twice.
LEMMA FiloLaw ==
  ASSUME OrdersTyped, OpenedOnce
  PROVE  FiloPairs
<1> DEFINE Closed(i) == \E l \in DOMAIN close_order : close_order[l] = open_order[i]
           Said(v) == [closed_thread |-> close_order[v[1]], blocking_thread |-> open_order[v[2]]]
           First(v) == \A l \in 1..(v[1] - 1) : close_order[l] # close_order[v[1]]
<1>1. /\ DOMAIN open_order = 1..Len(open_order) /\ Len(open_order) \in Nat
      /\ DOMAIN close_order = 1..Len(close_order) /\ Len(close_order) \in Nat
  BY DEF OrdersTyped
<1>2. \A i \in DOMAIN open_order : Times(open_order, open_order[i]) = 1
  <2>1. ASSUME NEW i \in DOMAIN open_order
        PROVE  Times(open_order, open_order[i]) = 1
    <3>1. {j \in DOMAIN open_order : open_order[j] = open_order[i]} = {i}
      BY DEF OpenedOnce
    <3> QED BY <3>1, FS_Singleton DEF Times
  <2> QED BY <2>1
<1>3. \A i \in DOMAIN open_order : Times(close_order, open_order[i]) < 1 <=> ~Closed(i)
  <2>1. ASSUME NEW i \in DOMAIN open_order
        PROVE  Times(close_order, open_order[i]) < 1 <=> ~Closed(i)
    <3>1. /\ Times(close_order, open_order[i]) \in Nat
          /\ Times(close_order, open_order[i]) > 0 <=> open_order[i] \in Recorded(close_order)
      BY TimesFinite DEF OrdersTyped
    <3>2. open_order[i] \in Recorded(close_order) <=> Closed(i)
      BY DEF Recorded
    <3> HIDE DEF Closed
    <3> QED BY <3>1, <3>2
  <2> QED BY <2>1
\* Which closings are blocked, and by which place
<1>4. ASSUME NEW k \in DOMAIN close_order, NEW j
      PROVE  <<k, j>> \in CheckFilo <=>
               /\ j \in DOMAIN open_order /\ ~Closed(j)
               /\ \E i \in DOMAIN open_order : i < j /\ open_order[i] = close_order[k]
               /\ \A l \in 1..(k - 1) : close_order[l] # close_order[k]
  <2>1. StillOpen[k] = {i \in DOMAIN open_order : \A l \in 1..(k - 1) : close_order[l] # open_order[i]}
    BY StillOpenFacts
  <2>2. FirstPlace(StillOpen[k], close_order[k]) = {i \in StillOpen[k] : open_order[i] = close_order[k]}
    BY <1>1, <2>1 DEF FirstPlace, OpenedOnce
  <2>3. <<k, j>> \in CheckFilo <=>
          /\ j \in StillOpen[k]
          /\ \E i \in FirstPlace(StillOpen[k], close_order[k]) : i < j
          /\ Times(close_order, open_order[j]) < Times(open_order, open_order[j])
    BY DEF CheckFilo
  <2>4. j \in DOMAIN open_order => (Times(close_order, open_order[j]) < Times(open_order, open_order[j]) <=> ~Closed(j))
    <3> HIDE DEF Closed
    <3> QED BY <1>2, <1>3
  <2>5. j \in DOMAIN open_order /\ ~Closed(j) => j \in StillOpen[k]
    BY <1>1, <2>1
  <2> HIDE DEF Closed
  <2> QED BY <2>1, <2>2, <2>3, <2>4, <2>5
<1>5. \A v \in CheckFilo : /\ v = <<v[1], v[2]>>
                           /\ v[1] \in DOMAIN close_order /\ v[2] \in DOMAIN open_order
                           /\ First(v)
  <2>1. \A v \in CheckFilo : \E k \in DOMAIN close_order, j \in DOMAIN open_order : v = <<k, j>>
    BY StillOpenFacts DEF CheckFilo
  <2> QED BY <1>4, <2>1
\* Each is reported once
<1>6. Cardinality(CheckFilo) = Cardinality(Violations)
  <2> DEFINE f == [v \in CheckFilo |-> Said(v)]
  <2>1. IsFiniteSet(CheckFilo)
    <3>1. IsFiniteSet(DOMAIN close_order) /\ IsFiniteSet(DOMAIN open_order)
      BY <1>1, FS_Interval
    <3>2. IsFiniteSet((DOMAIN close_order) \X (DOMAIN open_order))
      BY <3>1, FS_Product
    <3>3. CheckFilo \subseteq (DOMAIN close_order) \X (DOMAIN open_order)
      <4> HIDE DEF First
      <4> QED BY <1>5
    <3> QED BY <3>2, <3>3, FS_Subset
  <2>2. Violations = {Said(v) : v \in CheckFilo}
    BY DEF Violations
  <2>3. ASSUME NEW v \in CheckFilo, NEW w \in CheckFilo, Said(v) = Said(w)
        PROVE  v = w
    <3>1. close_order[v[1]] = close_order[w[1]] /\ open_order[v[2]] = open_order[w[2]]
      BY <2>3
    <3>2. v[2] = w[2]
      BY <1>5, <3>1 DEF OpenedOnce
    <3>3. v[1] = w[1]
      <4>1. v[1] \in Nat /\ w[1] \in Nat /\ v[1] >= 1 /\ w[1] >= 1 /\ First(v) /\ First(w)
        BY <1>1, <1>5
      <4>2. ~(v[1] < w[1])
        BY <3>1, <4>1
      <4>3. ~(w[1] < v[1])
        BY <3>1, <4>1
      <4> QED BY <4>1, <4>2, <4>3
    <3> QED BY <1>5, <3>2, <3>3
  <2> HIDE DEF Said
  <2>4. f \in Surjection(CheckFilo, Violations) /\ f \in Injection(CheckFilo, Violations)
    <3>1. f \in [CheckFilo -> Violations] /\ \A v \in CheckFilo : f[v] = Said(v)
      BY <2>2
    <3> HIDE DEF f
    <3>2. \A x \in Violations : \E v \in CheckFilo : f[v] = x
      BY <2>2, <3>1
    <3>3. \A v, w \in CheckFilo : f[v] = f[w] => v = w
      BY <2>3, <3>1
    <3> QED BY <3>1, <3>2, <3>3 DEF Surjection, Injection, IsInjective
  <2> HIDE DEF f
  <2> QED BY <2>1, <2>4, FS_Surjection
<1>7. \A i \in DOMAIN open_order : Position(open_order, open_order[i]) = i
  <2>1. ASSUME NEW i \in DOMAIN open_order
        PROVE  Position(open_order, open_order[i]) = i
    <3>1. \A j \in DOMAIN open_order :
            (open_order[j] = open_order[i] /\ \A l \in DOMAIN open_order : open_order[l] = open_order[i] => j <= l)
              <=> j = i
      BY <1>1 DEF OpenedOnce
    <3> QED BY <3>1 DEF Position
  <2> QED BY <2>1
<1> DEFINE pairs == {p \in Recorded(open_order) \X Recorded(open_order) :
                       /\ Position(open_order, p[1]) < Position(open_order, p[2])
                       /\ p[1] \in Recorded(close_order) /\ p[2] \notin Recorded(close_order)}
           Law == {[closed_thread |-> p[1], blocking_thread |-> p[2]] : p \in pairs}
<1>8. ASSUME NEW v \in CheckFilo
      PROVE  <<close_order[v[1]], open_order[v[2]]>> \in pairs
  <2>1. PICK i \in DOMAIN open_order : i < v[2] /\ open_order[i] = close_order[v[1]]
    BY <1>4, <1>5
  <2>2. ~Closed(v[2]) /\ v[2] \in DOMAIN open_order /\ v[1] \in DOMAIN close_order
    BY <1>4, <1>5
  <2>3. Position(open_order, close_order[v[1]]) = i /\ Position(open_order, open_order[v[2]]) = v[2]
    BY <1>7, <2>1, <2>2
  <2> QED BY <2>1, <2>2, <2>3 DEF Recorded
<1>9. ASSUME NEW p \in pairs
      PROVE  \E v \in CheckFilo : close_order[v[1]] = p[1] /\ open_order[v[2]] = p[2]
  <2>1. PICK i \in DOMAIN open_order, j \in DOMAIN open_order : open_order[i] = p[1] /\ open_order[j] = p[2]
    BY DEF Recorded
  <2>2. i < j /\ ~Closed(j)
    BY <1>7, <2>1 DEF Recorded
  <2> DEFINE C == {k \in DOMAIN close_order : close_order[k] = p[1]}
  <2>3. C \in SUBSET Nat /\ C # {}
    BY <1>1 DEF Recorded
  <2>4. PICK k \in C : \A l \in C : k <= l
    <3> HIDE DEF C
    <3> QED BY <2>3, FirstOfPlaces
  <2>5. \A l \in 1..(k - 1) : close_order[l] # close_order[k]
    BY <1>1, <2>4
  <2>6. <<k, j>> \in CheckFilo
    <3> HIDE DEF Closed
    <3> QED BY <1>4, <2>1, <2>2, <2>4, <2>5
  <2> QED BY <2>1, <2>4, <2>6
<1>10. Violations = Law
  <2>1. \A x : x \in Violations <=> \E v \in CheckFilo : x = [closed_thread |-> close_order[v[1]], blocking_thread |-> open_order[v[2]]]
    BY DEF Violations
  <2>2. \A x : x \in Law <=> \E p \in pairs : x = [closed_thread |-> p[1], blocking_thread |-> p[2]]
    OBVIOUS
  <2> HIDE DEF pairs, Law
  <2>3. \A x \in Violations : x \in Law
    BY <1>8, <2>1, <2>2
  <2>4. \A x \in Law : x \in Violations
    BY <1>9, <2>1, <2>2
  <2> QED BY <2>3, <2>4
<1> QED BY <1>6, <1>10 DEF FiloPairs

\* Whom a closed thread is blamed on
LEMMA FiloBlames ==
  ASSUME FiloPairs, NEW n \in Recorded(close_order)
  PROVE  {v.blocking_thread : v \in {w \in Violations : w.closed_thread = n}} = OpenAbove(n)
<1> DEFINE Said(x, y) == [closed_thread |-> x, blocking_thread |-> y]
           blamed == {v.blocking_thread : v \in {w \in Violations : w.closed_thread = n}}
<1>1. ASSUME NEW x, NEW y
      PROVE  Said(x, y) \in Violations <=>
               /\ x \in Recorded(open_order) /\ y \in Recorded(open_order)
               /\ Position(open_order, x) < Position(open_order, y)
               /\ x \in Recorded(close_order) /\ y \notin Recorded(close_order)
  <2> DEFINE pairs == {p \in Recorded(open_order) \X Recorded(open_order) :
                         /\ Position(open_order, p[1]) < Position(open_order, p[2])
                         /\ p[1] \in Recorded(close_order) /\ p[2] \notin Recorded(close_order)}
  <2>1. Said(x, y) \in Violations <=> \E p \in pairs : Said(x, y) = Said(p[1], p[2])
    BY DEF FiloPairs
  <2>2. \A p : Said(x, y) = Said(p[1], p[2]) => x = p[1] /\ y = p[2]
    <3>1. ASSUME NEW p, Said(x, y) = Said(p[1], p[2])
          PROVE  x = p[1] /\ y = p[2]
      <4>1. /\ Said(x, y).closed_thread = Said(p[1], p[2]).closed_thread
            /\ Said(x, y).blocking_thread = Said(p[1], p[2]).blocking_thread
        BY <3>1
      <4> QED BY <4>1
    <3> QED BY <3>1
  <2>3. \A p \in pairs : p = <<p[1], p[2]>>
    OBVIOUS
  <2>4. <<x, y>>[1] = x /\ <<x, y>>[2] = y
    OBVIOUS
  <2> HIDE DEF pairs, Said
  <2>5. Said(x, y) \in Violations <=> <<x, y>> \in pairs
    BY <2>1, <2>2, <2>3, <2>4
  <2> QED BY <2>5 DEF pairs
<1>2. \A v \in Violations : v = Said(v.closed_thread, v.blocking_thread)
  BY DEF Violations
<1>3. \A x, y : Said(x, y).closed_thread = x /\ Said(x, y).blocking_thread = y
  OBVIOUS
<1>4. \A m : m \in blamed <=> \E v \in Violations : v.closed_thread = n /\ v.blocking_thread = m
  OBVIOUS
<1> HIDE DEF Said, blamed
<1>5. \A m : m \in blamed <=> Said(n, m) \in Violations
  BY <1>2, <1>3, <1>4
<1>6. \A m : m \in blamed <=> m \in OpenAbove(n)
  BY <1>1, <1>5 DEF OpenAbove
<1>7. blamed = OpenAbove(n)
  BY <1>6
<1> QED BY <1>7 DEF blamed

-----------------------------------------------------------------------------
(* The tracker's calls *)

\* As many violations as pairs check_filo comes across, and finitely many
LEMMA ViolationsCounted ==
  ASSUME OrdersTyped, OpenedOnce
  PROVE  /\ IsFiniteSet(Violations)
         /\ Cardinality(Violations) \in Nat /\ Cardinality(CheckFilo) = Cardinality(Violations)
<1> DEFINE Said(v) == [closed_thread |-> close_order[v[1]], blocking_thread |-> open_order[v[2]]]
           f == [v \in CheckFilo |-> Said(v)]
<1>1. /\ DOMAIN open_order = 1..Len(open_order) /\ Len(open_order) \in Nat
      /\ DOMAIN close_order = 1..Len(close_order) /\ Len(close_order) \in Nat
  BY DEF OrdersTyped
<1>2. PICK K : K = DOMAIN close_order /\ IsFiniteSet(K)
  BY <1>1, FS_Interval
<1>3. PICK J : J = DOMAIN open_order /\ IsFiniteSet(J)
  BY <1>1, FS_Interval
<1>4. ASSUME NEW v \in CheckFilo
      PROVE  v \in K \X J
  <2>1. PICK k \in DOMAIN close_order : \E j \in StillOpen[k] : v = <<k, j>>
    BY Zenon DEF CheckFilo
  <2>2. PICK j \in StillOpen[k] : v = <<k, j>>
    BY <2>1
  <2>3. j \in DOMAIN open_order
    BY <2>2, StillOpenFacts
  <2>4. k \in K /\ j \in J
    BY <1>2, <1>3, <2>3
  <2> QED BY <2>2, <2>4
<1>5. IsFiniteSet(CheckFilo)
  <2>1. IsFiniteSet(K \X J)
    BY <1>2, <1>3, FS_Product
  <2> QED BY <1>4, <2>1, FS_Subset
<1>6. f \in Surjection(CheckFilo, Violations)
  BY DEF Violations, Surjection
<1>7. IsFiniteSet(Violations)
  BY <1>5, <1>6, FS_Surjection
<1>8. FiloPairs
  BY FiloLaw
<1> QED BY <1>7, <1>8, FS_CardinalityType DEF FiloPairs

\* Whatever it is told, a tracker writes down each opening once
LEMMA ThreadCalls ==
  ASSUME OrdersTyped, OpenedOnce,
         \/ \E d : ObserveDelta(d)
         \/ \E n \in ThreadNames : RecordOpen(n) \/ RecordClose(n)
         \/ ThreadReset
         \/ UNCHANGED threadVars
  PROVE  OrdersTyped' /\ OpenedOnce'
<1>1. ASSUME NEW d, ObserveDelta(d)
      PROVE  OrdersTyped' /\ OpenedOnce'
  <2>1. open_order' = AfterReport(d).open /\ close_order' = AfterReport(d).close
    BY <1>1 DEF ObserveDelta
  <2> QED BY <2>1, ReportFacts DEF OrdersTyped, OpenedOnce
<1>2. ASSUME NEW n \in ThreadNames, RecordOpen(n)
      PROVE  OrdersTyped' /\ OpenedOnce'
  <2>1. open_order' = Opened(open_order, n) /\ close_order' = close_order
    BY <1>2 DEF RecordOpen
  <2>2. open_order \in Seq(ThreadNames)
    BY DEF OrdersTyped
  <2>3. /\ Opened(open_order, n) \in Seq(ThreadNames)
        /\ (\A i, j \in DOMAIN open_order : open_order[i] = open_order[j] => i = j)
             => \A i, j \in DOMAIN Opened(open_order, n) :
                  Opened(open_order, n)[i] = Opened(open_order, n)[j] => i = j
    BY <2>2, OpenedFacts
  <2> QED BY <2>1, <2>3 DEF OrdersTyped, OpenedOnce
<1>3. ASSUME NEW n \in ThreadNames, RecordClose(n)
      PROVE  OrdersTyped' /\ OpenedOnce'
  BY <1>3 DEF RecordClose, OrdersTyped, OpenedOnce
<1>4. CASE ThreadReset
  BY <1>4 DEF ThreadReset, OrdersTyped, OpenedOnce
<1>5. CASE UNCHANGED threadVars
  BY <1>5 DEF threadVars, OrdersTyped, OpenedOnce
<1> QED BY <1>1, <1>2, <1>3, <1>4, <1>5
=============================================================================
