----------------------------- MODULE MatchLedger -----------------------------
(***************************************************************************)
(* What the store of matches promises its callers, whatever the patterns   *)
(* and the edges: a match is written once under an id never used before    *)
(* and never altered; a match in progress stays or goes for good; a        *)
(* complete match stays until the caller drains it.                        *)
(***************************************************************************)
EXTENDS Integers, TLAPS

VARIABLES active, complete, next

All == active \cup complete

\* What a step adds to either side
New == (active' \ active) \cup (complete' \ complete)

Init == active = {} /\ complete = {} /\ next = 0

\* One call may retire any matches in progress and enter new matches
Enter ==
  /\ next' \in Nat /\ next' >= next
  /\ complete \subseteq complete'
  /\ \A m \in New : m.id \in next..(next' - 1)
  /\ \A m, q \in New : m.id = q.id => m = q
  /\ active' \cap complete' = {}

Drain == complete' = {} /\ UNCHANGED <<active, next>>

Next == Enter \/ Drain

Spec == Init /\ [][Next]_<<active, complete, next>>

\* No two matches, complete or not, ever share an id.
OneMatchPerId == \A m, q \in All : m.id = q.id => m = q

-----------------------------------------------------------------------------
(* What follows from the ledger alone: every implementation of it tells its *)
(* matches apart by their ids.                                              *)

\* Ids given lie below the next one; this makes OneMatchPerId inductive
LedgerInv ==
  /\ next \in Nat
  /\ \A m \in All : m.id \in Nat /\ m.id < next
  /\ OneMatchPerId

\* Entering matches under fresh ids, retiring and draining keep it
LEMMA LedgerStep == LedgerInv /\ [Next]_<<active, complete, next>> => LedgerInv'
<1> SUFFICES ASSUME LedgerInv, [Next]_<<active, complete, next>>
             PROVE  LedgerInv'
  OBVIOUS
<1>1. CASE Enter
  <2>1. \A m \in All' : m \in All \/ m \in New
    BY DEF All, New
  <2>2. next \in Nat /\ next' \in Nat /\ next' >= next
    BY <1>1 DEF Enter, LedgerInv
  <2>3. \A m \in New : m.id \in Nat /\ next <= m.id /\ m.id < next'
    BY <1>1, <2>2 DEF Enter
  <2>4. \A m \in All : m.id \in Nat /\ m.id < next
    BY DEF LedgerInv
  <2>5. \A m \in All' : m.id \in Nat /\ m.id < next'
    BY <2>1, <2>2, <2>3, <2>4
  <2>6. ASSUME NEW m \in All', NEW q \in All', m.id = q.id
        PROVE  m = q
    <3>1. CASE m \in New /\ q \in New
      BY <1>1, <2>6, <3>1 DEF Enter
    <3>2. CASE m \in All /\ q \in All
      BY <2>6, <3>2 DEF LedgerInv, OneMatchPerId
    <3>3. ~(m \in New /\ q \in All) /\ ~(m \in All /\ q \in New)
      BY <2>2, <2>3, <2>4, <2>6
    <3> QED BY <2>1, <3>1, <3>2, <3>3
  <2> QED BY <2>2, <2>5, <2>6 DEF LedgerInv, OneMatchPerId
<1>2. CASE Drain
  BY <1>2 DEF Drain, LedgerInv, OneMatchPerId, All
<1>3. CASE UNCHANGED <<active, complete, next>>
  BY <1>3 DEF LedgerInv, OneMatchPerId, All
<1> QED BY <1>1, <1>2, <1>3 DEF Next

\* No two matches of the ledger, in progress or complete, ever share an id:
\* what drain_completed, the event list and advance_in_place take for granted
\* when they name a match by its id.
THEOREM LedgerIdsUnique == Spec => []OneMatchPerId
<1>1. Init => LedgerInv
  BY DEF Init, LedgerInv, All, OneMatchPerId
<1>2. LedgerInv => OneMatchPerId
  BY DEF LedgerInv
<1> QED BY <1>1, <1>2, LedgerStep, PTL DEF Spec
=============================================================================
