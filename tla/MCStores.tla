------------------------------ MODULE MCStores -------------------------------
(***************************************************************************)
(* StoreCalls on three events that may cause each other, in a chain, in a  *)
(* fork and in a circle, two of them in two ways, and the state of a door; *)
(* and beside it IntervalPairs, the algebra of the intervals the stores    *)
(* and everything above them compare.  Pairs are compared while the stores *)
(* are empty, and calls start from one pair, so that the two state spaces  *)
(* add up and do not multiply.                                             *)
(***************************************************************************)
EXTENDS StoreCalls, IntervalPairs

Cause(x, y, t) == [source |-> x, label |-> "causes", target |-> Ref(y), interval |-> Open(t)]
Short(x, y, t) == [source |-> x, label |-> "causes", target |-> Ref(y), interval |-> Bounded(t, t + 1)]

MCLinks == { Cause("fire", "flight", 2), Cause("spark", "fire", 1), Short("spark", "flight", 1),
             Cause("flight", "spark", 3), Cause("spark", "fire", 2), Short("fire", "flight", 3),
             [source |-> "spark", label |-> "causes", target |-> Str("fire"), interval |-> Open(1)] }

MCStates == {<<"door", "is">>}
MCStateValues == {Str("open"), Str("shut")}
MCWeights == [causes |-> 2]

StoresAndPairsInit == StoresInit /\ Init

StoresAndPairsNext ==
  \/ edges = << >> /\ current_time = 0 /\ Compare /\ UNCHANGED storeVars
  \/ a = Open(0) /\ b = Open(0) /\ CallsNext /\ UNCHANGED <<a, b>>

StoresAndPairs == StoresAndPairsInit /\ [][StoresAndPairsNext]_<<storeVars, a, b>>
=============================================================================
