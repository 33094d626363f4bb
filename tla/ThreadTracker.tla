--------------------------- MODULE ThreadTracker ---------------------------
(***************************************************************************)
(* Narrative threads (crates/fabula-narratives/src/thread.rs): pairs of an *)
(* opening and a closing pattern, the order in which threads were first    *)
(* opened and the order in which they were closed.                         *)
(*                                                                         *)
(* A thread is [name, open, close]; open and close are the names of its    *)
(* patterns, which the code derives from the thread's name.  Names of      *)
(* threads are distinct.                                                   *)
(***************************************************************************)
EXTENDS Naturals, Sequences, FiniteSets

CONSTANT Threads   \* the registered threads, in order of registration

ASSUME ThreadsAssumption ==
  /\ Len(Threads) \in Nat /\ DOMAIN Threads = 1..Len(Threads)
  /\ \A i, j \in DOMAIN Threads : Threads[i].name = Threads[j].name => i = j

VARIABLES open_order, close_order

threadVars == <<open_order, close_order>>

ThreadNames == {Threads[i].name : i \in DOMAIN Threads}

ThreadInit == open_order = << >> /\ close_order = << >>

\* How often n is written down
Times(order, n) == Cardinality({i \in DOMAIN order : order[i] = n})

\* Fault: a thread opened again is written down again
OpenedAgain(order, n) == Append(order, n)

\* record_open: only the first opening counts
Opened(order, n) == IF Times(order, n) > 0 THEN order ELSE Append(order, n)

RecordOpen(n)  == open_order' = Opened(open_order, n) /\ UNCHANGED close_order

\* record_close
RecordClose(n) == close_order' = Append(close_order, n) /\ UNCHANGED open_order

\* The two orders, after what a report says of the patterns of t
Noted(orders, t, d) ==
  [ open  |-> IF t.open \in d.advanced THEN Opened(orders.open, t.name) ELSE orders.open,
    close |-> IF t.close \in d.completed THEN Append(orders.close, t.name) ELSE orders.close ]

\* ... and of all threads, in the order in which they were registered
AfterReport(d) ==
  LET upTo[k \in 0..Len(Threads)] ==
        IF k = 0 THEN [open |-> open_order, close |-> close_order]
        ELSE Noted(upTo[k - 1], Threads[k], d)
  IN  upTo[Len(Threads)]

\* observe_delta: openings are read off what advanced, closings off what completed
ObserveDelta(d) == open_order' = AfterReport(d).open /\ close_order' = AfterReport(d).close

\* reset
ThreadReset == open_order' = << >> /\ close_order' = << >>

\* Of the places S of open_order, the first that holds n
FirstPlace(S, n) == {i \in S : open_order[i] = n /\ \A j \in S : open_order[j] = n => i <= j}

\* Fault: what is still open is forgotten with the first closing
ForgottenAt(S, n) == {}

\* In check_filo, what of S is still open after a closing of n
StillOpenAfter(S, n) == S \ FirstPlace(S, n)

\* still_open as the loop over close_order finds it at each of its rounds
StillOpen ==
  LET at[k \in DOMAIN close_order] ==
        IF k = 1 THEN DOMAIN open_order ELSE StillOpenAfter(at[k - 1], close_order[k - 1])
  IN  at

\* check_filo: the rounds k and places j such that the k-th closing is blocked
\* by the thread at j, still open, opened later and closed fewer times than opened
CheckFilo ==
  UNION {{<<k, j>> : j \in {j \in StillOpen[k] :
                      /\ \E i \in FirstPlace(StillOpen[k], close_order[k]) : i < j
                      /\ Times(close_order, open_order[j]) < Times(open_order, open_order[j])}}
           : k \in DOMAIN close_order}

\* The violations reported; the report lists one per member of CheckFilo
Violations == {[closed_thread |-> close_order[v[1]], blocking_thread |-> open_order[v[2]]]
                 : v \in CheckFilo}

\* status, for the counters `ms` of the patterns and `active` matches of each;
\* a pattern that is not registered counts nothing
ThreadStatus(t, ms, active) ==
  LET Completions(n) == IF n \in DOMAIN ms THEN ms[n].completion_count ELSE 0
  IN  [ name        |-> t.name,
        open_count  |-> IF t.open \in DOMAIN active THEN active[t.open] ELSE 0,
        close_count |-> Completions(t.close),
        unresolved  |-> Completions(t.open) > Completions(t.close) ]

\* unresolved_thread_count
UnresolvedThreads(ms, active) ==
  {i \in DOMAIN Threads : ThreadStatus(Threads[i], ms, active).unresolved}

-----------------------------------------------------------------------------
Recorded(order) == {order[i] : i \in DOMAIN order}

Position(order, n) == CHOOSE i \in DOMAIN order : order[i] = n /\ \A j \in DOMAIN order : order[j] = n => i <= j

\* The threads opened after n that are not closed
OpenAbove(n) ==
  {m \in Recorded(open_order) \ Recorded(close_order) :
     n \in Recorded(open_order) /\ Position(open_order, n) < Position(open_order, m)}

\* After a call, the threads it closes first are blamed on those above them
ClosedAreBlamed ==
  /\ \A n \in Recorded(close_order') \ Recorded(close_order) :
       {v.blocking_thread : v \in {w \in Violations' : w.closed_thread = n}} = OpenAbove(n)'
  /\ Cardinality(CheckFilo') = Cardinality(Violations')

\* Asked right after a call, check_filo blames a thread the call was the first to
\* close on exactly those opened after it and not closed, though its loop shrinks
\* the list it looks at and a call may open and close several threads; and no
\* violation is reported twice, for the scorer takes their number.
ClosingsAreReported == [][ClosedAreBlamed]_threadVars
=============================================================================
