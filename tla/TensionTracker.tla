--------------------------- MODULE TensionTracker --------------------------
(***************************************************************************)
(* A number sampled tick by tick and the shape of its recent course        *)
(* (crates/fabula-narratives/src/tension.rs).                              *)
(*                                                                         *)
(* Values and threshold are integers in some unit: the code's floats, on   *)
(* inputs where they are exact.  Fractions are compared by cross           *)
(* multiplication; sums carry the factors the code divides by.             *)
(***************************************************************************)
EXTENDS Integers, Sequences, SequencesExt

CONSTANTS WindowSize,   \* window_size
          Threshold     \* slope below which the course is flat, per 100 ticks

ASSUME WindowAssumption == WindowSize \in Nat /\ WindowSize >= 3 /\ Threshold \in Nat

VARIABLE samples        \* [tick, value], oldest first

TensionInit == samples = << >>

DropOldest(s) == IF Len(s) > WindowSize THEN Tail(s) ELSE s

\* push
PushSample(t, v) == samples' = DropOldest(Append(samples, [tick |-> t, value |-> v]))

\* reset
TensionReset == samples' = << >>

SumOf(s) == FoldLeft(LAMBDA x, y : x + y, 0, s)
ValuesOf(s) == [i \in DOMAIN s |-> s[i].value]
TicksOf(s)  == [i \in DOMAIN s |-> s[i].tick]

\* slope, as <<numerator, denominator>>: the deviations are multiplied by the
\* number of samples, which cancels; no slope without two ticks
Slope(s) ==
  LET n  == Len(s)
      dx == [i \in DOMAIN s |-> n * s[i].tick - SumOf(TicksOf(s))]
      dy == [i \in DOMAIN s |-> n * s[i].value - SumOf(ValuesOf(s))]
      num == SumOf([i \in DOMAIN s |-> dx[i] * dy[i]])
      den == SumOf([i \in DOMAIN s |-> dx[i] * dx[i]])
  IN  IF n < 2 \/ den = 0 THEN <<0, 1>> ELSE <<num, den>>

FirstHalf(s)  == SubSeq(s, 1, Len(s) \div 2)
SecondHalf(s) == SubSeq(s, Len(s) \div 2 + 1, Len(s))

\* Fault: the sample after the middle one
LateMidValue(s) == s[IF Len(s) > 3 THEN Len(s) \div 2 + 2 ELSE 2].value

MidValue(s) == s[Len(s) \div 2 + 1].value

\* Fault: only how far the first half lies above the second is looked at
OneSided(n) == n

AbsDiff(n) == IF n < 0 THEN -n ELSE n

\* trajectory
Trajectory(s) ==
  LET mid == MidValue(s)
      a == ValuesOf(FirstHalf(s))
      b == ValuesOf(SecondHalf(s))
      Above(x) == mid * Len(x) > SumOf(x)
      Below(x) == mid * Len(x) < SumOf(x)
      \* the halves' means differ by less than ten thresholds
      level == AbsDiff(SumOf(a) * Len(b) - SumOf(b) * Len(a)) * 10 < Threshold * Len(a) * Len(b)
      slope == Slope(s)
  IN  CASE Len(s) < 3                            -> "Unknown"
        [] Len(s) >= 3 /\ Above(a) /\ Above(b) /\ level -> "Peak"
        [] Len(s) >= 3 /\ Below(a) /\ Below(b) /\ level -> "Valley"
        [] OTHER -> IF 100 * slope[1] > Threshold * slope[2] THEN "Rising"
                    ELSE IF 100 * slope[1] < -(Threshold * slope[2]) THEN "Falling"
                    ELSE "Plateau"

-----------------------------------------------------------------------------
Course == Trajectory(samples)

Mirror(s) == [i \in DOMAIN s |-> [s[i] EXCEPT !.value = -@]]
Mirrored(c) == CASE c = "Rising" -> "Falling" [] c = "Falling" -> "Rising"
                 [] c = "Peak"   -> "Valley"  [] c = "Valley"  -> "Peak"
                 [] OTHER        -> c

\* The classification has no bias, the mirror image of a course gets the
\* mirror image of its name; and a course that never falls is never named
\* falling, peak or valley, however irregular the ticks of its samples.
CourseFollowsSamples ==
  /\ Trajectory(Mirror(samples)) = Mirrored(Course)
  /\ (\A i \in 1..(Len(samples) - 1) : samples[i].value <= samples[i + 1].value)
       => Course \in {"Rising", "Plateau", "Unknown"}
=============================================================================
