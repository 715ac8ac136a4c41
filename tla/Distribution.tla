---------------------------- MODULE Distribution -----------------------------
(***************************************************************************)
(* The statistics of a series of tests (stats/Distribution.h): a list of   *)
(* values and what printReport() and exportReport() compute from it.       *)
(*                                                                         *)
(* Values are whole numbers of a clock tick here, doubles in the code.     *)
(* Quotients are exact: a fraction [num, den] stands for num / den, and a  *)
(* deviation is given by its square, before the final std::sqrt.           *)
(***************************************************************************)
EXTENDS Integers, Sequences, SequencesExt

CONSTANTS Ticks,      \* the values added
          MaxValues   \* bound: how many are added

ASSUME TicksAssumption == Ticks \subseteq Int

VARIABLE values  \* _values

Init == values = <<>>

AddValue(v) ==
    /\ Len(values) < MaxValues
    /\ values' = Append(values, v)

Next == \E v \in Ticks : AddValue(v)

Spec == Init /\ [][Next]_values

------------------------------------------------------------------------------
(* What the report computes.                                               *)

\* The loops are recursive functions: what they have computed after n elements.

RunningSum(s) ==
    LET sum[n \in 0 .. Len(s)] == IF n = 0 THEN 0 ELSE sum[n - 1] + s[n]
    IN  sum

Total(s) == RunningSum(s)[Len(s)]   \* std::accumulate

Square(n) == n * n

\* The loop "diff = value - mean; accum += diff * diff" with its mean, times
\* Square(Len(s)), which makes it whole.
SquaredDiffs(s) ==
    LET sum == Total(s)
    IN  Total([i \in 1 .. Len(s) |-> Square(Len(s) * s[i] - sum)])

\* mean() of at least one value.
Mean == [num |-> Total(values), den |-> Len(values)]

Smaller(a, b) == IF b < a THEN b ELSE a
Larger(a, b) == IF a < b THEN b ELSE a

MinFromZero ==  \* variant
    LET least[n \in 0 .. Len(values)] ==
            IF n = 0 THEN 0 ELSE Smaller(least[n - 1], values[n])
    IN  least[Len(values)]

\* min() and max() of at least one value.
RunningMin ==
    LET least[n \in 0 .. Len(values)] ==
            IF n = 0 THEN values[1] ELSE Smaller(least[n - 1], values[n])
    IN  least

RunningMax ==
    LET largest[n \in 0 .. Len(values)] ==
            IF n = 0 THEN values[1] ELSE Larger(largest[n - 1], values[n])
    IN  largest

MinValue == RunningMin[Len(values)]
MaxValue == RunningMax[Len(values)]

StdDevWhole ==  \* variant: divides by the number of values
    IF Len(values) < 2
    THEN [num |-> 0, den |-> 1]
    ELSE [num |-> SquaredDiffs(values), den |-> Square(Len(values)) * Len(values)]

\* stdDev(), squared.
StdDev ==
    IF Len(values) < 2
    THEN [num |-> 0, den |-> 1]
    ELSE [num |-> SquaredDiffs(values), den |-> Square(Len(values)) * (Len(values) - 1)]

Distance(a, b) == IF a < b THEN b - a ELSE a - b   \* std::abs(a - b)

\* Deltas between consecutive values.
Diffs == [i \in 1 .. Len(values) - 1 |-> Distance(values[i + 1], values[i])]

LocalJitterSigned ==  \* variant: signed deltas
    LET diffs == [i \in 1 .. Len(values) - 1 |-> values[i + 1] - values[i]]
    IN  IF Len(values) < 2
        THEN [num |-> 0, den |-> 1]
        ELSE [num |-> SquaredDiffs(diffs), den |-> Square(Len(diffs)) * (Len(diffs) - 1)]

\* localJitter(), squared.  With two values there is one delta, and "den" is 0:
\* the code then divides 0.0 by 0.
LocalJitter ==
    IF Len(values) < 2
    THEN [num |-> 0, den |-> 1]
    ELSE [num |-> SquaredDiffs(Diffs), den |-> Square(Len(Diffs)) * (Len(Diffs) - 1)]

Count(x) == Cardinality({i \in DOMAIN values : values[i] = x})

ModeForgets(order) ==  \* variant: maxCount is not updated
    LET best[n \in 0 .. Len(order)] ==
            IF n = 0 THEN values[1]
            ELSE IF Count(order[n]) > 0 THEN order[n] ELSE best[n - 1]
    IN  best[Len(order)]

\* One turn of the loop of mode(): x replaces the best value so far only if it
\* is more frequent.
Better(best, x) == IF Count(x) > best.maxCount
                   THEN [maxCount |-> Count(x), modeValue |-> x]
                   ELSE best

RunningMode(order) ==
    LET best[n \in 0 .. Len(order)] ==
            IF n = 0 THEN [maxCount |-> 0, modeValue |-> values[1]]
            ELSE Better(best[n - 1], order[n])
    IN  best

\* mode() of at least one value, with the frequency map iterated in the given
\* order.
Mode(order) == RunningMode(order)[Len(order)].modeValue

------------------------------------------------------------------------------
(* What the names in the report promise.                                   *)

\* The differences between all pairs of elements, squared and summed.
PairDiffs(s) ==
    LET Below(j) == [i \in 1 .. j - 1 |-> Square(s[j] - s[i])]
    IN  Total([j \in 1 .. Len(s) |-> Total(Below(j))])

\* f is the sample variance of s: the squared differences of all pairs over
\* n (n - 1), a formula without the mean.
SampleVariance(f, s) == f.num * (Len(s) * (Len(s) - 1)) = f.den * PairDiffs(s)

\* The "StdDev (global)" line shows the sample standard deviation of all values
\* added, for any list: the two passes of stdDev() agree with the pairwise
\* definition, and one value has none.
StdDevIsSampleDeviation ==
    IF Len(values) >= 2 THEN StdDev.den > 0 /\ SampleVariance(StdDev, values)
                        ELSE StdDev.num = 0

\* The "Local Jitter" line shows the sample standard deviation of the distances
\* between consecutive values, when there are at least two distances.
JitterIsDeviationOfDeltas == Len(values) >= 3 => SampleVariance(LocalJitter, Diffs)

\* The "Mode" line shows one of the most frequent values, in whatever order the
\* hash table is iterated.
ModeIsMostFrequent ==
    values # <<>> =>
        \A order \in SetToSeqs(ToSet(values)) :
            \A i \in DOMAIN values : Count(values[i]) <= Count(Mode(order))

\* The lines of one report fit together: mode and mean lie between minimum and
\* maximum, no deviation is larger than the distance of the two, and there is
\* none exactly if they are equal.
ReportIsConsistent ==
    values # <<>> =>
        /\ \A order \in SetToSeqs(ToSet(values)) :
              MinValue <= Mode(order) /\ Mode(order) <= MaxValue
        /\ MinValue * Mean.den <= Mean.num /\ Mean.num <= MaxValue * Mean.den
        /\ StdDev.num <= Square(MaxValue - MinValue) * StdDev.den
        /\ StdDev.num = 0 <=> MinValue = MaxValue
==============================================================================
