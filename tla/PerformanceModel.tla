--------------------------- MODULE PerformanceModel ---------------------------
(***************************************************************************)
(* Server/StandardDeviation.cpp and PerformanceModel.cpp: the mean and the *)
(* deviation of the times of all clients, updated once per maxResults      *)
(* times, and what they say of one time.                                   *)
(*                                                                         *)
(* Arithmetic is exact where the code rounds: instances take times whose   *)
(* means are integers.  The deviation is left under its root,              *)
(* sd^2 = sqDiff / resultCount, and comparisons with it are squared.       *)
(***************************************************************************)
EXTENDS Integers, Sequences, Functions

CONSTANTS
    maxResults,    \* times per batch: 1000
    nSDHigh,       \* deviations below the mean that are fast: 2
    nSDLow         \* deviations above the mean that are too slow: 4

ASSUME ModelAssumption ==
    maxResults \in Nat \ {0} /\ nSDHigh \in Nat /\ nSDLow \in Nat

NoResults == [mean |-> 0, sqDiff |-> 0, resultCount |-> 0, times |-> <<>>]

Total(seq) == SumFunction(seq)

\* Mutated form: both factors are taken from the new mean.
Deviations_NewMean(times, old, new) ==
    Total([i \in 1 .. maxResults |-> (times[i] - new) * (times[i] - new)])

\* Mutated form: the deviations are not summed up.
Deviations_None(times, old, new) == 0

Deviations(times, old, new) ==
    Total([i \in 1 .. maxResults |-> (times[i] - new) * (times[i] - old)])

\* A full batch: the mean moves by the differences to the old mean, the squares
\* by their products with those to the new one.
Batch(sd, times) ==
    LET count == sd.resultCount + maxResults
        oldDiffs == [i \in 1 .. maxResults |-> times[i] - sd.mean]
        mean == sd.mean + Total(oldDiffs) \div count
    IN  [mean |-> mean, resultCount |-> count, times |-> <<>>,
         sqDiff |-> sd.sqDiff + Deviations(times, sd.mean, mean)]

Calculate(sd, time) ==
    LET times == Append(sd.times, time)
    IN  IF Len(times) = maxResults THEN Batch(sd, times) ELSE [sd EXCEPT !.times = times]

\* The time is n deviations or more, or more than n deviations, off the mean.
AtLeast(sd, off, n) == off >= 0 /\ off * off * sd.resultCount >= n * n * sd.sqDiff
MoreThan(sd, off, n) == off > 0 /\ off * off * sd.resultCount > n * n * sd.sqDiff

\* What the mean and deviation, with this time taken in, say of it.
Status(sd, time) ==
    IF sd.mean = 0 THEN "NORMAL"
    ELSE IF AtLeast(sd, sd.mean - time, nSDHigh) THEN "FAST"
    ELSE IF MoreThan(sd, time - sd.mean, nSDLow) THEN "TOOSLOW"
    ELSE "NORMAL"

=============================================================================
