---------------------------- MODULE Comparison ----------------------------
(***************************************************************************)
(* compare() of tsn_analysis/stats.py: a bootstrap interval for each of    *)
(* two samples, filled chunk by chunk into an array that np.empty() leaves *)
(* uninitialised, then the rank test and the effect size.  The random      *)
(* generator is a free choice of every resample.                           *)
(***************************************************************************)
EXTENDS SampleStats

CONSTANTS
    Arguments, \* [base, prop: samples, stat: name, n_boot: Int]
    Chunk,     \* resamples drawn at once
    Alpha,     \* (1 - ci) / 2 in thousandths
    Garbage    \* content of memory that was never written

ASSUME ComparisonAssumption ==
    /\ \A in \in Arguments : /\ in.base \in Seq(Int) /\ in.prop \in Seq(Int)
                             /\ in.stat \in STRING /\ in.n_boot \in Int
    /\ Chunk \in Nat \ {0} /\ Alpha \in 0 .. 500
    /\ Garbage \notin Int /\ Garbage # NaN

VARIABLES
    in,        \* the arguments
    stage,     \* "begin", "resample", "interval", "tests", "done" or "raised"
    side,      \* "base" or "prop", whose interval is being computed
    boots, done,
    b, p,      \* [point, low, high] of each side; low and high in Milli^2
    result     \* what compare() returns

loop == <<boots, done>>
compareVars == <<in, stage, side, loop, b, p, result>>

NoInterval == [point |-> NaN, low |-> NaN, high |-> NaN]

CompareInit ==
    /\ in \in Arguments
    /\ stage = "begin" /\ side = "base"
    /\ boots = <<>> /\ done = 0
    /\ b = NoInterval /\ p = NoInterval
    /\ result = None

x == IF side = "base" THEN in.base ELSE in.prop
point == Statistic(in.stat, x)

\* bootstrap_ci() returns an interval for this side, and compare() goes on.
Return(ci) ==
    /\ boots' = <<>> /\ done' = 0
    /\ IF side = "base"
       THEN b' = ci /\ side' = "prop" /\ stage' = "begin" /\ UNCHANGED p
       ELSE p' = ci /\ stage' = "tests" /\ UNCHANGED <<side, b>>
    /\ UNCHANGED <<in, result>>

Empty ==
    /\ stage = "begin" /\ x = <<>>
    /\ Return(NoInterval)

\* resolve_statistic()
UnknownStatistic ==
    /\ stage = "begin" /\ x # <<>> /\ in.stat \notin Statistics
    /\ stage' = "raised"
    /\ UNCHANGED <<in, side, loop, b, p, result>>

\* A statistic in the unit of interval bounds; "std" of one value is nan.
Scaled(v) == IF v = NaN THEN NaN ELSE v * Milli

PointOnly ==
    /\ stage = "begin" /\ x # <<>> /\ in.stat \in Statistics
    /\ Len(x) = 1 \/ in.n_boot <= 0
    /\ Return([point |-> point, low |-> Scaled(point), high |-> Scaled(point)])

StartLoop ==
    /\ stage = "begin" /\ in.stat \in Statistics
    /\ Len(x) > 1 /\ in.n_boot > 0
    /\ boots' = [i \in 1 .. in.n_boot |-> Garbage]
    /\ done' = 0
    /\ stage' = "resample"
    /\ UNCHANGED <<in, side, b, p, result>>

\* What the statistic of a resample with replacement can be.
Resampled == {Statistic(in.stat, r) : r \in [DOMAIN x -> Range(x)]}

NextDone(k) == done + k

Resample ==
    /\ stage = "resample" /\ done < in.n_boot
    /\ LET k == IF Chunk < in.n_boot - done THEN Chunk ELSE in.n_boot - done
       IN  /\ \E draws \in [1 .. k -> Resampled] :
                  boots' = [i \in DOMAIN boots |->
                               IF i \in (done + 1) .. (done + k) THEN draws[i - done] ELSE boots[i]]
           /\ done' = NextDone(k)
    /\ UNCHANGED <<in, stage, side, b, p, result>>

EndLoopWhole ==         \* mutant: the loop ends with the last whole chunk
    /\ stage = "resample" /\ done > in.n_boot - Chunk
    /\ stage' = "interval"
    /\ UNCHANGED <<in, side, loop, b, p, result>>
EndLoop ==
    /\ stage = "resample" /\ done >= in.n_boot
    /\ stage' = "interval"
    /\ UNCHANGED <<in, side, loop, b, p, result>>

Interval ==
    /\ stage = "interval"
    /\ Return([point |-> point, low |-> Interpolated(boots, Alpha),
               high |-> Interpolated(boots, Milli - Alpha)])

Tests ==
    /\ stage = "tests"
    /\ result' = [improvement |-> improvement(b.point, p.point),
                  u           |-> mann_whitney(in.base, in.prop),
                  delta       |-> cliffs_delta(in.base, in.prop),
                  effect      |-> describe_delta(cliffs_delta(in.base, in.prop))]
    /\ stage' = "done"
    /\ UNCHANGED <<in, side, loop, b, p>>

CompareNext ==
    \/ Empty \/ UnknownStatistic \/ PointOnly \/ StartLoop
    \/ Resample \/ EndLoop \/ Interval \/ Tests

\* A function that is called runs.
CompareSpec == CompareInit /\ [][CompareNext]_compareVars

-----------------------------------------------------------------------------
(* Properties *)

\* Types.  The loop never writes past the array.
BootTypes ==
    /\ in \in Arguments /\ side \in {"base", "prop"}
    /\ stage \in {"begin", "resample", "interval", "tests", "done", "raised"}
    /\ done \in 0 .. Len(boots)
    /\ boots \in Seq(Int \cup {Garbage})

\* bootstrap_ci() never takes percentiles of memory it did not write, whatever
\* n_boot and the chunk size are.
SlotsFilled == stage = "interval" => \A i \in DOMAIN boots : boots[i] # Garbage

\* A confidence interval is ordered, and undefined together with its point:
\* exactly for an empty sample, and for the deviation of a single value.  That
\* of a statistic of location lies within the range of the sample; a deviation,
\* which need not, is not negative.
Undetermined(s) == Len(s) < (IF in.stat = "std" THEN 2 ELSE 1)
Within(ci, s) ==
    /\ (ci.point = NaN) = Undetermined(s)
    /\ (ci.low = NaN) = Undetermined(s)
    /\ (ci.high = NaN) = Undetermined(s)
    /\ ~Undetermined(s) =>
           /\ ci.low <= ci.high
           /\ IF in.stat = "std" THEN 0 <= ci.low
              ELSE /\ Milli * Milli * Min(Range(s)) <= ci.low
                   /\ ci.high <= Milli * Milli * Max(Range(s))
IntervalsConsistent == stage = "done" => Within(b, in.base) /\ Within(p, in.prop)

\* The sort-and-search computation of cliffs_delta() is its definition over all
\* pairs, and consistent with the U statistic printed next to it.
Above(s, t) == Cardinality({ij \in (DOMAIN s) \X (DOMAIN t) : s[ij[1]] > t[ij[2]]})
DeltaByPairs ==
    result # None /\ result.delta # NaN =>
        /\ result.delta.num = Above(in.base, in.prop) - Above(in.prop, in.base)
        /\ result.delta.num = result.u - result.delta.den

\* Swapping the two conditions changes the sign of the effect and never its
\* label.
EffectSymmetric ==
    result # None /\ result.delta # NaN =>
        LET back == cliffs_delta(in.prop, in.base)
        IN  back.num = -result.delta.num /\ describe_delta(back) = result.effect

\* The reported improvement is positive exactly when the proposed side is
\* lower, on negative baselines too, and undefined when there is nothing to
\* divide by.
ImprovementSign ==
    result # None =>
        IF b.point = NaN \/ p.point = NaN \/ b.point = 0 THEN result.improvement = NaN
        ELSE (result.improvement.num * result.improvement.den > 0) = (p.point < b.point)

\* The percentile of the analysis is the inverse of the interpolated cumulative
\* distribution, stated without sorting: every unit between the lowest and the
\* highest value counts by how far the virtual index (n - 1) * q has moved into
\* the gap between the values at most t and those above.
ByUnits(s, q) ==
    LET into(t) == (Len(s) - 1) * q - (Cardinality({i \in DOMAIN s : s[i] <= t}) - 1) * Milli
        part(t) == IF into(t) < 0 THEN 0 ELSE IF into(t) > Milli THEN Milli ELSE into(t)
        lo == Min(Range(s))
        units == [u \in 1 .. (Max(Range(s)) - lo) |-> part(lo + u - 1)]
    IN  Milli * lo + Total(units)
PercentileByUnits ==
    stage = "begin" /\ in.base # <<>> =>
        \A q \in {500, 900, 990, 999} : percentile(in.base, q) = ByUnits(in.base, q)

\* What listener.py and talker.py print as p50 and p99 of a run is never below
\* what the analysis reports for it (both index into the sorted sample), and
\* the summary of the analysis is ordered.
PrintedNotBelow ==
    stage = "begin" /\ in.base # <<>> =>
        LET d == distribution_summary(in.base)
        IN  /\ printed_p50(in.base) \in d.p50 .. d.max
            /\ printed_p99(in.base) \in d.p99 .. d.max
            /\ d.min <= d.p50 /\ d.p50 <= d.p90 /\ d.p90 <= d.p99
            /\ d.p99 <= d.p999 /\ d.p999 <= d.max


\* The interval of bootstrap_ci() is made of memory the loop has written, within
\* its bounds, is there whenever the statistic is, and lies where it can.
IntervalSound == BootTypes /\ SlotsFilled /\ IntervalsConsistent

\* The effect compare() reports is the one its name promises, and does not depend
\* on which side is called the baseline.
EffectSound == DeltaByPairs /\ EffectSymmetric /\ ImprovementSign

\* The percentile of the analysis is what it should be, and consistent with the
\* one the workload prints.
PercentilesAgree == PercentileByUnits /\ PrintedNotBelow
=============================================================================
