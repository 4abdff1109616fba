---------------------------- MODULE SampleStats ----------------------------
(***************************************************************************)
(* The pure functions of tsn_analysis/metrics.py and stats.py.  A sample   *)
(* is a sequence of integers; statistics of it are in thousandths, so that *)
(* numpy's linear interpolation is exact, and q is in thousandths too      *)
(* (p99.9 is 999).  What would be a ratio of integers is kept as [num,     *)
(* den]; where only definedness matters, a standard deviation is the sum   *)
(* of squares it is the root of (spread).                                  *)
(***************************************************************************)
EXTENDS Integers, SequencesExt

CONSTANTS
    NaN,     \* float("nan")
    None,    \* Python's None
    Quantiles \* float(name[1:]) of the names "p..." there are, in thousandths

Milli == 1000

ASSUME QuantilesAssumption ==
    /\ \A name \in DOMAIN Quantiles : Quantiles[name] \in 0 .. Milli
    /\ {"p50", "p99"} \subseteq DOMAIN Quantiles
    /\ Quantiles["p50"] = 500 /\ Quantiles["p99"] = 990
    /\ DOMAIN Quantiles \cap {"mean", "median", "max", "min", "std"} = {}

ASSUME NaNAssumption ==
    /\ NaN \notin Int /\ None \notin Int /\ NaN # None
    /\ NaN \notin [num : Int, den : Int] /\ None \notin [num : Int, den : Int]

\* sorted(): place k holds the value with fewer than k values below it and at
\* least k that are not above it.
sorted(x) ==
    [k \in 1 .. Len(x) |->
        CHOOSE v \in Range(x) :
            /\ Cardinality({i \in DOMAIN x : x[i] < v}) < k
            /\ Cardinality({i \in DOMAIN x : x[i] <= v}) >= k]

\* The sum of a sequence, from the left.
Total(x) ==
    LET len == Len(x)
        s[n \in 0 .. len] == IF n = 0 THEN 0 ELSE s[n - 1] + x[n]
    IN  s[len]

\* numpy.unique(return_counts=True) of the values at the places I.
Histogram(x, I) == [v \in {x[i] : i \in I} |-> Cardinality({i \in I : x[i] = v})]

-----------------------------------------------------------------------------
(* What listener.py and talker.py print of a sorted sample *)

printed_p50(x) == Milli * sorted(x)[Len(x) \div 2 + 1]
printed_p99(x) == Milli * sorted(x)[(Len(x) * 99) \div 100 + 1]

-----------------------------------------------------------------------------
(* metrics.py *)

\* numpy.percentile(..., method="linear") of a sample that is not empty.
InterpolatedN(x, q) ==              \* mutant: positions 0..n instead of 0..n-1
    LET s == sorted(x)
        h == Len(x) * q
        i == IF h \div Milli + 1 > Len(x) THEN Len(x) ELSE h \div Milli + 1
    IN  Milli * s[i]
Interpolated(x, q) ==
    LET s == sorted(x)
        h == (Len(x) - 1) * q
        i == h \div Milli + 1
        g == h % Milli
    IN  Milli * s[i] + (IF g = 0 THEN 0 ELSE g * (s[i + 1] - s[i]))

percentile(x, q) == IF x = <<>> THEN NaN ELSE Interpolated(x, q)

\* Proportional to the sample variance; ddof=1 makes it nan below two values.
spread(x) ==
    IF Len(x) < 2 THEN NaN
    ELSE Len(x) * Total([i \in DOMAIN x |-> x[i] * x[i]])
             - Total(x) * Total(x)

distribution_summary(x) ==
    IF x = <<>>
    THEN [n |-> 0, min |-> NaN, p50 |-> NaN, p90 |-> NaN, p99 |-> NaN, p999 |-> NaN,
          max |-> NaN, mean |-> NaN, std |-> NaN]
    ELSE [n    |-> Len(x),
          min  |-> Milli * Min(Range(x)),
          p50  |-> percentile(x, 500), p90  |-> percentile(x, 900),
          p99  |-> percentile(x, 990), p999 |-> percentile(x, 999),
          max  |-> Milli * Max(Range(x)),
          mean |-> (Milli * Total(x)) \div Len(x),
          std  |-> spread(x)]

\* The first row of a run has no packet before it.
jitter_values(j) ==
    [i \in 1 .. (Len(j) - 1) |-> IF j[i + 1] < 0 THEN -j[i + 1] ELSE j[i + 1]]

\* numpy.unique is ascending, so argmax takes the lowest of equally frequent
\* values.
dscp_distribution(tos) ==
    LET valid == {i \in DOMAIN tos : tos[i] >= 0}
        dscp == Histogram([i \in DOMAIN tos |-> tos[i] \div 4], valid)
    IN  [dscp     |-> dscp,
         ecn      |-> Histogram([i \in DOMAIN tos |-> tos[i] % 4], valid),
         tos      |-> Histogram(tos, valid),
         missing  |-> Len(tos) - Cardinality(valid),
         dominant |-> IF valid = {} THEN None
                      ELSE Min({v \in DOMAIN dscp : \A w \in DOMAIN dscp : dscp[w] <= dscp[v]})]

-----------------------------------------------------------------------------
(* stats.py *)

\* numpy.std(ddof=1), rounded down like the mean: the largest number whose square
\* is not above the variance.  It is never above the width of the sample.
deviation(x) ==
    LET n == Len(x)
        width == Milli * (Max(Range(x)) - Min(Range(x)))
        fits(r) == r * r * n * (n - 1) <= Milli * Milli * spread(x)
    IN  IF n < 2 THEN NaN
        ELSE CHOOSE r \in 0 .. width : (r = 0 \/ fits(r)) /\ (r = width \/ ~fits(r + 1))

\* Names that resolve_statistic() accepts, in lower case.
Statistics == DOMAIN Quantiles \cup {"mean", "median", "max", "min", "std"}

Statistic(stat, x) ==
    CASE stat \in DOMAIN Quantiles -> Interpolated(x, Quantiles[stat])
      [] stat = "mean"             -> (Milli * Total(x)) \div Len(x)
      [] stat = "median"           -> Interpolated(x, 500)
      [] stat = "max"              -> Milli * Max(Range(x))
      [] stat = "min"              -> Milli * Min(Range(x))
      [] stat = "std"              -> deviation(x)

\* numpy.searchsorted: a place where v could go; only defined on a sorted s.
searchsorted_left(s, v) ==
    LET n == Len(s)
    IN  CHOOSE i \in 0 .. n : (i = 0 \/ s[i] < v) /\ (i = n \/ s[i + 1] >= v)
searchsorted_right(s, v) ==
    LET n == Len(s)
    IN  CHOOSE i \in 0 .. n : (i = 0 \/ s[i] <= v) /\ (i = n \/ s[i + 1] > v)

cliffs_deltaLeft(a, b) ==           \* mutant: ties count as larger
    LET s == sorted(b)
        less == [i \in DOMAIN a |-> searchsorted_left(s, a[i])]
        greater == [i \in DOMAIN a |-> Len(s) - searchsorted_left(s, a[i])]
    IN  IF a = <<>> \/ b = <<>> THEN NaN
        ELSE [num |-> Total(less) - Total(greater), den |-> Len(a) * Len(b)]
cliffs_delta(a, b) ==
    LET s == sorted(b)
        less == [i \in DOMAIN a |-> searchsorted_left(s, a[i])]
        greater == [i \in DOMAIN a |-> Len(s) - searchsorted_right(s, a[i])]
    IN  IF a = <<>> \/ b = <<>> THEN NaN
        ELSE [num |-> Total(less) - Total(greater), den |-> Len(a) * Len(b)]

\* Twice U: the rank sum of a, tied values sharing their ranks.
mann_whitney(a, b) ==
    LET all == a \o b
        rank2(v) == 2 * Cardinality({i \in DOMAIN all : all[i] < v})
                      + Cardinality({i \in DOMAIN all : all[i] = v}) + 1
    IN  IF a = <<>> \/ b = <<>> THEN NaN
        ELSE Total([i \in DOMAIN a |-> rank2(a[i])]) - Len(a) * (Len(a) + 1)

describe_delta(delta) ==
    IF delta = NaN THEN "n/a"
    ELSE LET d == (IF delta.num < 0 THEN -delta.num ELSE delta.num) * Milli
         IN  IF d < 147 * delta.den THEN "negligible"
             ELSE IF d < 330 * delta.den THEN "small"
             ELSE IF d < 474 * delta.den THEN "medium"
             ELSE "large"

improvement(b, p) ==
    IF b = NaN \/ b = 0 \/ p = NaN THEN NaN
    ELSE [num |-> 100 * (b - p), den |-> IF b < 0 THEN -b ELSE b]

\* numpy.percentile of an empty axis raises IndexError.
RaisesIndexError(samples) == \E i \in DOMAIN samples : samples[i] = <<>>

\* The t-interval needs three runs; its half width is proportional to the root
\* of the spread.
per_run_aggregate(samples) ==
    LET per_run == [i \in DOMAIN samples |-> Interpolated(samples[i], 990)]
        n == Len(per_run)
    IN  [n_runs |-> n,
         mean   |-> Total(per_run) \div n,
         std    |-> spread(per_run),
         ci     |-> IF n >= 3 THEN spread(per_run) ELSE NaN]
=============================================================================
