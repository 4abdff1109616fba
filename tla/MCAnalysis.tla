---------------------------- MODULE MCAnalysis ----------------------------
(***************************************************************************)
(* TLC instance of Analysis and of Comparison.  A behaviour is either a    *)
(* command for a results directory of up to three files, or a single call  *)
(* of compare().                                                           *)
(***************************************************************************)
EXTENDS Analysis, Comparison

MCIntOf == [d \in {"1", "01", "2", "10"} |->
               CASE d = "1" -> 1 [] d = "01" -> 1 [] d = "2" -> 2 [] d = "10" -> 10]

MCQuantiles ==
    [name \in {"p50", "p90", "p99", "p999"} |->
        CASE name = "p50" -> 500 [] name = "p90" -> 900 [] name = "p99" -> 990 [] name = "p999" -> 999]

-----------------------------------------------------------------------------
(* Commands *)

\* In the order of sorted(Path.glob("*.csv")): '.' < digits < '_' < letters.
Stems ==
    <<<<"_run", "1">>, <<"fifo">>, <<"fifo", "_run", "1">>, <<"fifo", "_run", "10">>,
      <<"fifo", "_run", "1", "_run", "2">>, <<"fifo", "_run", "2">>,
      <<"a", "_run", "01">>, <<"a", "_run", "1">>, <<"prio_clsf", "_run", "1">>>>
MCAlphabetical ==
    <<<<"_run", "1">>, <<"a">>, <<"fifo">>, <<"fifo", "_run", "1">>, <<"prio_clsf">>>>

ARow(s, t, l, j, o, w) ==
    [seq |-> s, send |-> [val |-> t, digits |-> t \notin {22, 42, 43}],
     latency |-> l, jitter |-> j, tos |-> o, width |-> w]
\* Stamps in scientific notation: 43 is nearer the float above it, 42 and 22 are
\* between two floats, and the even one is below 42 and above 22.
WithTos == REQUIRED_COLUMNS \cup {"tos"}
File(header, rows) == [header |-> header, rows |-> rows]

\* Loss before the first row and in the middle, a duplicate, a late row, a tie of
\* two DSCPs, a latency below zero (a stepped clock) and zero, missing TOS.
Lossy == File(WithTos, <<ARow(1, 11, 4, 0, 184, 7), ARow(3, 12, 0, -3, 0, 7), ARow(3, 13, -1, 2, 184, 7)>>)
Late  == File(WithTos, <<ARow(2, 21, 0, 0, 0, 7), ARow(0, 22, 0, 3, 184, 7)>>)
One   == File(REQUIRED_COLUMNS, <<ARow(0, 31, 2, 0, -1, 6)>>)
NoTos == File(WithTos, <<ARow(0, 42, 5, 0, -1, 6), ARow(1, 43, 6, 1, -1, 6)>>)
Short == File(WithTos, <<ARow(0, 51, 2, 0, 0, 7), ARow(1, 52, 2, 0, 0, 4)>>)
Header == File(WithTos \ {"jitter_us"}, <<ARow(0, 61, 2, 0, 0, 7)>>)
NoRows == File(WithTos, <<>>)

Contents == {Lossy, Late, One, NoTos, Short, Header, NoRows}

\* Directories holding these stems, each with one of these contents.
Directory(S, f) ==
    LET at == SetToSortSeq(S, <)
    IN  [i \in DOMAIN at |-> [stem |-> Stems[at[i]], header |-> f[at[i]].header, rows |-> f[at[i]].rows]]
DirsOf(Sets, C) == UNION {{Directory(S, f) : f \in [S -> C]} : S \in Sets}

Summary(baseline, md, js) == [cmd |-> "summary", baseline |-> baseline, markdown |-> md, json |-> js]
Cmp(first, second, m, s) ==
    [cmd |-> "compare", baseline |-> first, against |-> second, metric |-> m, stat |-> s]
Plot == [cmd |-> "plot"]

Summaries ==
    {Summary(None, "f", "f"), Summary(None, None, None), Summary(<<"prio_clsf">>, None, "-"),
     Summary(None, "-", "-"), Summary(<<"nope">>, "f", "-")}
Others2 ==
    {Plot} \cup {Cmp(<<"fifo">>, <<"a">>, m, s) :
                     m \in {"latency", "jitter"}, s \in {"p99", "mean", "std", "bogus"}}

Pairs == [dir : DirsOf({S \in SUBSET DOMAIN Stems : Cardinality(S) = 2}, {Lossy, Late, One, NoTos}),
          args : {Summary(None, "f", "f"), Plot}]
Singles == [dir : {NoDir} \cup DirsOf({{}, {3}, {8}, {9}, {3, 8}, {3, 9}}, Contents), args : Summaries \cup Others2]
Triples == [dir : DirsOf({{3, 4, 6}, {2, 5, 6}, {3, 7, 8}, {1, 6, 9}}, {Lossy, Late, NoTos}),
            args : {Summary(None, "f", "f"), Plot}]

MCInputs == Pairs \cup Singles \cup Triples

-----------------------------------------------------------------------------
(* Calls of compare() *)

\* All pairs of samples of up to three values, signs and ties included.
SmallSamples ==
    [base : BoundedSeq({-1, 0, 2}, 3), prop : BoundedSeq({-1, 0, 2}, 3),
     stat : {"p50"}, n_boot : {0}]

\* Order statistics are decided on samples of two levels; the sizes lie around
\* the one where the 99th percentile leaves the last gap, the change of level
\* within two places of a quantile or of an end.
Changes(n) == {k \in 0 .. n : \E q \in {0, 500, 900, 1000} : 1000 * k - n * q \in -2000 .. 2000}
TwoLevel ==
    UNION {[base : {[i \in 1 .. n |-> IF i <= k THEN 0 ELSE 1] : k \in Changes(n)},
            prop : {<<0>>}, stat : {"p99"}, n_boot : {0}] : n \in {1, 2, 10, 99, 100, 101, 102}}

\* The loop: fewer, as many and more resamples than a chunk holds.
Resampling ==
    [base : {<<>>, <<3>>, <<4, 0>>, <<0, 1, 5>>}, prop : {<<3>>, <<2, -2>>},
     stat : {"p90", "p99", "p999", "median", "mean", "max", "min", "std"}, n_boot : {1, 2, 3}]

BadName == [base : {<<>>, <<1>>}, prop : {<<>>, <<1>>}, stat : {"p50x"}, n_boot : {1}]

\* A deviation that lies outside of its sample.
Apart == [base : {<<100, 101>>}, prop : {<<100>>}, stat : {"std"}, n_boot : {0, 2}]

MCArguments == SmallSamples \cup TwoLevel \cup Resampling \cup BadName \cup Apart

-----------------------------------------------------------------------------
(* Either the one or the other; what is not run stays at its beginning. *)

VARIABLE calling

NoCall == [base |-> <<>>, prop |-> <<>>, stat |-> "p50", n_boot |-> 0]
NoCalls == {NoCall}
MCInit ==
    \/ calling = TRUE /\ dir = NoDir /\ args = Plot /\ Init /\ CompareInit
    \/ calling = FALSE /\ in = NoCall /\ CompareInit /\ Init

commandIdle == <<vars, calling>>
callIdle == <<compareVars, calling>>

\* compare() has returned or raised.
Returned == stage \in {"done", "raised"} /\ UNCHANGED compareVars

MCNext ==
    \/ calling /\ Empty /\ UNCHANGED commandIdle
    \/ calling /\ UnknownStatistic /\ UNCHANGED commandIdle
    \/ calling /\ PointOnly /\ UNCHANGED commandIdle
    \/ calling /\ StartLoop /\ UNCHANGED commandIdle
    \/ calling /\ Resample /\ UNCHANGED commandIdle
    \/ calling /\ EndLoop /\ UNCHANGED commandIdle
    \/ calling /\ Interval /\ UNCHANGED commandIdle
    \/ calling /\ Tests /\ UNCHANGED commandIdle
    \/ calling /\ Returned /\ UNCHANGED commandIdle
    \/ ~calling /\ NoDirectory /\ UNCHANGED callIdle
    \/ ~calling /\ Main /\ UNCHANGED callIdle
    \/ ~calling /\ LoadFails /\ UNCHANGED callIdle
    \/ ~calling /\ Load /\ UNCHANGED callIdle
    \/ ~calling /\ Build /\ UNCHANGED callIdle
    \/ ~calling /\ NoBaseline /\ UNCHANGED callIdle
    \/ ~calling /\ ChooseBaseline /\ UNCHANGED callIdle
    \/ ~calling /\ SummariseRaises /\ UNCHANGED callIdle
    \/ ~calling /\ Summarise /\ UNCHANGED callIdle
    \/ ~calling /\ Compare /\ UNCHANGED callIdle
    \/ ~calling /\ Rendered /\ UNCHANGED callIdle
    \/ ~calling /\ EmitMarkdown /\ UNCHANGED callIdle
    \/ ~calling /\ EmitJson /\ UNCHANGED callIdle
    \/ ~calling /\ NothingToPlot /\ UNCHANGED callIdle
    \/ ~calling /\ PlotPercentiles /\ UNCHANGED callIdle
    \/ ~calling /\ PlotCdf /\ UNCHANGED callIdle
    \/ ~calling /\ NotFound /\ UNCHANGED callIdle
    \/ ~calling /\ BadStatistic /\ UNCHANGED callIdle
    \/ ~calling /\ CompareTwo /\ UNCHANGED callIdle
    \/ ~calling /\ Terminated /\ UNCHANGED callIdle

MCSpec == MCInit /\ [][MCNext]_<<vars, compareVars, calling>>
=============================================================================
