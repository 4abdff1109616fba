------------------------------ MODULE Dataset ------------------------------
(***************************************************************************)
(* From the CSV files of a results directory to the tables of a report:    *)
(* loader.py, dataset.py and the aggregation in report.py, as operators.   *)
(*                                                                         *)
(* A file is [stem, header, rows]; its stem is a sequence of tokens,       *)
(* <<"fifo", "_run", "10">>, and so is a condition.  A row is [seq, send,  *)
(* latency, jitter, tos, width], width being the number of cells it has.   *)
(***************************************************************************)
EXTENDS SampleStats, LossSummary

CONSTANTS
    IntOf,        \* int() of the tokens that are digit strings
    Alphabetical, \* all conditions, in the order of their names
    FloatStep     \* distance of two floats at an epoch time in ns (256)

ASSUME DatasetAssumption ==
    /\ FloatStep \in Nat \ {0} /\ Alphabetical \in Seq(Seq(STRING))
    /\ \A k \in DOMAIN IntOf : IntOf[k] \in Nat

-----------------------------------------------------------------------------
(* loader.py *)

REQUIRED_COLUMNS == {"seq", "send_ns", "recv_ns", "latency_ms", "jitter_us", "pkt_size"}

\* ^(.+?)_run(\d+)$; a stem without it is a condition of its own, index None.
parse_name(stem) ==
    LET n == Len(stem)
    IN  IF n >= 3 /\ stem[n - 1] = "_run" /\ stem[n] \in DOMAIN IntOf
        THEN [condition |-> SubSeq(stem, 1, n - 2), k |-> IntOf[stem[n]]]
        ELSE [condition |-> stem, k |-> None]

\* A digit string is exact; anything else becomes the nearest float, and of two
\* equally near ones the even one.
_to_int(cell) ==
    LET k == cell.val \div FloatStep
        above == cell.val - k * FloatStep
        up == 2 * above > FloatStep \/ (2 * above = FloatStep /\ k % 2 = 1)
    IN  IF cell.digits THEN cell.val ELSE IF up THEN (k + 1) * FloatStep ELSE k * FloatStep

\* DictReader fills the columns a short row lacks with None, which load_csv()
\* turns into "": an error in a required column, -1 in tos, the last one.
Malformed(f) ==
    \/ ~(REQUIRED_COLUMNS \subseteq f.header)
    \/ f.rows = <<>>
    \/ \E i \in DOMAIN f.rows : f.rows[i].width < Cardinality(REQUIRED_COLUMNS)

load_csv(f) ==
    LET column(Get(_)) == [i \in DOMAIN f.rows |-> Get(f.rows[i])]
        parsed == parse_name(f.stem)
    IN  [name       |-> f.stem,
         condition  |-> parsed.condition,
         run_index  |-> parsed.k,
         seq        |-> column(LAMBDA r : r.seq),
         send_ns    |-> column(LAMBDA r : _to_int(r.send)),
         latency_ms |-> column(LAMBDA r : r.latency),
         jitter_us  |-> column(LAMBDA r : r.jitter),
         tos        |-> IF "tos" \notin f.header THEN None
                        ELSE column(LAMBDA r :
                                 IF r.width > Cardinality(REQUIRED_COLUMNS) THEN r.tos ELSE -1)]

\* The elements of S, in the order that the pairs of before say.
InOrder(S, before) ==
    [k \in 1 .. Cardinality(S) |->
        CHOOSE s \in S : Cardinality({t \in S : <<t, s>> \in before}) = k - 1]

\* runs.sort(): stable, a file without an index first.  I are the places of the
\* runs of one condition.
SortKey(r) == IF r.run_index = None THEN -1 ELSE r.run_index
BeforeByName(runs, I) ==              \* mutant: left in the order of the names
    {ij \in I \X I : ij[1] < ij[2]}
Before(runs, I) ==
    {ij \in I \X I : \/ SortKey(runs[ij[1]]) < SortKey(runs[ij[2]])
                     \/ SortKey(runs[ij[1]]) = SortKey(runs[ij[2]]) /\ ij[1] < ij[2]}
RunOrder(runs, I) ==
    LET order == InOrder(I, Before(runs, I)) IN [k \in DOMAIN order |-> runs[order[k]]]

discover(runs) ==
    [c \in {runs[i].condition : i \in DOMAIN runs} |->
        RunOrder(runs, {i \in DOMAIN runs : runs[i].condition = c})]

-----------------------------------------------------------------------------
(* dataset.py *)

CONDITION_ORDER ==
    <<<<"fifo">>, <<"fq_codel">>, <<"pfifo_fast_noclsf">>, <<"pfifo_fast_clsf">>, <<"prio_clsf">>>>

Position(s, e) == CHOOSE i \in DOMAIN s : s[i] = e

_order(c) ==
    IF c \in Range(CONDITION_ORDER) THEN Position(CONDITION_ORDER, c)
    ELSE Len(CONDITION_ORDER) + Position(Alphabetical, c)

Names(S) == InOrder(S, {cd \in S \X S : _order(cd[1]) < _order(cd[2])})

latency_ms(runs) == FlattenSeq([i \in DOMAIN runs |-> runs[i].latency_ms])
jitter_us(runs) == FlattenSeq([i \in DOMAIN runs |-> jitter_values(runs[i].jitter_us)])

-----------------------------------------------------------------------------
(* report.py: tables *)

BaselineMissing(names, requested) ==
    IF requested # None THEN ~Contains(names, requested) ELSE names = <<>>
choose_baseline(names, requested) ==
    IF requested # None THEN requested ELSE names[1]

_aggregate_lossPooled(runs) ==        \* mutant: the runs' numbers are taken together
    LET all == FlattenSeq([i \in DOMAIN runs |-> runs[i].seq])
    IN  [k \in {"expected", "lost", "duplicates", "reorders"} |-> loss_summary(all)[k]]
            @@ [received |-> Len(all), loss_pct |-> 0]
_aggregate_loss(runs) ==
    LET per_run == [i \in DOMAIN runs |-> loss_summary(runs[i].seq)]
        total(k) == Total([i \in DOMAIN runs |-> per_run[i][k]])
    IN  [expected   |-> total("expected"),
         received   |-> Total([i \in DOMAIN runs |-> Len(runs[i].seq)]),
         lost       |-> total("lost"),
         duplicates |-> total("duplicates"),
         reorders   |-> total("reorders"),
         loss_pct   |-> IF total("expected") = 0 THEN NaN
                        ELSE (100 * total("lost")) \div total("expected")]

\* merged[field] is a dict in order of insertion: run after run, ascending
\* within a run; max() takes its first key with the highest count.
_aggregate_dscp(runs) ==
    LET with == {i \in DOMAIN runs : runs[i].tos # None}
        d == [i \in with |-> dscp_distribution(runs[i].tos)]
        counts(i, f, v) == IF i \in with /\ v \in DOMAIN d[i][f] THEN d[i][f][v] ELSE 0
        Merged(f) == [v \in UNION {DOMAIN d[i][f] : i \in with} |->
                         Total([i \in DOMAIN runs |-> counts(i, f, v)])]
        dscp == Merged("dscp")
        since(v) == Min({i \in with : v \in DOMAIN d[i].dscp})
        before(v, w) == since(v) < since(w) \/ (since(v) = since(w) /\ v < w)
        modes == {v \in DOMAIN dscp : \A w \in DOMAIN dscp : dscp[w] <= dscp[v]}
    IN  IF with = {} THEN <<>>      \* None: no table
        ELSE [dscp     |-> dscp,
              ecn      |-> Merged("ecn"),
              tos      |-> Merged("tos"),
              missing  |-> Total([i \in DOMAIN runs |-> IF i \in with THEN d[i].missing ELSE 0]),
              dominant |-> IF modes = {} THEN None
                           ELSE CHOOSE v \in modes : \A w \in modes \ {v} : before(v, w)]

JitterSamples(runs) == [i \in DOMAIN runs |-> jitter_values(runs[i].jitter_us)]

\* per_run_aggregate() of the jitter does not go through percentile().
CellRaises(runs) == Len(runs) > 1 /\ RaisesIndexError(JitterSamples(runs))

cell_summary(c, runs) ==
    [condition |-> c,
     n_runs    |-> Len(runs),
     latency   |-> distribution_summary(latency_ms(runs)),
     jitter    |-> distribution_summary(jitter_us(runs)),
     loss      |-> _aggregate_loss(runs),
     dscp      |-> _aggregate_dscp(runs),
     per_run   |-> IF Len(runs) <= 1 THEN <<>>
                   ELSE [latency_p99 |-> per_run_aggregate([i \in DOMAIN runs |-> runs[i].latency_ms]),
                         jitter_p99  |-> per_run_aggregate(JitterSamples(runs))]]

Point(stat, x) == IF x = <<>> THEN NaN ELSE Statistic(stat, x)

\* stats.compare(), without the intervals of Comparison.
compare(b, p, stat) ==
    [baseline    |-> Point(stat, b),
     proposed    |-> Point(stat, p),
     improvement |-> improvement(Point(stat, b), Point(stat, p)),
     u           |-> mann_whitney(b, p),
     delta       |-> cliffs_delta(b, p)]

compare_cells(b, o) ==
    [latency_p50 |-> compare(latency_ms(b), latency_ms(o), "p50"),
     latency_p99 |-> compare(latency_ms(b), latency_ms(o), "p99"),
     jitter_p99  |-> compare(jitter_us(b), jitter_us(o), "p99")]
=============================================================================
