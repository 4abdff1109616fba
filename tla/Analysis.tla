------------------------------ MODULE Analysis ------------------------------
(***************************************************************************)
(* tsn-analysis summary|plot|compare DIR, as cli.py runs it: read every    *)
(* CSV, build the dataset, compute and emit, and turn errors into an exit  *)
(* status.                                                                 *)
(***************************************************************************)
EXTENDS Dataset

CONSTANTS
    Inputs,       \* [dir: the files in glob order, or NoDir; args: command line]
    NoDir         \* there is no such directory

\* What the listener writes: the rows of a CSV, and no two files of one name.
Row == [seq : Nat, send : [val : Int, digits : BOOLEAN], latency : Int, jitter : Int,
        tos : -1 .. 255, width : Nat]
ASSUME AnalysisAssumption ==
    /\ None # "-"
    /\ \A in \in Inputs :
           /\ in.args.cmd \in {"summary", "plot", "compare"}
           /\ in.args.cmd = "compare" => in.args.metric \in {"latency", "jitter"}
           /\ in.dir # NoDir =>
                 /\ in.dir \in Seq([stem : Seq(STRING), header : SUBSET STRING, rows : Seq(Row)])
                 /\ \A i, j \in DOMAIN in.dir : in.dir[i].stem = in.dir[j].stem => i = j
                 /\ \A i \in DOMAIN in.dir :
                       parse_name(in.dir[i].stem).condition \in Range(Alphabetical)

VARIABLES
    dir, args,
    pc,           \* "main", "load", the command, its stages, "end"
    loaded,       \* runs in the order they were read
    cells,        \* condition -> runs, dataset.py's Cell.runs
    base,         \* the baseline of the summary
    summaries,    \* cell summaries so far
    comparisons,  \* comparisons so far
    stdout,       \* what was printed
    files,        \* what was written, name -> content
    status        \* exit status; -1 while running, 1 for a traceback

input == <<dir, args>>
report == <<base, summaries, comparisons>>
vars == <<input, pc, loaded, cells, report, stdout, files, status>>

Init ==
    /\ \E in \in Inputs : dir = in.dir /\ args = in.args
    /\ pc = "main"
    /\ loaded = <<>> /\ cells = <<>>
    /\ base = None /\ summaries = <<>> /\ comparisons = <<>>
    /\ stdout = <<>> /\ files = <<>>
    /\ status = -1

\* main() returns, or a ValueError reaches it (2), or anything else ends the
\* interpreter (1).
Exit(code) ==
    pc' = "end" /\ status' = code
Fail(code) ==
    /\ Exit(code)
    /\ UNCHANGED <<input, loaded, cells, report, stdout, files>>

-----------------------------------------------------------------------------
(* cli.main, loader.discover, dataset.build_dataset *)

NoDirectory ==
    /\ pc = "main" /\ dir = NoDir
    /\ Fail(2)

Main ==
    /\ pc = "main" /\ dir # NoDir
    /\ pc' = "load"
    /\ UNCHANGED <<input, loaded, cells, report, stdout, files, status>>

LoadFails ==
    /\ pc = "load" /\ Len(loaded) < Len(dir)
    /\ Malformed(dir[Len(loaded) + 1])
    /\ Fail(2)

Load ==
    /\ pc = "load" /\ Len(loaded) < Len(dir)
    /\ ~Malformed(dir[Len(loaded) + 1])
    /\ loaded' = Append(loaded, load_csv(dir[Len(loaded) + 1]))
    /\ UNCHANGED <<input, pc, cells, report, stdout, files, status>>

Build ==
    /\ pc = "load" /\ Len(loaded) = Len(dir)
    /\ cells' = discover(loaded)
    /\ pc' = args.cmd
    /\ UNCHANGED <<input, loaded, report, stdout, files, status>>

names == Names(DOMAIN cells)

-----------------------------------------------------------------------------
(* cmd_summary: build_summary() *)

NoBaseline ==
    /\ pc = "summary" /\ BaselineMissing(names, args.baseline)
    /\ Fail(2)

ChooseBaseline ==
    /\ pc = "summary" /\ ~BaselineMissing(names, args.baseline)
    /\ base' = choose_baseline(names, args.baseline)
    /\ pc' = "cells"
    /\ UNCHANGED <<input, loaded, cells, summaries, comparisons, stdout, files, status>>

Here == names[Len(summaries) + 1]

SummariseRaises ==
    /\ pc = "cells" /\ Len(summaries) < Len(names)
    /\ CellRaises(cells[Here])
    /\ Fail(1)

Summarise ==
    /\ pc = "cells" /\ Len(summaries) < Len(names)
    /\ ~CellRaises(cells[Here])
    /\ summaries' = Append(summaries, cell_summary(Here, cells[Here]))
    /\ UNCHANGED <<input, pc, loaded, cells, base, comparisons, stdout, files, status>>

Others(c) == Names(DOMAIN cells \ {c})

Compare ==
    /\ pc = "cells" /\ Len(summaries) = Len(names)
    /\ Len(comparisons) < Len(Others(base))
    /\ LET c == Others(base)[Len(comparisons) + 1]
       IN  comparisons' = Append(comparisons,
               [condition |-> c, baseline |-> base, metrics |-> compare_cells(cells[base], cells[c])])
    /\ UNCHANGED <<input, pc, loaded, cells, base, summaries, stdout, files, status>>

Rendered ==
    /\ pc = "cells" /\ Len(summaries) = Len(names)
    /\ Len(comparisons) = Len(Others(base))
    /\ pc' = "markdown"
    /\ UNCHANGED <<input, loaded, cells, report, stdout, files, status>>

-----------------------------------------------------------------------------
(* Markdown and JSON.  A view is a set of [at: path into the summary, v: what *)
(* is shown there].                                                           *)

_fmt(v) == IF v = None THEN "-" ELSE IF v = NaN THEN "nan" ELSE "number"

Under(path, r) == {[at |-> path \o <<k>>, v |-> r[k]] : k \in DOMAIN r}

CellLeaves(s) ==
    Under(<<s.condition, "latency">>, s.latency) \cup Under(<<s.condition, "jitter">>, s.jitter)
      \cup Under(<<s.condition, "loss">>, s.loss)
      \cup (UNION {Under(<<s.condition, m>>, s.per_run[m]) : m \in DOMAIN s.per_run})
      \cup {[at |-> <<s.condition, "dscp", "dominant">>,
             v |-> IF s.dscp = <<>> THEN None ELSE s.dscp.dominant]}
ComparisonLeaves(c) ==
    UNION {Under(<<c.condition, m, base>>, c.metrics[m]) : m \in DOMAIN c.metrics}
Leaves ==
    (UNION {CellLeaves(s) : s \in Range(summaries)})
      \cup (UNION {ComparisonLeaves(c) : c \in Range(comparisons)})

\* The tables leave out n and min of a distribution.
render_markdown ==
    {[at |-> l.at, v |-> _fmt(l.v)] : l \in {m \in Leaves : Last(m.at) \notin {"n", "min"}}}

sanitize_jsonKeep(v) == v             \* mutant: nan stays in
sanitize_json(v) == IF v = NaN THEN None ELSE v
to_json == {[at |-> l.at, v |-> sanitize_json(l.v)] : l \in Leaves}

\* files, with one more or with new content.
Write(name, content) ==
    [f \in DOMAIN files \cup {name} |-> IF f = name THEN content ELSE files[f]]

\* _emit(); a target is None, "-" or a file name.
_emit(text, content, target, stdout_default) ==
    IF target = None
    THEN /\ stdout' = IF stdout_default THEN Append(stdout, text) ELSE stdout
         /\ UNCHANGED files
    ELSE IF target = "-"
    THEN stdout' = Append(stdout, text) /\ UNCHANGED files
    ELSE files' = Write(text, content) /\ stdout' = Append(stdout, "wrote")

JsonUnasked == args.json = None
EmitMarkdown ==
    /\ pc = "markdown"
    /\ _emit("markdown", render_markdown, args.markdown, JsonUnasked)
    /\ pc' = "json"
    /\ UNCHANGED <<input, loaded, cells, report, status>>

EmitJson ==
    /\ pc = "json"
    /\ _emit("json", to_json, args.json, FALSE)
    /\ Exit(0)
    /\ UNCHANGED <<input, loaded, cells, report>>

-----------------------------------------------------------------------------
(* cmd_plot: plots.plot_all() *)

\* Nothing at or below zero can be drawn on a logarithmic axis.
_stat(v) == IF v > 0 THEN v ELSE NaN
Bars == [c \in DOMAIN cells |->
            LET d == distribution_summary(latency_ms(cells[c]))
            IN  [p50 |-> _stat(d.p50), p99 |-> _stat(d.p99), max |-> _stat(d.max)]]

\* Points <<latency, k>>: k packets of the sample are at most that late.
Curve(lat) ==
    LET s == sorted(lat) IN {<<s[i], i>> : i \in {j \in DOMAIN s : s[j] > 0}}

FALLBACK_COLORS == 5
condition_styles(ns) ==
    LET extra(k) == Cardinality({j \in 1 .. (k - 1) : ns[j] \notin Range(CONDITION_ORDER)})
    IN  [c \in Range(ns) |->
            IF c \in Range(CONDITION_ORDER) THEN <<"known", _order(c)>>
            ELSE <<"fallback", extra(Position(ns, c)) % FALLBACK_COLORS>>]

NothingToPlot ==
    /\ pc = "plot" /\ names = <<>>
    /\ Fail(2)

PlotPercentiles ==
    /\ pc = "plot" /\ names # <<>>
    /\ files' = Write("percentiles", Bars)
    /\ pc' = "cdf"
    /\ UNCHANGED <<input, loaded, cells, report, stdout, status>>

PlotCdf ==
    /\ pc = "cdf"
    /\ files' = Write("cdf", [c \in DOMAIN cells |->
                                 [style |-> condition_styles(names)[c],
                                  curve |-> Curve(latency_ms(cells[c]))]])
    /\ stdout' = stdout \o <<"wrote", "wrote">>
    /\ Exit(0)
    /\ UNCHANGED <<input, loaded, cells, report>>

-----------------------------------------------------------------------------
(* cmd_compare *)

Unknown == {args.baseline, args.against} \ DOMAIN cells

NotFound ==
    /\ pc = "compare" /\ Unknown # {}
    /\ Fail(2)

Measured(c) == IF args.metric = "latency" THEN latency_ms(cells[c]) ELSE jitter_us(cells[c])

\* resolve_statistic(), which bootstrap_ci() does not reach with an empty sample.
StatRaises ==
    /\ args.stat \notin Statistics
    /\ Measured(args.baseline) # <<>> \/ Measured(args.against) # <<>>

BadStatistic ==
    /\ pc = "compare" /\ Unknown = {} /\ StatRaises
    /\ Fail(2)

CompareTwo ==
    /\ pc = "compare" /\ Unknown = {} /\ ~StatRaises
    /\ comparisons' = <<[condition |-> args.against, baseline |-> args.baseline,
                         metrics |-> [m \in {args.metric} |->
                             compare(Measured(args.baseline), Measured(args.against), args.stat)]]>>
    /\ stdout' = Append(stdout, "comparison")
    /\ Exit(0)
    /\ UNCHANGED <<input, loaded, cells, base, summaries, files>>

\* The only place where a command may stop.
Terminated == pc = "end" /\ UNCHANGED vars

Next ==
    \/ NoDirectory \/ Main \/ LoadFails \/ Load \/ Build
    \/ NoBaseline \/ ChooseBaseline \/ SummariseRaises \/ Summarise \/ Compare \/ Rendered
    \/ EmitMarkdown \/ EmitJson
    \/ NothingToPlot \/ PlotPercentiles \/ PlotCdf
    \/ NotFound \/ BadStatistic \/ CompareTwo
    \/ Terminated

Spec == Init /\ [][Next]_vars

-----------------------------------------------------------------------------
(* Properties *)

\* Types.
TypeOK ==
    /\ pc \in {"main", "load", "summary", "cells", "markdown", "json", "plot", "cdf", "compare", "end"}
    /\ status \in {-1, 0, 1, 2} /\ (status = -1) = (pc # "end")
    /\ dir # NoDir => Len(loaded) <= Len(dir)
    /\ DOMAIN files \subseteq {"markdown", "json", "percentiles", "cdf"}

\* discover(): after a success every CSV of the directory is in the cell of its
\* condition, once, with all its rows and exact time stamps (one that is not
\* written as an integer is off by at most half the distance of two floats), and
\* a single file that does not parse keeps any statistic of the others from being
\* reported ("a silently missing run would bias every statistic").
EveryRunPooled ==
    status = 0 =>
        \A i \in DOMAIN dir :
            /\ \A r \in Range(dir[i].rows) : r.width >= 6
            /\ Cardinality({ck \in UNION {{c} \X DOMAIN cells[c] : c \in DOMAIN cells} :
                               cells[ck[1]][ck[2]].name = dir[i].stem}) = 1
            /\ \E c \in DOMAIN cells : \E k \in DOMAIN cells[c] :
                  /\ cells[c][k].name = dir[i].stem
                  /\ \/ dir[i].stem = c
                     \/ \E d \in DOMAIN IntOf : dir[i].stem = c \o <<"_run", d>>
                  /\ Len(cells[c][k].send_ns) = Len(dir[i].rows)
                  /\ \A j \in DOMAIN dir[i].rows :
                        LET cell == dir[i].rows[j].send
                            error == cell.val - cells[c][k].send_ns[j]
                        IN  IF cell.digits THEN error = 0 ELSE 2 * error \in -FloatStep .. FloatStep

\* Runs are in numeric order, run2 before run10, whatever order the names have,
\* and the testbed's conditions come in run.sh's order before all others.
OrderFixed ==
    /\ \A c \in DOMAIN cells : \A k, l \in DOMAIN cells[c] :
           k < l => SortKey(cells[c][k]) <= SortKey(cells[c][l])
    /\ \A k, l \in DOMAIN CONDITION_ORDER : \A c \in DOMAIN cells :
           LET at(x) == Position(names, x)
           IN  /\ k < l /\ {CONDITION_ORDER[k], CONDITION_ORDER[l]} \subseteq DOMAIN cells
                     => at(CONDITION_ORDER[k]) < at(CONDITION_ORDER[l])
               /\ CONDITION_ORDER[k] \in DOMAIN cells /\ c \notin Range(CONDITION_ORDER)
                     => at(CONDITION_ORDER[k]) < at(c)

\* Pooled jitter never holds a first row, which has no packet before it, nor
\* leaves out any other row: runs are not joined before the first row is
\* dropped.
JitterWithinRuns ==
    \A c \in DOMAIN cells :
        LET x == jitter_us(cells[c])
            rows(v) == UNION {{k} \X {i \in 2 .. Len(cells[c][k].jitter_us) :
                                        cells[c][k].jitter_us[i] \in {v, -v}} : k \in DOMAIN cells[c]}
        IN  /\ Len(x) = Len(latency_ms(cells[c])) - Len(cells[c])
            /\ \A v \in Range(x) : Histogram(x, DOMAIN x)[v] = Cardinality(rows(v))

\* The merged DSCP histogram counts every row that recorded a TOS byte under its
\* upper six bits and every other row of those runs as missing, and the DSCP
\* called dominant is one no other exceeds: within one run the lowest of them.
DscpExact ==
    \A s \in Range(summaries) :
        s.dscp # <<>> =>
            LET runs == cells[s.condition]
                recorded == {k \in DOMAIN runs : runs[k].tos # None}
                rows(T) == Cardinality(UNION {{k} \X {i \in DOMAIN runs[k].tos : runs[k].tos[i] \in T} :
                                                  k \in recorded})
                count(v) == rows((4 * v) .. (4 * v + 3))
                found == {v \in 0 .. 63 : count(v) > 0}
                modes == {v \in found : \A w \in found : count(w) <= count(v)}
            IN  /\ s.dscp.dscp = [v \in found |-> count(v)]
                /\ s.dscp.missing = rows({-1})
                /\ IF modes = {} THEN s.dscp.dominant = None ELSE s.dscp.dominant \in modes
                /\ s.n_runs = 1 /\ modes # {} => s.dscp.dominant = Min(modes)

\* The loss of a condition is the number of packets missing below each run's own
\* highest number; runs do not fill each other's gaps.
LossPerRun ==
    \A s \in Range(summaries) :
        LET runs == cells[s.condition]
            top(k) == Max(Range(runs[k].seq))
            missing == UNION {{k} \X (0 .. top(k) \ Range(runs[k].seq)) : k \in DOMAIN runs}
        IN  /\ s.loss.lost = Cardinality(missing)
            /\ s.loss.received = s.latency.n
            /\ s.loss.received - s.loss.duplicates + s.loss.lost = s.loss.expected
            /\ s.loss.loss_pct \in 0 .. 100

\* Every other condition is compared with the baseline exactly once, and the
\* default baseline is FIFO whenever it was measured.
ComparedWithBaseline ==
    /\ base # None /\ args.baseline = None /\ <<"fifo">> \in DOMAIN cells => base = <<"fifo">>
    /\ status = 0 /\ args.cmd = "summary" =>
           /\ {comparisons[i].condition : i \in DOMAIN comparisons} = DOMAIN cells \ {base}
           /\ Len(comparisons) = Cardinality(DOMAIN cells) - 1

\* In the JSON, which has no NaN, null says exactly that the data cannot answer:
\* deviations of one value, jitter of runs of one row, a t-interval of fewer
\* than three runs, an improvement over zero or over nothing, TOS that was not
\* recorded; and the Markdown shows "nan" or "-" in the same places.
Undefined(at) ==
    LET runs == cells[at[1]]
        key == Last(at)
        noJitter(c) == \A k \in DOMAIN cells[c] : Len(cells[c][k].seq) = 1
        npackets == Total([k \in DOMAIN runs |-> Len(runs[k].seq)])
        njitter == npackets - Len(runs)
    IN  CASE Len(at) = 4 ->       \* comparison of runs with at[3]
               LET empty == at[2] = "jitter_p99" /\ (noJitter(at[1]) \/ noJitter(at[3]))
                   compared == CHOOSE c \in Range(comparisons) : c.condition = at[1]
               IN  CASE key = "baseline" -> at[2] = "jitter_p99" /\ noJitter(at[3])
                     [] key = "proposed" -> at[2] = "jitter_p99" /\ noJitter(at[1])
                     [] key = "improvement" -> empty \/ compared.metrics[at[2]].baseline = 0
                     [] OTHER -> empty
          [] at[2] = "latency" -> key = "std" /\ npackets = 1
          [] at[2] = "jitter" -> key # "n" /\ (njitter = 0 \/ (key = "std" /\ njitter = 1))
          [] at[2] = "dscp" -> \A k \in DOMAIN runs : runs[k].tos = None \/ Range(runs[k].tos) = {-1}
          [] OTHER -> key = "ci" /\ Len(runs) < 3
NullsExplained ==
    /\ "json" \in DOMAIN files =>
           \A l \in files["json"] : l.v # NaN /\ (l.v = None) = Undefined(l.at)
    /\ "markdown" \in DOMAIN files =>
           \A l \in files["markdown"] : (l.v \in {"nan", "-"}) = Undefined(l.at)

\* The CDF figure is the distribution of all packets: the curve reaches, at every
\* latency it shows, the number of packets at most that late, those included
\* that a logarithmic axis cannot show.
CdfFaithful ==
    "cdf" \in DOMAIN files =>
        \A c \in DOMAIN cells :
            LET lat == latency_ms(cells[c])
                curve == files["cdf"][c].curve
            IN  \A v \in {u \in Range(lat) : u > 0} :
                    Max({p[2] : p \in {q \in curve : q[1] = v}})
                        = Cardinality({i \in DOMAIN lat : lat[i] <= v})

\* No two conditions of a figure look the same, as long as there are colours.
StylesDistinct ==
    "cdf" \in DOMAIN files
      /\ Cardinality(DOMAIN cells \ Range(CONDITION_ORDER)) <= FALLBACK_COLORS =>
        \A c, d \in DOMAIN cells : c # d => files["cdf"][c].style # files["cdf"][d].style

\* What a user can get wrong: the directory, a file in it, a condition, the
\* statistic; and there may be nothing to summarise or to draw.
Conditions == {parse_name(dir[i].stem).condition : i \in DOMAIN dir}
UserError ==
    \/ dir = NoDir
    \/ \E i \in DOMAIN dir : Malformed(dir[i])
    \/ args.cmd = "summary"
         /\ IF args.baseline = None THEN dir = <<>> ELSE args.baseline \notin Conditions
    \/ args.cmd = "plot" /\ dir = <<>>
    \/ args.cmd = "compare"
         /\ ~({args.baseline, args.against} \subseteq Conditions /\ args.stat \in Statistics)

\* No data, however few, make the analysis raise anything but a ValueError, which
\* main() reports "instead of a traceback": "every percentile goes through"
\* percentile(), and "empty input yields nan".  Not so: see OneRowRun.
NoTraceback == status # 1

\* main() is documented to return "2 on a user error (missing directory, unknown
\* condition or statistic)".  Not always so: see NothingMeasured.
UserErrorsReported == status = 0 => ~UserError

\* The one way to a traceback: in a summary, a run of one row that is one of
\* several of its condition (per_run_aggregate() of its jitter).
OneRowRun ==
    args.cmd = "summary" /\ \E c \in DOMAIN cells :
        Len(cells[c]) > 1 /\ \E i \in DOMAIN cells[c] : Len(cells[c][i].seq) = 1
\* The one error that goes unnoticed: an unknown statistic of jitters, when no run
\* of the two conditions has any.
NothingMeasured ==
    args.cmd = "compare" /\ args.metric = "jitter"
      /\ \A c \in {args.baseline, args.against} : \A k \in DOMAIN cells[c] : Len(cells[c][k].seq) = 1

\* Exit 2 means that the user made an error, and that nothing was emitted; but for
\* the two exceptions it is what every such error leads to, and there is no other
\* failure.  Exit 0 means that everything asked for was emitted, and that JSON
\* asked for on stdout without Markdown is alone there.
ExitMeans ==
    /\ status = 2 => UserError /\ stdout = <<>> /\ files = <<>>
    /\ status = 0 /\ UserError => NothingMeasured
    /\ status = 1 => OneRowRun
    /\ status = 0 /\ args.cmd = "plot" => DOMAIN files = {"percentiles", "cdf"}
    /\ status = 0 /\ args.cmd = "summary" =>
           /\ (args.json \notin {None, "-"}) = ("json" \in DOMAIN files)
           /\ (args.markdown \notin {None, "-"}) = ("markdown" \in DOMAIN files)
           /\ args.json = "-" /\ args.markdown = None => stdout = <<"json">>
           /\ args.json = None /\ args.markdown \in {None, "-"} => stdout = <<"markdown">>

\* From the directory to the samples (loader, dataset): every run is there, once
\* and in order, and no first row among the jitters.
SamplesFaithful == EveryRunPooled /\ OrderFixed /\ JitterWithinRuns

\* From the samples to the report (build_summary): loss and DSCPs are those of the
\* single runs, and every condition is compared with the right baseline.
ReportFaithful == LossPerRun /\ DscpExact /\ ComparedWithBaseline

\* From the report to what the user gets (render_*, plots, cli): nothing that is
\* known becomes null, nothing that is unknown a number, no packet leaves the
\* figures, and the exit status tells.
OutputFaithful == TypeOK /\ NullsExplained /\ CdfFaithful /\ StylesDistinct /\ ExitMeans
=============================================================================
