# A TLA+ verification of the time-sensitive packet classifier

This directory models the repository's BPF classifier, its loader, the
measurement workload, the bottleneck and the testbed that drives them, and the
analysis of the results; it checks the models with TLC and proves the central
properties with TLAPS.

## 1. The system

| Part | Source | State it keeps | Operations |
|---|---|---|---|
| `ts_classifier` | `bpf/src/ts_classifier.c`, `ts_common.h` | maps `ts_config`, `ts_udp_ports`, `ts_counters`; the frame | classify a frame, set `skb->priority`, rewrite the DSCP and its checksum, count |
| `prio_probe`, `tcx_dummy_ok` | `bpf/src/` | per-CPU histogram / counter | count a frame; let it pass / end the chain |
| `tcx_attach` | `bpf/tools/tcx_attach.c` | tcx chain, bpffs pins | attach, detach, query |
| `bpfmaps.py` | `testbed/` | — | write `ts_config`, dump per-CPU maps |
| `talker.py` | `workload/` | next sequence number | send at a fixed interval |
| `be_flood.py` | `workload/` | `next_tx`, deadline | send at an offered rate |
| `listener.py` | `workload/` | received rows | receive, time out, summarise, write CSV |
| `udp_sink.py` | `workload/` | counters | swallow the flood |
| `topology.sh`, `run.sh` | `testbed/` | namespaces, qdiscs, filters, output directory | set up, run all conditions, publish, tear down |
| bottleneck | `run.sh`, the kernel | queues of the qdisc, packet on the link | apply a condition, classify, enqueue, dequeue |
| `loader.py`, `dataset.py` | `analysis/` | runs, cells of a condition | read every CSV, order and pool the runs |
| `metrics.py`, `stats.py` | `analysis/` | bootstrap array | percentiles, loss, DSCP histogram; interval, effect size, average over runs |
| `report.py`, `plots.py`, `cli.py` | `analysis/` | summary | `summary`, `plot`, `compare`; Markdown, JSON, figures, exit status |

How they interact: `run.sh` installs a condition (a qdisc, with or without the
classifier), starts sink, listener and flood, runs the talker and collects the
files. Packets go from the talker through a veth pair, where they lose
`skb->priority`, to the egress hook of `vr_host`; there the classifier sets the
priority again before the qdisc. User space reads the counters with `bpftool`
while packets flow. The analysis reads the listener's CSV.

What is hard here: the program runs on several CPUs without locks against maps
that user space changes; a packet is rewritten in two steps, each of which can
fail; the tool can be killed between attaching and pinning; the flood is paced
by a clock that can be stepped, and the listener subtracts readings of it; UDP
loses, duplicates and reorders; strict priority starves whoever is in the wrong
band; statistics have corners (one row, one run, ties, zero) that no measured
campaign meets; a shell script under `set -e` waits for processes that may die
or wait for ever, in a directory that may hold the files of an earlier
campaign.

What makes each part correct:

- *classifier*: a frame's fate is the rule applied to configuration values that
  were there while it was handled; a valid header stays valid; fragments of one
  datagram stay together; every frame is counted once.
- *counters*: increments are not lost though not atomic; dumps bound the counts.
- *tcx*: exit 0 means attached (or detached); the classifier hides frames from
  nobody, and nobody who was there first hides frames from it.
- *flood*: never faster than offered beyond a fixed slack; ends.
- *measurement*: loss and reordering are reported exactly; the listener waits
  for the first packet, ends after the last and writes everything.
- *timing*: the talker keeps its schedule or warns; a clock step spoils no more
  than the packets in flight and one jitter.
- *bottleneck*: with the classifier the flood neither delays nor displaces a
  time-sensitive packet by more than the packet on the link; without it three
  bands are a single FIFO, so the control condition controls.
- *analysis*: no run is lost, pooled or compared wrongly; fast algorithms compute
  their definitions; what is unknown is shown as unknown.
- *testbed*: the condition named in the file is the one measured; a run's CSV is
  its own or reported missing; nothing is left behind.

## 2. Modules

| Module | Models | Checked by | Proved in |
|---|---|---|---|
| `IpChecksum` | one's-complement sums, incremental update | through `TsClassifier` | `TsClassifierProofs` |
| `TsClassifier` | `ts_classifier.c` on several CPUs, map updates | `MCTsClassifier` | `TsClassifierProofs` |
| `TcxChain` | `tcx_attach.c`, tcx chain, legacy filters, pins | `MCTcxChain` | `TcxChainProofs` |
| `AtomicCounters` | abstract: counting is one step | as a `PROPERTY` of `PerCpuCounters` | `CampaignProofs` |
| `PerCpuCounters` | `count()`, `prio_probe()`, `dump_percpu()`, `run.sh`'s delta | `MCTestbed` | `CampaignProofs` |
| `FloodPacing` | `be_flood.py` | `MCFloodPacing` | `FloodPacingProofs` |
| `LossSummary` | loss and reorder computation, listener's and `metrics.py`'s | through `Measurement` | `MeasurementProofs` |
| `Measurement` | talker, network, listener | `MCMeasurement` | `MeasurementProofs` |
| `Testbed` | `run.sh`, `topology.sh`, campaigns | `MCTestbed` | `CampaignProofs` |
| `Timing` | pacing, stamps and rows of `talker.py` and `listener.py` | `MCTiming` | `TimingProofs` |
| `FifoQueue` | abstract: one bounded queue in front of a link | as a `PROPERTY` of `Bottleneck` | `BottleneckProofs` |
| `Bottleneck` | `apply_condition()`, veth, egress hook, qdisc, link | `MCBottleneck` | `BottleneckProofs` |
| `SampleStats` | the operators of `metrics.py` and `stats.py` | through `Comparison`, `Analysis` | `AnalysisProofs` |
| `Comparison` | `bootstrap_ci()`, `compare()` | `MCAnalysis` | `AnalysisProofs` |
| `Dataset` | the operators of `loader.py`, `dataset.py`, `report.py` | through `Analysis` | `AnalysisProofs` |
| `Analysis` | `cli.py` with its three commands | `MCAnalysis` | `AnalysisProofs` |

`Testbed` says that a condition is in place while it is measured; `Bottleneck`
says what the condition then does to the packets; `Timing` and `Measurement` say
what the listener makes of their arrival; `Analysis` starts from the CSVs.

### TsClassifier

One frame per CPU at a time. `pc[c]` is where the CPU is:

| `pc` | Code |
|---|---|
| `idle` → `load` (`Start`) | entry, `cfg = {}`, `pr = {}` |
| `load` (`LoadField`, once per field, any order) | `cfg = *p`, a plain copy racing with the kernel's memcpy (`UpdateField`) |
| `classify` (`Classify`) | `classify()`; for a normal frame also `count()` |
| `ts` (`SetPriority`) | `skb->priority = …`, `count()`, the tests up to the first helper call |
| `csum` (`CsumReplace`), `store` (`StoreTos`) | the two helpers of `mark_dscp()`, each may fail |
| `marked` (`CountMarked`), `return` (`Return`) | `count(CNT_DSCP_MARKED)`, `TC_ACT_UNSPEC` |

A frame is a record of what the parser looks at: length, PCP in metadata, PCPs
of the tags in the packet, inner EtherType, IPv4 version, IHL, fragment kind,
protocol, destination port, TOS, checksum, and `rest`, the sum of the header
words that never change. A helper can fail only on a shared (cloned) header,
which it has to copy; this is external kernel behaviour. `seen`, `ports0`,
`sent`, `changed` and `log` are history variables: no action's guard reads one
except `sent` for its bound.

### TcxChain

Every `t \in Tools` is one invocation. `Attach`, `Pin` and `Open`,
`DetachLink`, `Unlink` are the system calls of `do_attach()` and `do_detach()`;
`Kill` may strike between any two. `Put` is the kernel's reference counting: a
link that has lost its last pin and descriptor leaves the chain (`Close` and
`RemovePin` are where a reference goes). `Ran` is the order in which
`sch_handle_egress()` runs programs. `query` prints and changes nothing.

### PerCpuCounters

`Load` and `Store` are the two halves of `(*v)++`. A dump is a cursor over
cells. A frame is the list of counters it increments (a TS frame increments
`TS_UDP` and then the probe's bucket).

### FloodPacing

Real time `mono`, wall clock `mono + offset`. Each pass of the loop reads the
clock once; `Wait`, `Decide`, `Finish` are its three ways out. A short wait
polls again and is a stutter. `sendto()` may block: `Send` comes any time after
`Decide`. `opened`, `load`, `credit` measure a window that opens at an arbitrary
moment.

### Measurement, LossSummary

The network holds copies of each packet and delivers them in any order. A
timeout may strike whenever the socket is empty; the timeout before the first
row only loops and is a stutter.

### Testbed

`pc` follows `run_one()`. `Abort` is any failing command under `set -e`;
`WaitFails` and `GrepFails` are two failures with exits of their own. The EXIT
trap (`Exit`) removes the topology but no process. `Restart` is the next
`make testbed`, with the same output directory: files stay, and a listener left
behind may still write (`orphans`).

### Timing

Real time is `mono`, the wall clock `mono + offset`. `ReadClock`, `Sleep`, `Wake`,
`BusyWait`, `Due`, `Stamp`, `Send` are the statements of the talker's loop, with
time passing (`Tick`) and clock steps (`ClockStep`) between any two. `Recv` is
one row of the listener; of the rows only the previous arrival is kept, which is
all that the code keeps too. A lost packet is one that is never received.
`packet.due`, `sent`, `nsteps` and `spoiled` are history.

### Bottleneck, FifoQueue

`stage` is the next command of `apply_condition()`; best-effort packets arrive
between any two commands and for ever. A packet's way is `Veth` (priority 0),
`Egress` (the classifier, if installed), the probe, `Band`, `Enqueue`; the link
takes one packet at a time from the first band that has one. `NoclsfIsFifo` maps
the bands, one after the other, to the queue of `FifoQueue`, from the moment the
qdisc of a condition without classifier is added until the next condition.

### SampleStats, Comparison

Values are integers, and fractions are numerators and denominators. Statistics
and quantiles are in thousandths (`Milli`); where numpy divides or takes a root
they are rounded down. The statistics are those `resolve_statistic()` knows:
mean, median, max, min, std, and the percentiles of the constant `Quantiles`,
from names to thousandths, because the code accepts "p" with any number. A
random resample is any function from positions to values of the sample, so what
holds does not depend on the generator. `boots` starts as `Garbage`, as
`np.empty` does, and is filled chunk by chunk (`Resample`, `EndLoop`).
`deviation` is `numpy.std(ddof=1)`; in the summaries, where all that matters of
a standard deviation is when it is undefined, the sum of squares under the root
(`spread`) stands for it.

### Dataset, Analysis

A file is its stem (a sequence of tokens), its header and its rows; a time
stamp says whether it is written in digits, because otherwise `_to_int()` makes
it a float on the way, the nearest one (`FloatStep` is the distance of two, 256
ns for today's stamps), and of two equally near ones the even one. `Analysis`
follows `main()`: `Load` per file, `Build`, then for a summary
`ChooseBaseline`, `Summarise` per condition, `Compare`, `EmitMarkdown`,
`EmitJson`; for figures `PlotPercentiles`, `PlotCdf`; for a comparison
`CompareTwo`, with the statistic and the metric of the command line. Errors
have their own actions: `BadStatistic` is an unknown `--stat`, which
`bootstrap_ci()` only notices when it is given a value (`StatRaises`). What is
emitted is the set of values with their paths, without layout.
`numpy.percentile` of an empty sample raises `IndexError`, which `main()` does
not catch (status 1).

## 3. Runs

| Run | Question | Result |
|---|---|---|
| `TsClassifier` | is every frame classified, marked, checksummed and counted by the rule, alone and while two CPUs race with updates; do fragments stay together? | holds |
| `TsClassifier_fragment` | does every time-sensitive IPv4 frame get the DSCP? | violated |
| `TcxChain` | do attach and detach keep their promises, and who sees a frame? | holds |
| `FloodPacing` | is the rate bounded under stalls and clock steps; does it end? | holds |
| `Measurement` | are loss and reordering exact; does the listener end with a CSV? | holds |
| `Timing` | does the talker keep time, and what does a clock step do to the rows? | holds |
| `Bottleneck` | what does a condition do to the two flows, with and without the classifier? | holds |
| `Testbed` | is the right condition measured, are files fresh, does the script clean up and end; does load/store counting implement atomic counting, and what do the dumps around a run mean? | holds |
| `Testbed_stale` | are files fresh in a reused directory too? | violated |
| `Analysis` | do samples, report, output and exit status say what the files and the command line say; do the fast algorithms compute their definitions, and is the bootstrap sound? | holds |
| `Analysis_traceback` | is every failure an error message? | violated |
| `Analysis_unnoticed` | is every user error reported? | violated |

Three of the runs have two kinds of behaviour, chosen in the initial state by a
variable of the MC module, so that neither multiplies the other: in `TsClassifier` a
frame by itself or a race of few frames (`racing`), in `Testbed` a campaign or the
counting and dumping of one of its runs (`counting`), in `Analysis` a command or a
single call of `compare()` (`calling`). What is not run keeps its initial value, and
every step is a step of the module it belongs to. Their next-state relations name
the actions one by one, so that TLC's coverage says which of them happen.

Where several small statements belong together, one property is their
conjunction (`NobodyHidden`, `SummaryExact`, `TsFirst`, `Paced`, `RowsHonest`,
`IntervalSound`, `EffectSound`, `PercentilesAgree`, `SamplesFaithful`,
`ReportFaithful`, `OutputFaithful`); its parts are defined and explained
separately.

### Bounds

- `TsClassifier`: a frame by itself, since frames do not influence each other
  except through counters and logs; the frames cover the length just below and
  at each test of the parser, zero to three tags, PCPs around 5, and checksums
  and sums at both ends of the one's-complement range. `dscp = 64` exercises
  the mask. A race has two CPUs and one update that changes all three fields: a
  copy can be torn in every way; a frame to the default port, one to an added
  port and two fragments of a datagram. The proofs drop all of these bounds.
- `TcxChain`: four invocations over two paths: two attaches to one path, a
  detach of one of them, and one more in between.
- `FloodPacing`: a packet every 2 ticks, lag 2, sleeps above 3, two clock steps
  from {-3, 2, 5} (back, forward within the lag, forward beyond it); `MaxTime`
  = 19 lets a flood of 12 that was stepped back twice end.
- `Measurement`: four packets, one duplicate, one runt, a socket of two.
- `Timing`: three packets two ticks apart, sleeps above 1 with a margin of 1, one
  step from {-2, 4}, seven ticks: the third packet can be late enough for the
  WARNING, and the rows before and after the step are both there.
- `Bottleneck`: four time-sensitive packets and bands of three, so that they can
  fill a band themselves; the flood is unbounded.
- `Analysis`, calls of `compare()`: all pairs of samples of up to three values
  from {-1, 0, 2} (signs, zeros, ties); samples of two levels with sizes around
  100, where the 99th percentile leaves the last gap, whose change of level is
  within two places of a quantile or an end; bootstraps with one to three
  resamples and chunks of two, of every kind of statistic; {100, 101}, whose
  standard deviation is far outside of it.
- `Analysis`, commands: directories of up to three files, over nine stems (no
  index, index 0-padded, twice `_run`, empty condition) and seven contents
  (loss, duplicates, late rows, one row, no TOS, a short row, a missing column,
  no rows). Three stamps are no integers: one nearer the float above it, two
  midway between floats, of which the even one is below the one and above the
  other. `compare` asks for p99, mean, std and a statistic that does not exist,
  of latencies and of jitters.
- `Testbed`: two runs × three conditions (with classifier, without, needing
  sch_prio), two campaigns; for the counters two CPUs, three counters, two frames
  each, two dumps.

`CHECK_DEADLOCK` is off where the system ends: bounded traffic is sent, tools and
scripts exit. It is on for `Bottleneck`, whose flood never ends, and for
`Analysis`, where only the end of the program may stop it.

### Fairness

- `FloodPacing`: time passes, and a runnable process is scheduled. No fairness on
  clock steps or interrupts.
- `Timing`: time passes, and a runnable talker is scheduled.
- `Bottleneck`: the link goes on sending. Nothing is assumed of the senders.
- `Measurement`: the listener runs, a silent socket times out (`settimeout`), a
  packet in flight arrives or is lost. The talker need not finish; the property
  assumes it stopped.
- `Testbed`: the script is scheduled, the flood ends (which `FloodPacing`
  shows), and the listener, which has a timeout, goes on once it has received a
  packet. That a packet arrives is not assumed, which is why the liveness
  property has a second disjunct: `run.sh` waits for ever for a listener that
  never receives anything.

### Disagreements between code and documentation

`Testbed_stale` shows one by a counterexample. `run_one()` does not remove the
files of an earlier campaign. When a listener dies before writing, the old
`results.csv` is published as the new result, and the log line for a missing CSV
is not printed. The stale `listener.ready` likewise makes `wait_file` return
before the listener is bound; `ReadyMeansBound` therefore holds only for a new
directory.

Three more have a run of their own:

- `TsClassifier_fragment`: a fragment whose PCP makes it time-sensitive gets the
  priority but no DSCP (`SkipsIp` leaves before `ip_off` is set), while the README
  and a comment in `classify()` promise the mark for IPv4. `MarkedIfIpv4` states
  what they promise; `OutcomeExplained` leaves open whether such a frame is marked,
  and holds.
- `Analysis_traceback`: a run of one row that shares its condition with others ends
  `summary` in a traceback (`SummariseRaises`): `per_run_aggregate()` does not go
  through `percentile()`, although `metrics.py` says that every percentile does,
  and `main()` that errors are printed instead of a traceback (`NoTraceback`).
- `Analysis_unnoticed`: `compare --metric jitter --stat bogus` exits 0 when no
  run of the two conditions has a jitter: `bootstrap_ci()` returns before it
  resolves the statistic (`Empty` comes before `UnknownStatistic`), while
  `main()` promises status 2 (`UserErrorsReported`).

`ExitMeans`, which holds and is proved, says that the last two are the only
exceptions: status 1 means a one-row run among several (`OneRowRun`), and a user
error with status 0 an unknown statistic of jitters there are none of
(`NothingMeasured`).

The models contain one more, as the code has it: a missing CSV is logged by
`run_one()`, but the `grep` two lines below then fails (`GrepFails`) and `set -e`
with `pipefail` ends the campaign.

## 4. Proofs

Every safety property, action property and refinement that the runs check is
proved for all values of the constants; only liveness is not. The runs fix small
instances; the theorems assume only what the modules' named assumptions say:

| Assumptions | What they say |
|---|---|
| `PacketsAssumption`, `ConfigsAssumption`, `PortsAssumption`, `BoundsAssumption` | frames, configurations and ports are sets of well-typed values; CPUs are any set |
| `CpusAssumption`, `KeysAssumption`, `FramesAssumption` | at least one CPU; a list of keys that is not empty; frames are lists of its keys |
| `PacingAssumption`, `TimingAssumption` | a positive interval, a sleep margin not above the threshold for sleeping |
| `QuantilesAssumption` | "p50" and "p99" are percentile names and mean what they say; any others may be, with quantiles from 0 to 1, and none is called like another statistic |
| `NaNAssumption`, `ComparisonAssumption` | NaN and None are neither numbers nor fractions and uninitialised memory none of them; samples are any sequences of integers, chunks are not empty, and the interval leaves out at most one half on each side |
| `DatasetAssumption`, `AnalysisAssumption` | an index in a file name is a number; a command is one of the three, and `compare` is asked for latencies or jitters; a directory holds any list of files with different names and any header and rows, whose condition is among the names that are put in order; "-" is not None |
| `ProgsAssumption`, `NoneAssumption` | there is a program to attach and a path to pin it at; any set of invocations |
| `MeasurementAssumption`, `BottleneckAssumption`, `TestbedAssumption` | counts and limits are numbers, a socket and a queue hold at least one packet; `Bottleneck`'s conditions are among those of `run.sh`, `Testbed`'s are any list of names |

`NoRepeats` is a hypothesis of one theorem only (`ReadyMeansBoundSafe`). The
clock bounds and the limits on steps, duplicates and campaigns are arbitrary
numbers, so they bound nothing in the proofs.

Each inductive invariant was checked by TLC on the module's run before it was
proved. A proof module states the invariant first, as a conjunction of named
parts, then one lemma per part (or per action) and the theorems at its end.

**TsClassifierProofs**

- `TypeCorrect`. The work is in `NewTosByte` (a TOS built from any configuration
  word fits a byte) and `CsumAddWord`.
- `ChecksumSafe`. `ChecksumPreserved` says nothing of the moment between the two
  helper calls, so it is not inductive. `HeaderInv` adds what holds there: at
  `store` the checksum is already the one of the *new* first word, so storing the
  TOS restores the equivalence, and an unshared header means that the second
  helper cannot fail. The arithmetic is `CsumReplaceKeeps`: replacing a positive
  word by a positive word keeps a header as good or as bad as it was. First
  words are positive because the program only marks version 4; with a zero word
  the two forms of one's-complement zero would break the equivalence.
- `FramesCountedSafe`, `MarksCountedSafe`. `CountInv` relates the counters of a
  CPU to `sent`, `changed` and the place in the program.
- `FragmentsSafe`. `FragInv`: the class of a fragment is a function of its tags
  alone (`FragmentClass`), for frames in flight and for logged ones.
- `OutcomeExplainedSafe`. `OutcomeExplained` speaks of frames that have left;
  `FrameInv` says what holds on the way. `CopyInv`: every field already copied is
  a value the map held since the frame came, and ports are only ever added.
  `ClassInv`: the class is the rule's, for today's ports if time-sensitive and
  for the ports at arrival if not. This is where a racing port update is
  absorbed, by `RuleMonotone`, and where `ClassifyIsRule` is needed: the parser
  with its early exits decides as the rule written without order. `WriteInv`:
  what the place in the program says was written so far.

**CampaignProofs, the counters**

- `CountsAtomicallySafe`: `PerCpuCounters` implements `AtomicCounters`; `Store`
  maps to a counting step and `Load` to a stutter. `LoadedIsCurrent` is the
  needed strengthening: between load and store a CPU holds the current value of
  its own slot, because nobody else writes it.
- `DumpBetweenSafe`, from `NoLostUpdate` (the map equals the increments made) and
  `LoBelowHits`.
- `DeltaExactSafe`. `QuietStill`: while a dump is undisturbed the counters stand
  still, so that the copy is a snapshot. `Balance`: the first quiet dump plus what
  was counted since is what the counters hold. `SumOverCpus` is a recursive
  function, so its facts are inductions: `SumGrows` (one slot more by one is one
  more in the sum) and `SumSame`.

**FloodPacingProofs**

- `TypeCorrect`: no sleep is negative.
- `RateBoundedSafe`. `WindowInv` is an amortised argument: what was sent in the
  window, plus what is about to be sent, plus how far the schedule is behind the
  clock (`Behind`, cut off at the lag plus a packet) never exceeds the time since
  the window opened plus a constant, plus a constant per forward clock step.
- `TotalBoundedSafe`, from `ScheduleInv`: without steps, `next_tx` accounts for
  every packet.

**TcxChainProofs**

- `TypeSafe`, `AttachHoldsSafe`, `DetachWorksSafe`. None is inductive. `Holds`
  says which link a tool in each place holds open, `Pinned` that a pin is at the
  path its tool was given and that its tool succeeded, `Opened` the same of the
  link a detach holds, `InUse` that every link of the chain is referenced,
  `Waiting` that a link about to be pinned is still in the chain. `DetachWorks`
  also needs `Unpinned`: the link a finished detach opened is pinned at no path,
  because it could only be pinned at the one that was removed (`Opened`,
  `Pinned`); not in the chain then follows from `InUse`.
- `NobodyHiddenSafe` has two halves. *Transparent* is a fact about the operators:
  filtering the classifier out of what ran gives what runs without it (`OthersRun`,
  by induction over the chain, through `PassesOrStops`). *ClassifierSees* needs the
  order: `OrderInv` says that links attached with BEFORE come first, the latest
  at the head, and that a step that attaches nothing keeps the order (`Shrinks`).

**MeasurementProofs**

- `SummaryExactSafe`, `SummariesAgreeSafe`. The invariants are small (`NetInv`:
  only sent numbers are on their way; `CsvInv`: what is written is computed from
  the rows and stays); the work is in the lemmas about `LossSummary`. The
  listener's loop (`scan`) and the running maximum of `metrics.py` are shown, by
  induction over the rows, to compute the maximum of a prefix and the number of
  rows that a higher number precedes, and `expected - unique` to be the number of
  the talker's packets that are not in the rows but below their maximum.
- `WaitsForFirstSafe`, from `ClosingInv`.

**CampaignProofs, the campaign**

`run.sh` drives the campaign and records the difference of two counter dumps for
each run; the module extends both `Testbed` and `PerCpuCounters`, whose behaviours
are separate and share no names.

- `ConditionInPlaceSafe`, `CleanExitSafe`. `BottleneckInv` follows the script:
  where it is decides what stands at the bottleneck; `ProcInv`: which background
  processes may run there.
- `FreshInNewOutSafe`. `AloneInv`: in a first campaign no listener of an earlier
  one writes; `PastInv`: every run before the present one (in the order of the two
  loops) is fresh or logged.
- `ReadyMeansBoundSafe`. `AheadInv`: no run that is still to come has a ready
  file. The proof needs `NoRepeats`, that no condition is named twice in
  `--conditions`. The script does not check it: with a repeated condition the
  second listener of a run finds the ready file of the first in their common
  directory. The default list has no repetition.

**TimingProofs**

- `PacedSafe`. `TalkerInv`: a clock reading is of the past and so is the end of the
  wait; `SentInv`: the last drift is known when all is sent, which is what the
  WARNING is computed from.
- `RowsHonestSafe`. `NetInv` and `StampInv`: a packet stamped since the last clock
  step has a stamp between its wait and its departure. `JitterInv` is a potential
  argument: a previous row that the present offset does not explain has a clock
  step which no row has been charged with yet.

**BottleneckProofs**

- `ProbesTellSafe`, from `FilterInv` and `QdiscInv`, which follow the commands of
  `apply_condition()`.
- `TsFirstHolds`, an action property. `ClassifiedInv`: band 0 holds only
  time-sensitive packets, each at most once and in the order they were sent, and
  band 1 only the flood; so a full band 0 holds `Limit` different time-sensitive
  packets (a cardinality argument, `TsQueue`).
- `NoclsfIsFifoHolds`: `Bottleneck` implements `FifoQueue`, action by action.
  `UnclassifiedInv` says that only one band is ever used, so the concatenation of
  the bands is that band.

**AnalysisProofs, first part: Comparison**

Most of it is about the operators of `SampleStats`, for samples of any length:

- `sorted` puts the order statistics in ascending order (`SortedPlaces`,
  `SortedAscends`: a place holds a value of the sample with fewer values below it
  than the place's number and at least as many not above), so the binary searches
  return counts (`Searched`).
- `Interpolated` is a piecewise linear function of a virtual index (`At`), which
  grows and keeps between its neighbours (`AtGrows`, `AtBetween`): percentiles
  lie within the sample and are ordered (`InterpolatedWithin`,
  `InterpolatedGrows`).
- `Total` adds up what a recursive function says (`TotalSums`); `TotalPairs`
  turns a sum of counts into a count of pairs. From it `DeltaPairs` (Cliff's
  delta by search is the count over all pairs), `RankSum` and `UPairs` (the rank
  sum of the first sample, ties sharing ranks, is the same count).
- `UnitsAgree`: the percentile is the sum over all units between the lowest and
  the highest value of how far the virtual index has passed each, by induction
  over the units (`ComeStep`, `ComeEnd`).
- `PrintedPlaces`: the indices that the listener and the talker use are not below
  the virtual index of the analysis.

On them rest the theorems:

- `IntervalSoundSafe`. `IntervalSound` speaks of the end of the loop and of the end
  of `compare()`. `LoopInv` says what holds in between: slots below `done` hold
  statistics of resamples, each within the range of the sample
  (`ResampleWithin`), and the array has `n_boot` slots. `CiInv` keeps that for
  the side that is finished. The standard deviation is the exception: its interval
  need not lie in the sample, and "not negative" takes the place of the range; of
  a single value it is undefined, and so is the interval.
- `EffectSoundSafe`, from `ResultInv` (a result is what `Tests` made of the
  samples), `DeltaPairs`, `UPairs` and `DeltaSwaps`.
- `PercentilesAgreeSafe`, from `UnitsAgree` and `PrintedPlaces`.

**AnalysisProofs, second part: Analysis**

The actions of `Analysis` are few and sequential, so its inductive invariants are
short; the work is in what the operators of `Dataset` return for lists of runs of
any length, on which the lemmas about sums and order statistics are used again.

- `SamplesFaithfulSafe`. `DataInv`: the runs loaded so far are those of the first
  files, none of them malformed, and the cells are `discover()` of all of them
  once there are any. `Lists` says that `InOrder` lists a set once each in a strict
  total order, by counting predecessors; from it follow that `discover()` loses and
  repeats no run (`Discovered`) and the order of the conditions (`NamesList`).
  `PooledLengths` and the lemmas on `Flattens` count what `FlattenSeq` puts in a
  row: a pooled value stands for as many rows as the runs have (`SumUnion`, a sum
  of cardinalities is that of a tagged union). `StampError` bounds what `_to_int()`
  does to a stamp: nothing if it is an integer, half a `FloatStep` at most up or
  down if not.
- `ReportFaithfulSafe`. `ReportInv`: every summary so far is that of a cell that
  does not raise, comparison k is the one with the k-th other condition, and the
  baseline is the chosen one whenever a report is being made. `LossOfRun` and
  `CellLoss` count the missing numbers run by run; `DscpOfRun`, `DscpRows` and
  `CountsAre` do it for the merged histogram, and `SoonestIs` shows that the DSCP
  called dominant is a mode.
- `OutputFaithfulSafe`. `OutputInv`: a file holds what was computed from the
  report, a report file exists only when the report is complete, and what is on
  stdout before the JSON depends on the options alone. `Curves` and `Styles` are
  about the figures. For `NullsExplained` there is one lemma per kind of value
  (`DistributionBlanks`, `LossBlanks`, `PerRunBlanks`, `DominantBlank`,
  `CompareBlanks`: when it is NaN or None), and one that follows its path through
  the report (`LeafNulls`). `PerRunNulls` needs `~CellRaises`: that the summary
  was made shows that no run of the cell is without jitter. For `ExitMeans`,
  `CheckedInv` adds what the checks on the way have found out: that status 2 was
  preceded by a user error (`FailChecked`, action by action), that figures are drawn
  of some condition, and that a comparison has both its conditions and a known
  statistic or nothing to apply it to. `Unnoticed` and `Exits` draw the conclusion.

`InOrder`, `Write` and the tables of `_aggregate_dscp()` are written with functions
and CHOOSE instead of `SetToSortSeq`, `@@` and folds, which the prover cannot
expand.

**Induction over data.** The induction theorems of the library take a predicate
as parameter, which the provers here cannot instantiate. `MeasurementProofs`,
`CampaignProofs`, `TcxChainProofs` and `AnalysisProofs` therefore state
induction with a set (`SetInduction`: a set that holds 0 and with n also n + 1
holds every number, from the well-foundedness of < on the naturals), and show
with it that the recursive functions of the model exist and obey their
equations.

**Only model-checked:**

- every liveness property (`Terminates` of `FloodPacing` and `Timing`,
  `EndsWithCsv`, `EndsUnlessSilent`, `TsServed`): fairness and ENABLED are out of
  this prover's reach.

`FreshOrLogged`, `MarkedIfIpv4`, `NoTraceback` and `UserErrorsReported` are violated
by the code and have no theorem; what does hold is `FreshInNewOutSafe` for a new
directory, `OutcomeExplainedSafe` for frames that are no fragments, and the
`ExitMeans` of `OutputFaithfulSafe`.

## 5. What is not modelled

- `be_flood.py --rate-mbps 0` (no pacing) and its statistics; the counters of
  `udp_sink.py`.
- The talker's optional drift log and the listener's optional kernel time stamp,
  which repeat or add a column that nothing reads.
- The content of a CSV cut short by a listener that dies while writing (a row
  that lacks columns is modelled, a cell that lacks digits is not), and of
  `meta.json` other than the counter differences.
- The single commands of `topology.sh`; failures inside are `Abort`.
- `SIGKILL` of `run.sh` itself, which runs no trap.
- Files that a smaller campaign (`--runs`, `--conditions`) leaves in a reused
  directory: they are never republished, but the analysis would read them.
- `fq_codel`, the byte counts of `tbf`, and the kernel beyond what is marked
  external in the map. Decoding of bpftool's JSON.
- p-values and the quantile of Student's t: floating-point library code. Rounding
  of floats, except that of time stamps.
- Output that cannot be written (an `OSError` of the JSON comes after the Markdown
  has been put out, and is a traceback), `csv.Error`, errors of `argparse`, a
  `--ci` outside of 0 to 1; layout of tables and drawing.
- Build and CI scripts.

## 6. Plan

1. Abstract specifications: a classifier that handles a frame in one step with
   one configuration per field, implemented by `TsClassifier`; a campaign that
   maps each run to a measurement or a log line, implemented by `Testbed` in a
   new directory.
