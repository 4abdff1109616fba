--------------------------- MODULE PerCpuCounters ---------------------------
(***************************************************************************)
(* The per-CPU maps ts_counters and prio_hist while frames are being       *)
(* counted, and the two dumps testbed/run.sh takes of them around a run.   *)
(*                                                                         *)
(* The increment in count() and in prio_probe() is a load and a store, no  *)
(* atomic operation: the comment at ts_counters relies on a CPU having its *)
(* own slot.  A dump reads one cell after another while other              *)
(* CPUs go on counting, so it is no snapshot.                              *)
(***************************************************************************)
EXTENDS Integers, Sequences

CONSTANTS
    NCpus,       \* CPUs, numbered 1 .. NCpus
    Keys,        \* counters, in the order the dumps read them
    Frames,      \* each frame is the sequence of counters it increments
    MaxFrames    \* bound: frames counted per CPU

ASSUME CpusAssumption == NCpus \in Nat \ {0}
ASSUME KeysAssumption == Keys \in Seq(STRING) /\ Keys # <<>>
ASSUME FramesAssumption ==
    Frames \subseteq Seq({Keys[i] : i \in DOMAIN Keys}) /\ MaxFrames \in Nat

Cpus == 1 .. NCpus
KeySet == {Keys[i] : i \in DOMAIN Keys}
Zero == [c \in Cpus |-> [k \in KeySet |-> 0]]

\* prio_probe() counts priority p in one of 16 buckets.
PRIO_HIST_BUCKETS == 16
Bucket(p) == IF p >= PRIO_HIST_BUCKETS THEN PRIO_HIST_BUCKETS - 1 ELSE p

\* The slot that bpf_map_lookup_elem() gives a program running on CPU c.
SlotShared(c) == 1      \* mutant: a plain array map
SlotOf(c) == c

VARIABLES
    slot,     \* the map
    todo,     \* counters the frame on each CPU still has to increment
    reg,      \* value loaded by the increment, or -1
    nframes,  \* frames started
    dumping,  \* a dump is in progress
    cpu, key, \* the cell it reads next
    copy,     \* the cells it has read
    dumps,    \* finished dumps, before and after
    \* history
    hits,     \* increments made by each CPU
    lo,       \* hits when the dump in progress began
    quiet,    \* no frame was in flight during the dump in progress
    between   \* hits per counter between the two dumps

cpuVars == <<slot, todo, reg, nframes, hits, between>>
cursor == <<dumping, cpu, key, copy>>
dumpVars == <<cursor, dumps, lo, quiet>>
counterVars == <<cpuVars, dumpVars>>

CountersInit ==
    /\ slot = Zero
    /\ todo = [c \in Cpus |-> <<>>]
    /\ reg = [c \in Cpus |-> -1]
    /\ nframes = [c \in Cpus |-> 0]
    /\ dumping = FALSE /\ cpu = 1 /\ key = 1 /\ copy = Zero
    /\ dumps = <<>>
    /\ hits = Zero
    /\ lo = Zero
    /\ quiet = TRUE
    /\ between = [k \in KeySet |-> 0]

-----------------------------------------------------------------------------
(* The programs on CPU c *)

Arrive(c, f) ==
    /\ todo[c] = <<>>
    /\ nframes[c] < MaxFrames
    /\ todo' = [todo EXCEPT ![c] = f]
    /\ nframes' = [nframes EXCEPT ![c] = @ + 1]
    /\ quiet' = FALSE
    /\ UNCHANGED <<slot, reg, hits, between, cursor, dumps, lo>>

\* First half of the increment of *v.
Load(c) ==
    /\ todo[c] # <<>>
    /\ reg[c] = -1
    /\ reg' = [reg EXCEPT ![c] = slot[SlotOf(c)][Head(todo[c])]]
    /\ UNCHANGED <<slot, todo, nframes, hits, between, dumpVars>>

\* Second half.
Store(c) ==
    /\ reg[c] # -1
    /\ LET k == Head(todo[c])
       IN  /\ slot' = [slot EXCEPT ![SlotOf(c)][k] = reg[c] + 1]
           /\ hits' = [hits EXCEPT ![c][k] = @ + 1]
           /\ between' = IF Len(dumps) = 1 /\ ~dumping
                         THEN [between EXCEPT ![k] = @ + 1] ELSE between
    /\ todo' = [todo EXCEPT ![c] = Tail(@)]
    /\ reg' = [reg EXCEPT ![c] = -1]
    /\ UNCHANGED <<nframes, dumpVars>>

-----------------------------------------------------------------------------
(* bpftool map dump, called by dump_percpu() *)

DumpBegin ==
    /\ ~dumping
    /\ Len(dumps) < 2
    /\ dumping' = TRUE /\ cpu' = 1 /\ key' = 1 /\ copy' = Zero
    /\ lo' = hits
    /\ quiet' = \A c \in Cpus : todo[c] = <<>>
    /\ UNCHANGED <<dumps, cpuVars>>

\* Key by key, and for a key CPU by CPU.
DumpCellAhead ==   \* mutant: the cursor moves before the cell is read
    /\ dumping
    /\ key <= Len(Keys)
    /\ cpu' = IF cpu = NCpus THEN 1 ELSE cpu + 1
    /\ key' = IF cpu = NCpus THEN key + 1 ELSE key
    /\ copy' = [copy EXCEPT ![cpu'][Keys[key]] = slot[cpu'][Keys[key]]]
    /\ UNCHANGED <<dumping, dumps, lo, quiet, cpuVars>>
DumpCell ==
    /\ dumping
    /\ key <= Len(Keys)
    /\ copy' = [copy EXCEPT ![cpu][Keys[key]] = slot[cpu][Keys[key]]]
    /\ cpu' = IF cpu = NCpus THEN 1 ELSE cpu + 1
    /\ key' = IF cpu = NCpus THEN key + 1 ELSE key
    /\ UNCHANGED <<dumping, dumps, lo, quiet, cpuVars>>

\* Sum over CPUs 1 .. n, as dump_percpu() adds the values of one key.
SumSkipsFirst(cells, k) ==   \* mutant: CPU 1 is left out
    LET s[n \in 0 .. NCpus] == IF n <= 1 THEN 0 ELSE s[n - 1] + cells[n][k]
    IN  s[NCpus]
SumOverCpus(cells, k) ==
    LET s[n \in 0 .. NCpus] == IF n = 0 THEN 0 ELSE s[n - 1] + cells[n][k]
    IN  s[NCpus]

DumpEnd ==
    /\ dumping
    /\ key > Len(Keys)
    /\ dumps' = Append(dumps,
                  [sum |-> [k \in KeySet |-> SumOverCpus(copy, k)],
                   quiet |-> quiet])
    /\ dumping' = FALSE /\ cpu' = 1 /\ key' = 1 /\ copy' = Zero
    /\ UNCHANGED <<lo, quiet, cpuVars>>

\* What run.sh writes to meta.json.
delta(k) == dumps[2].sum[k] - dumps[1].sum[k]

CountersNext ==
    \/ \E c \in Cpus : (\E f \in Frames : Arrive(c, f)) \/ Load(c) \/ Store(c)
    \/ DumpBegin \/ DumpCell \/ DumpEnd

CountersSpec == CountersInit /\ [][CountersNext]_counterVars

-----------------------------------------------------------------------------
(* Properties *)

\* Although an increment is a load and a store, seen from outside it is one
\* atomic step: no increment is lost and a counter never goes back, whatever
\* other CPUs do in between (the comment at ts_counters: "counted per CPU and
\* added up in user space; no atomic operation is needed").
Atomic == INSTANCE AtomicCounters
            WITH Rows <- Cpus, Names <- KeySet, Lists <- Frames, cell <- slot, work <- todo
CountsAtomically == Atomic!Spec

\* A dump that overlaps with counting still reads, in every cell it has
\* reached, a value the cell had between the start of the dump and now; so a
\* sum is never below the count at the start nor above the one at the end.
Reached(c, i) == i < key \/ (i = key /\ c < cpu)

DumpBetween ==
    dumping => \A c \in Cpus, i \in DOMAIN Keys : Reached(c, i) =>
        /\ lo[c][Keys[i]] <= copy[c][Keys[i]]
        /\ copy[c][Keys[i]] <= hits[c][Keys[i]]

\* If no frame is in flight during either dump, what run.sh reports is exactly
\* what was counted between them.
DeltaExact ==
    Len(dumps) = 2 /\ dumps[1].quiet /\ dumps[2].quiet =>
        \A k \in KeySet : delta(k) = between[k]
=============================================================================
