----------------------------- MODULE MCTestbed -----------------------------
(***************************************************************************)
(* TLC instance of Testbed and PerCpuCounters.  A behaviour is either two  *)
(* campaigns in one output directory, with two runs of a condition with    *)
(* the classifier, one without and one that needs sch_prio, in the order   *)
(* of run.sh's own list; or what the BPF programs count during one run,    *)
(* with the two dumps that run.sh takes of it.                             *)
(***************************************************************************)
EXTENDS Testbed, PerCpuCounters

MCConditions == <<"pfifo_fast_clsf", "fifo", "prio_clsf">>
MCClsf == {"pfifo_fast_clsf", "prio_clsf"}
MCPrio == {"prio_clsf"}

\* The classifier's counters and the probe's histogram at the bottleneck, read
\* histogram first.  A frame that bypasses the classifier and carries a classid
\* as priority, and a TS frame.  The bucket of priorities that do not fit is the
\* last one.
BucketKey(p) == IF Bucket(p) = 6 THEN "prio6" ELSE "prio15"

MCKeys == <<"prio6", "prio15", "TS_UDP">>
MCFrames == {<<BucketKey(65537)>>, <<"TS_UDP", BucketKey(6)>>}

VARIABLE counting

MCInit == Init /\ CountersInit /\ counting \in BOOLEAN

campaignStill == <<vars, counting>>
countersStill == <<counterVars, counting>>

MCNext ==
    \/ ~counting /\ Setup /\ UNCHANGED countersStill
    \/ ~counting /\ SetTrap /\ UNCHANGED countersStill
    \/ ~counting /\ Skip /\ UNCHANGED countersStill
    \/ ~counting /\ Done /\ UNCHANGED countersStill
    \/ ~counting /\ apply_condition /\ UNCHANGED countersStill
    \/ ~counting /\ Spawn /\ UNCHANGED countersStill
    \/ ~counting /\ wait_file /\ UNCHANGED countersStill
    \/ ~counting /\ WaitFails /\ UNCHANGED countersStill
    \/ ~counting /\ TalkerEnds /\ UNCHANGED countersStill
    \/ ~counting /\ Collect /\ UNCHANGED countersStill
    \/ ~counting /\ Publish /\ UNCHANGED countersStill
    \/ ~counting /\ Grep /\ UNCHANGED countersStill
    \/ ~counting /\ GrepFails /\ UNCHANGED countersStill
    \/ ~counting /\ Abort /\ UNCHANGED countersStill
    \/ ~counting /\ Restart /\ UNCHANGED countersStill
    \/ ~counting /\ FloodEnds /\ UNCHANGED countersStill
    \/ ~counting /\ ListenerBinds /\ UNCHANGED countersStill
    \/ ~counting /\ ListenerPrints /\ UNCHANGED countersStill
    \/ ~counting /\ ListenerWrites /\ UNCHANGED countersStill
    \/ ~counting /\ ListenerReceives /\ UNCHANGED countersStill
    \/ ~counting /\ ListenerDies /\ UNCHANGED countersStill
    \/ ~counting /\ (\E o \in orphans : OrphanBinds(o)) /\ UNCHANGED countersStill
    \/ ~counting /\ (\E o \in orphans : OrphanWrites(o)) /\ UNCHANGED countersStill
    \/ counting /\ (\E c \in Cpus, f \in Frames : Arrive(c, f)) /\ UNCHANGED campaignStill
    \/ counting /\ (\E c \in Cpus : Load(c)) /\ UNCHANGED campaignStill
    \/ counting /\ (\E c \in Cpus : Store(c)) /\ UNCHANGED campaignStill
    \/ counting /\ DumpBegin /\ UNCHANGED campaignStill
    \/ counting /\ DumpCell /\ UNCHANGED campaignStill
    \/ counting /\ DumpEnd /\ UNCHANGED campaignStill

\* The liveness property is about campaigns: behaviours that count never run the
\* script, so they are not fair.
MCSpec == MCInit /\ [][MCNext]_<<vars, counterVars, counting>> /\ Fairness
=============================================================================
