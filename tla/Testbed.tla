------------------------------ MODULE Testbed ------------------------------
(***************************************************************************)
(* testbed/run.sh: a campaign of runs, for each of which the script        *)
(* installs a condition at the bottleneck, starts sink, listener and flood *)
(* in the background, runs the talker, waits for the others and publishes  *)
(* the listener's CSV.  The script runs under "set -euo pipefail" with an  *)
(* EXIT trap, and the directory it writes to may hold the files of an      *)
(* earlier campaign ("make testbed" always uses the same one).             *)
(***************************************************************************)
EXTENDS Naturals, Sequences

CONSTANTS
    RUNS,           \* --runs
    CONDITIONS,     \* --conditions
    Clsf,           \* the conditions named *_clsf
    Prio,           \* the conditions named prio_*
    MaxCampaigns    \* bound: campaigns with the same --out

ASSUME TestbedAssumption ==
    RUNS \in Nat /\ CONDITIONS \in Seq(STRING) /\ MaxCampaigns \in Nat

Conds == {CONDITIONS[i] : i \in DOMAIN CONDITIONS}
Cells == Conds \X (1 .. RUNS)

VARIABLES
    camp,        \* number of the campaign
    pc,          \* where the script is
    run, ci,     \* its loop variables
    havePrio,    \* HAVE_PRIO
    trapped,     \* the EXIT trap is set
    topology,    \* "up" or "down"
    qdisc, clsf, \* condition installed on vr_host, classifier attached at pref 10
    \* background processes of the current run
    sink, flood, \* "off" or "on"
    listener,    \* "off", "start", "recv", "printed"
    got,         \* it has received a packet
    summarised,  \* its log holds the summary
    \* files
    ready,       \* $dir/listener.ready exists
    results,     \* campaign that wrote $dir/results.csv, 0 if there is none
    out,         \* campaign whose CSV $OUT/<cond>_run<k>.csv is, 0 if none
    missing,     \* runs logged as having no CSV
    orphans      \* files that listeners of an earlier campaign will still write

loop == <<camp, run, ci, havePrio, trapped>>
bottleneck == <<topology, qdisc, clsf>>
procs == <<sink, flood, listener, got, summarised>>
files == <<ready, results, out, missing>>
vars == <<pc, loop, bottleneck, procs, files, orphans>>

cond == CONDITIONS[ci]
cell == <<cond, run>>

Init ==
    /\ camp = 1 /\ pc = "setup" /\ run = 1 /\ ci = 1
    /\ havePrio = FALSE /\ trapped = FALSE
    /\ topology = "down" /\ qdisc = "none" /\ clsf = FALSE
    /\ sink = "off" /\ flood = "off" /\ listener = "off"
    /\ got = FALSE /\ summarised = FALSE
    /\ ready = [x \in Cells |-> FALSE]
    /\ results = [x \in Cells |-> 0]
    /\ out = [x \in Cells |-> 0]
    /\ missing = {} /\ orphans = {}

-----------------------------------------------------------------------------
(* topology.sh: up first removes what an earlier campaign left. *)

up == topology' = "up" /\ qdisc' = "none" /\ clsf' = FALSE
down == topology' = "down" /\ qdisc' = "none" /\ clsf' = FALSE

-----------------------------------------------------------------------------
(* Leaving the script *)

Exits == {"done", "failed", "noready", "nogrep"}

\* The trap tears the topology down and leaves the background processes alone.
Exit(why) ==
    /\ pc' = why
    /\ IF trapped THEN down ELSE UNCHANGED bottleneck

\* A command fails under set -e, or the script is interrupted.
Abort ==
    /\ pc \notin Exits
    /\ Exit("failed")
    /\ UNCHANGED <<loop, procs, files, orphans>>

-----------------------------------------------------------------------------
(* The script *)

\* topology.sh up, the qdisc probes, loading and attaching the BPF programs.
Setup ==
    /\ pc = "setup"
    /\ up
    /\ havePrio' \in BOOLEAN
    /\ pc' = "trap"
    /\ UNCHANGED <<camp, run, ci, trapped, procs, files, orphans>>

SetTrap ==
    /\ pc = "trap"
    /\ trapped' = TRUE
    /\ pc' = "loop"
    /\ UNCHANGED <<camp, run, ci, havePrio, bottleneck, procs, files, orphans>>

\* The two nested loops have a run left; none has if no condition is given.
InLoop == run <= RUNS /\ ci \in DOMAIN CONDITIONS

Advance ==
    /\ ci' = IF ci = Len(CONDITIONS) THEN 1 ELSE ci + 1
    /\ run' = IF ci = Len(CONDITIONS) THEN run + 1 ELSE run

Skip ==
    /\ pc = "loop"
    /\ InLoop
    /\ ~havePrio /\ cond \in Prio
    /\ Advance
    /\ UNCHANGED <<pc, camp, havePrio, trapped, bottleneck, procs, files, orphans>>

Done ==
    /\ pc = "loop"
    /\ ~InLoop
    /\ Exit("done")
    /\ UNCHANGED <<loop, procs, files, orphans>>

\* Remove what the previous condition left, then install this one.
ApplyKeepsFilter ==   \* mutant: the filter of the previous condition stays
    /\ pc = "loop"
    /\ InLoop
    /\ havePrio \/ cond \notin Prio
    /\ qdisc' = cond
    /\ clsf' = (clsf \/ cond \in Clsf)
    /\ pc' = "spawn"
    /\ UNCHANGED <<loop, topology, procs, files, orphans>>
apply_condition ==
    /\ pc = "loop"
    /\ InLoop
    /\ havePrio \/ cond \notin Prio
    /\ qdisc' = cond
    /\ clsf' = (cond \in Clsf)
    /\ pc' = "spawn"
    /\ UNCHANGED <<loop, topology, procs, files, orphans>>

\* Start sink and listener; the listener's log is truncated.
Spawn ==
    /\ pc = "spawn"
    /\ sink' = "on" /\ listener' = "start"
    /\ got' = FALSE /\ summarised' = FALSE
    /\ pc' = "ready"
    /\ UNCHANGED <<loop, bottleneck, flood, files, orphans>>

WaitSkipped ==        \* mutant: the script does not wait for the listener
    /\ pc = "ready"
    /\ flood' = "on"
    /\ pc' = "talk"
    /\ UNCHANGED <<loop, bottleneck, sink, listener, got, summarised, files, orphans>>
wait_file ==
    /\ pc = "ready"
    /\ ready[cell]
    /\ flood' = "on"
    /\ pc' = "talk"
    /\ UNCHANGED <<loop, bottleneck, sink, listener, got, summarised, files, orphans>>

\* No ready file after five seconds.
WaitFails ==
    /\ pc = "ready"
    /\ ~ready[cell]
    /\ Exit("noready")
    /\ UNCHANGED <<loop, procs, files, orphans>>

TalkerEnds ==
    /\ pc = "talk"
    /\ pc' = "wait"
    /\ UNCHANGED <<loop, bottleneck, procs, files, orphans>>

\* udp_sink.py ends only when it gets a signal, half a second later at most.
StopSink == sink' = "off"

\* Wait for flood and listener, then stop the sink and wait for it too.
CollectNoWait ==      \* mutant: the listener is not waited for
    /\ pc = "wait"
    /\ flood = "off"
    /\ StopSink
    /\ pc' = "publish"
    /\ UNCHANGED <<loop, bottleneck, flood, listener, got, summarised, files, orphans>>
CollectWaitsFirst ==  \* mutant: the sink is waited for before it is stopped
    /\ pc = "wait"
    /\ flood = "off" /\ listener = "off" /\ sink = "off"
    /\ pc' = "publish"
    /\ UNCHANGED <<loop, bottleneck, procs, files, orphans>>
Collect ==
    /\ pc = "wait"
    /\ flood = "off" /\ listener = "off"
    /\ StopSink
    /\ pc' = "publish"
    /\ UNCHANGED <<loop, bottleneck, flood, listener, got, summarised, files, orphans>>

\* Copy the CSV to $OUT, or log that there is none.
PublishSilently ==    \* mutant: a missing CSV is not reported
    /\ pc = "publish"
    /\ out' = IF results[cell] # 0 THEN [out EXCEPT ![cell] = results[cell]] ELSE out
    /\ pc' = "grep"
    /\ UNCHANGED <<loop, bottleneck, procs, ready, results, missing, orphans>>
Publish ==
    /\ pc = "publish"
    /\ IF results[cell] # 0
       THEN out' = [out EXCEPT ![cell] = results[cell]] /\ UNCHANGED missing
       ELSE missing' = missing \cup {cell} /\ UNCHANGED out
    /\ pc' = "grep"
    /\ UNCHANGED <<loop, bottleneck, procs, ready, results, orphans>>

\* grep | sed: with pipefail, a log without a summary ends the script.
Grep ==
    /\ pc = "grep"
    /\ summarised
    /\ Advance
    /\ pc' = "loop"
    /\ UNCHANGED <<camp, havePrio, trapped, bottleneck, procs, files, orphans>>

GrepFails ==
    /\ pc = "grep"
    /\ ~summarised
    /\ Exit("nogrep")
    /\ UNCHANGED <<loop, procs, files, orphans>>

-----------------------------------------------------------------------------
(* The background processes *)

FloodEnds ==
    /\ flood = "on"
    /\ flood' = "off"
    /\ UNCHANGED <<pc, loop, bottleneck, sink, listener, got, summarised, files, orphans>>

ListenerBinds ==
    /\ listener = "start"
    /\ listener' = "recv"
    /\ ready' = [ready EXCEPT ![cell] = TRUE]
    /\ UNCHANGED <<pc, loop, bottleneck, sink, flood, got, summarised,
                   results, out, missing, orphans>>

ListenerReceives ==
    /\ listener = "recv"
    /\ pc \in {"talk", "wait"}
    /\ topology = "up"
    /\ ~got
    /\ got' = TRUE
    /\ UNCHANGED <<pc, loop, bottleneck, sink, flood, listener, summarised, files, orphans>>

\* Nothing came for three seconds after a packet: the summary is printed, ...
ListenerPrints ==
    /\ listener = "recv"
    /\ got
    /\ listener' = "printed"
    /\ summarised' = TRUE
    /\ UNCHANGED <<pc, loop, bottleneck, sink, flood, got, files, orphans>>

\* ... then the CSV is written.  What a listener that dies while writing leaves
\* in the file is not modelled, only whose file it is.
ListenerWrites ==
    /\ listener = "printed"
    /\ listener' = "off"
    /\ results' = [results EXCEPT ![cell] = camp]
    /\ UNCHANGED <<pc, loop, bottleneck, sink, flood, got, summarised,
                   ready, out, missing, orphans>>

\* It fails to bind or to write, or is killed: the script tolerates it.  Its
\* log is buffered, so a kill may lose what it printed.
ListenerDies ==
    /\ listener # "off"
    /\ listener' = "off"
    /\ summarised' \in {summarised, FALSE}
    /\ UNCHANGED <<pc, loop, bottleneck, sink, flood, got, files, orphans>>

-----------------------------------------------------------------------------
(* The next campaign with the same output directory.  Its topology is new,
   but a listener the previous one left behind may still write its files. *)

LeftToWrite ==
    CASE listener = "start" -> {<<cell, camp, "ready">>}
      [] listener \in {"recv", "printed"} /\ got -> {<<cell, camp, "csv">>}
      [] OTHER -> {}

Restart ==
    /\ pc \in Exits
    /\ camp < MaxCampaigns
    /\ camp' = camp + 1
    /\ pc' = "setup" /\ run' = 1 /\ ci' = 1
    /\ havePrio' = FALSE /\ trapped' = FALSE
    /\ orphans' = orphans \cup LeftToWrite
    /\ sink' = "off" /\ flood' = "off" /\ listener' = "off"
    /\ got' = FALSE /\ summarised' = FALSE
    /\ missing' = {}
    /\ UNCHANGED <<bottleneck, ready, results, out>>

OrphanBinds(o) ==
    /\ o[3] = "ready"
    /\ ready' = [ready EXCEPT ![o[1]] = TRUE]
    /\ orphans' = orphans \ {o}
    /\ UNCHANGED <<pc, loop, bottleneck, procs, results, out, missing>>

OrphanWrites(o) ==
    /\ o[3] = "csv"
    /\ results' = [results EXCEPT ![o[1]] = o[2]]
    /\ orphans' = orphans \ {o}
    /\ UNCHANGED <<pc, loop, bottleneck, procs, ready, out, missing>>

Script ==
    \/ Setup \/ SetTrap \/ Skip \/ Done \/ apply_condition \/ Spawn
    \/ wait_file \/ WaitFails \/ TalkerEnds \/ Collect \/ Publish \/ Grep \/ GrepFails

Background == FloodEnds \/ ListenerBinds \/ ListenerPrints \/ ListenerWrites

Next ==
    \/ Script \/ Abort \/ Restart
    \/ Background \/ ListenerReceives \/ ListenerDies
    \/ \E o \in orphans : OrphanBinds(o) \/ OrphanWrites(o)

\* The script and the processes it started are scheduled; packets may all be
\* lost, and nothing need ever fail.
Fairness == WF_vars(Script) /\ WF_vars(FloodEnds)
            /\ WF_vars(ListenerBinds \/ ListenerPrints \/ ListenerWrites)

Spec == Init /\ [][Next]_vars /\ Fairness

-----------------------------------------------------------------------------
(* Properties *)

Measuring == pc \in {"talk", "wait", "publish", "grep"}

\* While the talker sends, the bottleneck is the one of the condition whose
\* name the results will carry: the classifier of one condition never reaches
\* into the run of the next.
ConditionInPlace ==
    Measuring => topology = "up" /\ qdisc = cond /\ (clsf <=> cond \in Clsf)

\* The talker starts only when the listener has bound its port (the help of
\* --ready-file), as long as the output directory is new.
ReadyMeansBound == camp = 1 /\ pc = "talk" => listener # "start"

\* What $OUT holds under the name of a run is, once the script has published
\* it, a CSV that this campaign measured, or the script has logged that there
\* is none; and a campaign that ends well has done so for every run it did not
\* skip.
Fresh(x) == out[x] = camp \/ x \in missing

FreshOrLogged ==
    /\ pc = "grep" => Fresh(cell)
    /\ pc = "done" => \A x \in Cells : (havePrio \/ x[1] \notin Prio) => Fresh(x)

\* It is so in a new output directory.
FreshInNewOut == camp = 1 => FreshOrLogged

\* However the script ends once its trap is set, the topology is gone; if it
\* ends well, no process is left running either.
CleanExit ==
    /\ pc \in Exits /\ trapped => topology = "down"
    /\ pc = "done" => sink = "off" /\ flood = "off" /\ listener = "off"

\* The script ends, or waits for ever for a listener that never received
\* anything: nothing else can hold it up.
EndsUnlessSilent ==
    <>[](pc \in Exits) \/ <>[](pc = "wait" /\ listener = "recv" /\ ~got)
=============================================================================
