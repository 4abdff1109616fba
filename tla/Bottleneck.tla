----------------------------- MODULE Bottleneck -----------------------------
(***************************************************************************)
(* What the testbed measures: time-sensitive packets and a best-effort     *)
(* flood cross a veth pair, which clears skb->priority, and meet at        *)
(* vr_host, whose egress hook runs the classifier, if the condition has    *)
(* it, and the probe, and whose qdisc feeds a slower link (tbf).           *)
(*                                                                         *)
(* run.sh's apply_condition() replaces filter and qdisc command by         *)
(* command; the talker only runs once it is done, best-effort packets may  *)
(* come at any time and without end.  fq_codel is left out.                *)
(***************************************************************************)
EXTENDS Integers, Sequences, FiniteSets

CONSTANTS
    Conditions,   \* conditions measured, subset of AllConditions
    MaxTs,        \* --count, time-sensitive packets of a run
    Limit,        \* packets a band holds
    None

AllConditions ==
    {"fifo", "pfifo_fast_noclsf", "pfifo_fast_clsf", "prio_noclsf", "prio_clsf"}

ASSUME BottleneckAssumption ==
    /\ Conditions \subseteq AllConditions /\ Conditions # {}
    /\ MaxTs \in Nat /\ Limit \in Nat \ {0}
    /\ None \notin [flow : {"ts", "be"}, n : Nat]

Ts(n) == [flow |-> "ts", n |-> n]
Be == [flow |-> "be", n |-> 0]
Packets == {Ts(n) : n \in 1 .. MaxTs} \cup {Be}

VARIABLES
    cond,         \* condition being applied or measured
    stage,        \* next command of apply_condition(), or "measure"
    filter,       \* the classifier is at pref 10 of the egress hook
    qdisc,        \* "noqueue", "one" queue or three "bands"
    bands,        \* packets waiting
    wire,         \* packet being sent
    nts,          \* packets the talker has sent in this run
    probe_in, probe_out   \* packets with priority 6 behind veth and at egress

command == <<cond, stage, filter, qdisc>>
traffic == <<nts, probe_in, probe_out>>
vars == <<command, bands, wire, traffic>>

Empty == [b \in 0 .. 2 |-> <<>>]

Init ==
    /\ cond \in Conditions
    /\ stage = "filter del"
    /\ filter = FALSE /\ qdisc = "noqueue"
    /\ bands = Empty /\ wire = None
    /\ nts = 0 /\ probe_in = 0 /\ probe_out = 0

-----------------------------------------------------------------------------
(* apply_condition() *)

inner == IF cond = "fifo" THEN "one" ELSE "bands"

\* case "$cond" in *_clsf), which pfifo_fast_noclsf does not match.
has_filterGlob == cond # "fifo"                     \* mutant: *clsf)
has_filter == cond \in {"pfifo_fast_clsf", "prio_clsf"}

DelFilterSkipped ==    \* mutant: the filter of the last condition stays
    /\ stage = "filter del"
    /\ stage' = "qdisc del"
    /\ UNCHANGED <<cond, filter, qdisc, bands, wire, traffic>>
DelFilter ==
    /\ stage = "filter del"
    /\ filter' = FALSE
    /\ stage' = "qdisc del"
    /\ UNCHANGED <<cond, qdisc, bands, wire, traffic>>

DelQdisc ==
    /\ stage = "qdisc del"
    /\ qdisc' = "noqueue" /\ bands' = Empty
    /\ stage' = "qdisc add"
    /\ UNCHANGED <<cond, filter, wire, traffic>>

AddQdisc ==
    /\ stage = "qdisc add"
    /\ qdisc' = inner
    /\ stage' = "filter add"
    /\ UNCHANGED <<cond, filter, bands, wire, traffic>>

\* The talker starts, and the probes are read, after the last command.
AddFilter ==
    /\ stage = "filter add"
    /\ filter' = (filter \/ has_filter)
    /\ stage' = "measure"
    /\ nts' = 0 /\ probe_in' = 0 /\ probe_out' = 0
    /\ UNCHANGED <<cond, qdisc, bands, wire>>

\* The run is over, whatever is still queued.
NextCondition ==
    /\ stage = "measure"
    /\ cond' \in Conditions
    /\ stage' = "filter del"
    /\ UNCHANGED <<filter, qdisc, bands, wire, traffic>>

-----------------------------------------------------------------------------
(* From a socket to the queue *)

SO_PRIORITY == 6
Veth(priority) == 0

TsPriorityMiddle == 4      \* mutant: band 1, that of best effort
TsPriorityBulk == 2        \* mutant: band 2
TsPriority == 6

\* The classifier leaves other packets as they are.
Egress(p, priority) == IF filter /\ p.flow = "ts" THEN TsPriority ELSE priority

\* The default priomap of pfifo_fast and prio.
priomap == <<1, 2, 2, 2, 1, 2, 0, 0, 1, 1, 1, 1, 1, 1, 1, 1>>
Band(priority) == IF qdisc = "bands" THEN priomap[priority + 1] ELSE 0

\* Without a qdisc the packet leaves at once.
Enqueue(p, b) ==
    bands' = IF qdisc = "noqueue" \/ Len(bands[b]) >= Limit THEN bands
             ELSE [bands EXCEPT ![b] = Append(@, p)]

Count6(n, priority) == IF priority = 6 THEN n + 1 ELSE n

\* The probe has the higher pref and sees what the classifier made of it.
ProbeOut(p, priority) == Egress(p, priority)

SendTs ==
    /\ stage = "measure" /\ nts < MaxTs
    /\ nts' = nts + 1
    /\ probe_in' = Count6(probe_in, Veth(SO_PRIORITY))
    /\ probe_out' = Count6(probe_out, ProbeOut(Ts(nts + 1), Veth(SO_PRIORITY)))
    /\ Enqueue(Ts(nts + 1), Band(Egress(Ts(nts + 1), Veth(SO_PRIORITY))))
    /\ UNCHANGED <<command, wire>>

SendBe ==
    /\ Enqueue(Be, Band(Egress(Be, Veth(0))))
    /\ probe_in' = Count6(probe_in, Veth(0))
    /\ probe_out' = Count6(probe_out, ProbeOut(Be, Veth(0)))
    /\ UNCHANGED <<command, wire, nts>>

-----------------------------------------------------------------------------
(* The link *)

Dequeue(b) ==
    /\ wire = None
    /\ bands[b] # <<>> /\ \A a \in 0 .. (b - 1) : bands[a] = <<>>
    /\ wire' = Head(bands[b])
    /\ bands' = [bands EXCEPT ![b] = Tail(@)]
    /\ UNCHANGED <<command, traffic>>

Transmitted ==
    /\ wire # None
    /\ wire' = None
    /\ UNCHANGED <<command, bands, traffic>>

Next ==
    \/ DelFilter \/ DelQdisc \/ AddQdisc \/ AddFilter \/ NextCondition
    \/ SendTs \/ SendBe
    \/ (\E b \in 0 .. 2 : Dequeue(b)) \/ Transmitted

\* The link goes on sending.
Fairness == WF_vars(\E b \in 0 .. 2 : Dequeue(b)) /\ WF_vars(Transmitted)

Spec == Init /\ [][Next]_vars /\ Fairness

-----------------------------------------------------------------------------
(* Properties *)

Waiting(p) == \E b \in 0 .. 2 : \E i \in DOMAIN bands[b] : bands[b][i] = p
Classified == {"pfifo_fast_clsf", "prio_clsf"}
TsWaiting == \E n \in 1 .. MaxTs : Waiting(Ts(n))

\* With the classifier a time-sensitive packet waits for one packet of the flood
\* at most, the one already on the link: the next one is always
\* time-sensitive while any waits (README, "band 0").
StrictPriority ==
    [][stage = "measure" /\ cond \in Classified /\ wire = None /\ wire' = Be => ~TsWaiting]_vars

\* With the classifier the flood, however fast, makes no time-sensitive packet
\* be dropped: only Limit other time-sensitive packets in front of it do.
NoLossByFlood ==
    [][nts' = nts + 1 /\ cond \in Classified /\ bands' = bands
          => Cardinality({n \in 1 .. nts : Waiting(Ts(n))}) = Limit]_vars

\* The probes tell the story of the README: behind veth no packet has a priority
\* any more, and at egress as many have priority 6 as the talker sent, or none
\* without the classifier, whatever the condition before was.
ProbesTell ==
    stage = "measure" =>
        probe_in = 0 /\ probe_out = IF cond \in Classified THEN nts ELSE 0

\* No time-sensitive packet starves, although the flood never pauses.
TsServed == \A n \in 1 .. MaxTs : Waiting(Ts(n)) ~> ~Waiting(Ts(n))

\* With the classifier the flood delays a time-sensitive packet by one packet at
\* most and never costs it its place in the queue.
TsFirst == StrictPriority /\ NoLossByFlood

\* Without the classifier three bands are one FIFO ("pfifo_fast_noclsf stays at
\* the 430 ms of fifo"): every qdisc installed for a condition without it
\* implements FifoQueue, whatever was installed before.
Unclassified == cond \notin Classified /\ stage \in {"qdisc add", "filter add", "measure"}
Fifo == INSTANCE FifoQueue WITH
            on <- Unclassified,
            q  <- IF Unclassified THEN bands[0] \o bands[1] \o bands[2] ELSE <<>>
NoclsfIsFifo == Fifo!Spec
=============================================================================
