------------------------------- MODULE Timing -------------------------------
(***************************************************************************)
(* The clocks of one measurement.  workload/talker.py paces itself by the  *)
(* monotonic clock and stamps its packets with the wall clock;             *)
(* workload/listener.py subtracts the stamp from the wall clock it reads   *)
(* when the packet reaches it.  NTP may step the wall clock at any time,   *)
(* and either process may be descheduled between any two statements.       *)
(*                                                                         *)
(* Time is measured in ticks.  mono is real time since the talker started; *)
(* the wall clock shows mono + offset.  Numbering, duplicates and how the  *)
(* listener ends are in Measurement.                                       *)
(***************************************************************************)
EXTENDS Integers

CONSTANTS
    Interval,     \* interval_ns, of the talker and expected by the listener
    Count,        \* --count
    SleepAbove,   \* 500 us: a wait above it is slept ...
    SleepMargin,  \* ... up to 200 us before its end
    Steps,        \* by how much the wall clock may be stepped, both ways
    MaxSteps,     \* bound: number of steps
    MaxTime,      \* bound: real time
    None

ASSUME TimingAssumption ==
    /\ Interval \in Nat \ {0} /\ Count \in Nat
    /\ SleepAbove \in Nat /\ SleepMargin \in Nat /\ SleepMargin <= SleepAbove
    /\ Steps \subseteq Int \ {0}
    /\ MaxSteps \in Nat /\ MaxTime \in Nat /\ (Count - 1) * Interval <= MaxTime
    /\ None \notin Int

VARIABLES
    mono, offset, nsteps,
    pc,              \* talker: "read", "decide", "sleep", "stamp", "send", "done"
    seq,
    now,             \* its last reading of the clock, None when no longer used
    nap,             \* what is left of the time asked of time.sleep()
    drift,           \* drifts_us[-1], None while the talker waits
    packet,          \* the packet being made: send_ns; history: when its wait ended
    sent, errors, warned,
    net,             \* packets on their way or in the listener's socket
    prev,            \* listener: prev_recv_ns, and the real time it stands for
    spoiled          \* history: rows whose jitter is not that of real time

clock == <<mono, offset, nsteps>>
counts == <<sent, errors, warned>>
talker == <<pc, seq, now, nap, drift, packet, counts>>
listener == <<prev, spoiled>>
vars == <<clock, talker, net, listener>>

time_ns == mono + offset
scheduled_ns == seq * Interval

Init ==
    /\ mono = 0 /\ offset = 0 /\ nsteps = 0
    /\ pc = "read" /\ seq = 0 /\ now = None /\ nap = 0
    /\ drift = None /\ packet = None
    /\ sent = 0 /\ errors = 0 /\ warned = FALSE
    /\ net = {}
    /\ prev = None /\ spoiled = 0

-----------------------------------------------------------------------------
(* The environment *)

Tick ==
    /\ mono < MaxTime
    /\ mono' = mono + 1
    /\ nap' = IF nap > 0 THEN nap - 1 ELSE nap
    /\ UNCHANGED <<offset, nsteps, pc, seq, now, drift, packet, counts, net, listener>>

ClockStep(d) ==
    /\ nsteps < MaxSteps
    /\ offset' = offset + d
    /\ nsteps' = nsteps + 1
    /\ UNCHANGED <<mono, talker, net, listener>>

-----------------------------------------------------------------------------
(* The talker *)

ReadClockWall ==      \* mutant: paced by the wall clock
    /\ pc = "read" /\ seq < Count
    /\ now' = time_ns /\ drift' = None
    /\ pc' = "decide"
    /\ UNCHANGED <<clock, seq, nap, packet, counts, net, listener>>
ReadClock ==
    /\ pc = "read" /\ seq < Count
    /\ now' = mono /\ drift' = None
    /\ pc' = "decide"
    /\ UNCHANGED <<clock, seq, nap, packet, counts, net, listener>>

\* A long wait is slept, all but its end ...
Sleep ==
    /\ pc = "decide" /\ scheduled_ns - now > SleepAbove
    /\ nap' = (scheduled_ns - now) - SleepMargin
    /\ pc' = "sleep" /\ now' = None
    /\ UNCHANGED <<clock, seq, drift, packet, counts, net, listener>>

\* ... and time.sleep() may return late, never early (but when the bound on time
\* cuts it short, after every scheduled time) ...
Wake ==
    /\ pc = "sleep" /\ (nap = 0 \/ mono = MaxTime)
    /\ pc' = "read" /\ nap' = 0
    /\ UNCHANGED <<clock, seq, now, drift, packet, counts, net, listener>>

\* ... for a short one the clock is read again.
BusyWaitStale ==      \* mutant: it is not
    /\ pc = "decide" /\ scheduled_ns - now \in 1 .. SleepAbove
    /\ UNCHANGED vars
BusyWait ==
    /\ pc = "decide" /\ scheduled_ns - now \in 1 .. SleepAbove
    /\ pc' = "read" /\ now' = None
    /\ UNCHANGED <<clock, seq, nap, drift, packet, counts, net, listener>>

Due ==
    /\ pc = "decide" /\ now >= scheduled_ns
    /\ drift' = now - scheduled_ns
    /\ packet' = [due |-> mono, nsteps |-> nsteps]
    /\ pc' = "stamp" /\ now' = None
    /\ UNCHANGED <<clock, seq, nap, counts, net, listener>>

Stamp ==
    /\ pc = "stamp"
    /\ packet' = [due |-> packet.due, nsteps |-> packet.nsteps, send_ns |-> time_ns]
    /\ pc' = "send"
    /\ UNCHANGED <<clock, seq, now, nap, drift, counts, net, listener>>

Send ==
    /\ pc = "send"
    /\ net' = net \cup {[seq |-> seq, send_ns |-> packet.send_ns, nsteps |-> packet.nsteps, sent |-> mono]}
    /\ sent' = sent + 1
    /\ seq' = seq + 1 /\ pc' = "read" /\ packet' = None
    /\ UNCHANGED <<clock, now, nap, drift, errors, warned, listener>>

\* OSError
SendFails ==
    /\ pc = "send"
    /\ errors' = errors + 1
    /\ seq' = seq + 1 /\ pc' = "read" /\ packet' = None
    /\ UNCHANGED <<clock, now, nap, drift, sent, warned, net, listener>>

\* All sent or KeyboardInterrupt: the rate of the whole run is judged, at least
\* 95 % of the target.
Warning(elapsed) == sent < Count \/ 100 * sent * Interval < 95 * elapsed
Report ==
    /\ pc # "done"
    /\ warned' = Warning(mono)
    /\ pc' = "done" /\ nap' = 0 /\ now' = None /\ packet' = None
    /\ UNCHANGED <<clock, seq, drift, sent, errors, net, listener>>

-----------------------------------------------------------------------------
(* The listener: recv_one() returns a packet and time.time_ns() is read *)

Latency(p) == time_ns - p.send_ns

\* There is no previous row for the first one.
JitterOfStamp(p) ==   \* mutant: spacing of the stamp instead of the arrival
    IF prev = None THEN 0 ELSE p.send_ns - (prev.recv_ns + Interval)
Jitter(p) ==
    IF prev = None THEN 0 ELSE time_ns - (prev.recv_ns + Interval)

\* A row is made of the packet.  A lost packet is one that is never received.
Recv(p) ==
    /\ net' = net \ {p}
    /\ prev' = [recv_ns |-> time_ns, at |-> mono]
    /\ spoiled' = IF prev # None /\ Jitter(p) # mono - (prev.at + Interval)
                  THEN spoiled + 1 ELSE spoiled
    /\ UNCHANGED <<clock, talker>>

Next ==
    \/ Tick \/ (\E d \in Steps : ClockStep(d))
    \/ ReadClock \/ Sleep \/ Wake \/ BusyWait \/ Due \/ Stamp \/ Send \/ SendFails
    \/ Report
    \/ \E p \in net : Recv(p)

\* Time passes and a runnable process is scheduled.
Fairness ==
    /\ WF_vars(Tick)
    /\ WF_vars(ReadClock) /\ WF_vars(Sleep) /\ WF_vars(Wake) /\ WF_vars(BusyWait)
    /\ WF_vars(Due) /\ WF_vars(Stamp) /\ WF_vars(Send \/ SendFails)
    /\ WF_vars(seq = Count /\ Report)

Spec == Init /\ [][Next]_vars /\ Fairness

-----------------------------------------------------------------------------
(* Properties *)

\* Types.  time.sleep() is never called with a negative time, which raises
\* ValueError and would end the talker.
TypeOK ==
    /\ mono \in 0 .. MaxTime /\ offset \in Int /\ nsteps \in 0 .. MaxSteps
    /\ pc \in {"read", "decide", "sleep", "stamp", "send", "done"}
    /\ seq \in 0 .. Count /\ nap \in Nat
    /\ sent \in Nat /\ errors \in Nat /\ sent + errors = seq
    /\ warned \in BOOLEAN /\ spoiled \in Nat

\* Stalls and clock steps notwithstanding, no packet leaves before its time on
\* the monotonic schedule: the talker never runs ahead, and a stall is made up
\* for without shifting the packets after it.
NeverEarly ==
    /\ \A p \in net : p.sent >= p.seq * Interval
    /\ (sent + errors - 1) * Interval <= mono

\* Unless the wall clock is stepped between the talker's reading and the
\* listener's, the latency recorded of a packet covers its time from sendto() to
\* the listener, so it is never negative, and leaves out how late the packet was
\* on the talker's schedule.
LatencyHonest ==
    /\ pc = "send" /\ packet.nsteps = nsteps => Latency(packet) <= mono - packet.due
    /\ \A p \in net : p.nsteps = nsteps => Latency(p) >= mono - p.sent

\* A step of the wall clock spoils the jitter of one row at most: every other
\* jitter is the deviation from the interval in real time, however many steps
\* there were, whatever was lost or overtaken.
OneJitterPerStep == spoiled <= nsteps

\* Without the talker's WARNING every packet was handed to the network, the last
\* (and so each) within the time in which 95 % of the rate sends them all.
SilentMeansPaced ==
    pc = "done" /\ ~warned =>
        /\ sent = Count
        /\ Count > 0 => 95 * ((Count - 1) * Interval + drift) <= 100 * Count * Interval

\* The talker keeps to its schedule, or says so: no negative sleep, no packet
\* early, and no late run without a WARNING.
Paced == TypeOK /\ NeverEarly /\ SilentMeansPaced

\* The listener's rows can be trusted but for what a step of the wall clock
\* spoils: latencies of packets in flight, and one jitter.
RowsHonest == LatencyHonest /\ OneJitterPerStep

\* The talker ends, although it waits for a clock.
Terminates == <>(pc = "done")
=============================================================================
