---------------------------- MODULE TimingProofs ----------------------------
(***************************************************************************)
(* Proofs about Timing, for every interval, count and sleep margin and     *)
(* every set of clock steps.                                               *)
(***************************************************************************)
EXTENDS Timing, TLAPS

\* A packet is being made for a seq that is still to be sent.
Busy == pc \in {"decide", "sleep", "stamp", "send"}

NetPackets == [seq : Nat, send_ns : Int, nsteps : Nat, sent : Nat]

\* The talker's clock reading is of the past, and so is the end of its wait.
TalkerInv ==
    /\ Busy => seq < Count
    /\ pc = "decide" => now \in Nat /\ now <= mono
    /\ pc \in {"stamp", "send"} =>
          /\ drift \in Nat /\ scheduled_ns + drift <= mono
          /\ packet.due \in Nat /\ packet.due <= mono
          /\ packet.nsteps \in Nat /\ packet.nsteps <= nsteps

\* What the last packet that was sent leaves behind: it was due, and once all
\* are sent its drift is still known.
SentInv ==
    /\ (seq - 1) * Interval <= mono
    /\ pc = "read" /\ seq = Count /\ Count > 0 =>
          drift \in Nat /\ (seq - 1) * Interval + drift <= mono

\* Packets on their way left in time.  A packet whose stamp was read since the
\* last clock step was stamped before it left and after its wait.
NetInv ==
    \A p \in net :
        /\ p \in NetPackets
        /\ p.sent >= p.seq * Interval
        /\ p.nsteps <= nsteps
        /\ p.nsteps = nsteps => p.send_ns <= p.sent + offset

StampInv ==
    pc = "send" =>
        /\ packet.send_ns \in Int
        /\ packet.nsteps = nsteps =>
              /\ packet.due + offset <= packet.send_ns
              /\ packet.send_ns <= mono + offset

\* A previous row that the current offset does not explain has a clock step
\* that no row has been charged with yet.
JitterInv ==
    /\ spoiled \in Nat
    /\ spoiled <= nsteps
    /\ prev # None =>
          /\ prev \in [recv_ns : Int, at : Int]
          /\ prev.recv_ns - prev.at # offset => spoiled + 1 <= nsteps

Inv == TypeOK /\ TalkerInv /\ SentInv /\ NetInv /\ StampInv /\ JitterInv
         /\ SilentMeansPaced

-----------------------------------------------------------------------------
(* The invariant is inductive *)

\* The schedule in whole intervals.
LEMMA Schedule ==
    ASSUME NEW k \in Int
    PROVE  /\ k * Interval \in Int
           /\ ((k + 1) - 1) * Interval = k * Interval
           /\ k >= 0 => k * Interval >= 0
  BY TimingAssumption

\* The initial state satisfies the invariant.
LEMMA InitInv ==
    ASSUME Init
    PROVE  Inv
  <1> USE TimingAssumption DEF Init
  <1>1. TypeOK
    <2>1. warned \in BOOLEAN
      OBVIOUS
    <2>2. QED
      BY <2>1 DEF TypeOK
  <1>2. TalkerInv /\ NetInv /\ StampInv /\ JitterInv /\ SilentMeansPaced
    BY DEF TalkerInv, NetInv, StampInv, JitterInv, SilentMeansPaced, Busy
  <1>3. SentInv
    BY DEF SentInv
  <1>4. QED
    BY <1>1, <1>2, <1>3 DEF Inv

\* Every step keeps the variables well typed.
LEMMA TypeOKNext ==
    ASSUME Inv, [Next]_vars
    PROVE  TypeOK'
  <1> USE TimingAssumption
          DEF Inv, TypeOK, TalkerInv, Busy, clock, counts, talker, listener
  <1>1. CASE Tick
    BY <1>1 DEF Tick
  <1>2. ASSUME NEW d \in Steps, ClockStep(d) PROVE TypeOK'
    BY <1>2 DEF ClockStep
  <1>3. CASE ReadClock
    BY <1>3 DEF ReadClock
  <1>4. CASE Sleep
    <2>1. (scheduled_ns - now) - SleepMargin \in Nat
      BY <1>4, Schedule DEF Sleep, scheduled_ns
    <2>2. QED
      BY <1>4, <2>1 DEF Sleep
  <1>5. CASE Wake
    BY <1>5 DEF Wake
  <1>6. CASE BusyWait
    BY <1>6 DEF BusyWait
  <1>7. CASE Due
    BY <1>7 DEF Due
  <1>8. CASE Stamp
    BY <1>8 DEF Stamp
  <1>9. CASE Send
    BY <1>9 DEF Send
  <1>10. CASE SendFails
    BY <1>10 DEF SendFails
  <1>11. CASE Report
    <2>1. warned' \in BOOLEAN
      BY <1>11 DEF Report, Warning
    <2>2. QED
      BY <1>11, <2>1 DEF Report
  <1>12. ASSUME NEW p \in net, Recv(p) PROVE TypeOK'
    BY <1>12 DEF Recv
  <1>13. CASE UNCHANGED vars
    BY <1>13 DEF vars
  <1>14. QED
    BY <1>1, <1>2, <1>3, <1>4, <1>5, <1>6, <1>7, <1>8, <1>9, <1>10, <1>11,
       <1>12, <1>13 DEF Next

\* Every step keeps the talker's readings in the past.
LEMMA TalkerInvNext ==
    ASSUME Inv, [Next]_vars
    PROVE  TalkerInv'
  <1> USE TimingAssumption
          DEF Inv, TalkerInv, TypeOK, Busy, scheduled_ns, clock, counts,
              talker, listener
  <1>1. CASE Tick
    BY <1>1 DEF Tick
  <1>2. ASSUME NEW d \in Steps, ClockStep(d) PROVE TalkerInv'
    BY <1>2 DEF ClockStep
  <1>3. CASE ReadClock
    BY <1>3 DEF ReadClock
  <1>4. CASE Sleep
    BY <1>4 DEF Sleep
  <1>5. CASE Wake
    BY <1>5 DEF Wake
  <1>6. CASE BusyWait
    BY <1>6 DEF BusyWait
  <1>7. CASE Due
    BY <1>7 DEF Due
  <1>8. CASE Stamp
    BY <1>8 DEF Stamp
  <1>9. CASE Send
    BY <1>9 DEF Send
  <1>10. CASE SendFails
    BY <1>10 DEF SendFails
  <1>11. CASE Report
    BY <1>11 DEF Report
  <1>12. ASSUME NEW p \in net, Recv(p) PROVE TalkerInv'
    BY <1>12 DEF Recv
  <1>13. CASE UNCHANGED vars
    BY <1>13 DEF vars
  <1>14. QED
    BY <1>1, <1>2, <1>3, <1>4, <1>5, <1>6, <1>7, <1>8, <1>9, <1>10, <1>11,
       <1>12, <1>13 DEF Next

\* Every step keeps the schedule of what was sent.
LEMMA SentInvNext ==
    ASSUME Inv, [Next]_vars
    PROVE  SentInv'
  <1> USE TimingAssumption
          DEF Inv, SentInv, TalkerInv, TypeOK, Busy, scheduled_ns, clock,
              counts, talker, listener
  <1>1. CASE Tick
    BY <1>1 DEF Tick
  <1>2. ASSUME NEW d \in Steps, ClockStep(d) PROVE SentInv'
    BY <1>2 DEF ClockStep
  <1>3. CASE ReadClock
    BY <1>3 DEF ReadClock
  <1>4. CASE Sleep
    BY <1>4 DEF Sleep
  <1>5. CASE Wake
    BY <1>5 DEF Wake
  <1>6. CASE BusyWait
    BY <1>6 DEF BusyWait
  <1>7. CASE Due
    BY <1>7 DEF Due
  <1>8. CASE Stamp
    BY <1>8 DEF Stamp
  <1>9. CASE Send
    BY <1>9 DEF Send
  <1>10. CASE SendFails
    BY <1>10 DEF SendFails
  <1>11. CASE Report
    BY <1>11 DEF Report
  <1>12. ASSUME NEW p \in net, Recv(p) PROVE SentInv'
    BY <1>12 DEF Recv
  <1>13. CASE UNCHANGED vars
    BY <1>13 DEF vars
  <1>14. QED
    BY <1>1, <1>2, <1>3, <1>4, <1>5, <1>6, <1>7, <1>8, <1>9, <1>10, <1>11,
       <1>12, <1>13 DEF Next

\* Every step keeps the packets on their way punctual.
LEMMA NetInvNext ==
    ASSUME Inv, [Next]_vars
    PROVE  NetInv'
  <1> USE TimingAssumption
          DEF Inv, NetInv, NetPackets, TalkerInv, StampInv, TypeOK, clock,
              counts, talker, listener
  <1>1. CASE Tick
    BY <1>1 DEF Tick
  <1>2. ASSUME NEW d \in Steps, ClockStep(d) PROVE NetInv'
    BY <1>2 DEF ClockStep
  <1>3. CASE ReadClock
    BY <1>3 DEF ReadClock
  <1>4. CASE Sleep
    BY <1>4 DEF Sleep
  <1>5. CASE Wake
    BY <1>5 DEF Wake
  <1>6. CASE BusyWait
    BY <1>6 DEF BusyWait
  <1>7. CASE Due
    BY <1>7 DEF Due
  <1>8. CASE Stamp
    BY <1>8 DEF Stamp
  <1>9. CASE Send
    <2> DEFINE q == [seq |-> seq, send_ns |-> packet.send_ns,
                     nsteps |-> packet.nsteps, sent |-> mono]
    <2>1. q \in NetPackets /\ q.nsteps <= nsteps
      BY <1>9 DEF Send
    <2>2. q.sent >= q.seq * Interval
      BY <1>9, Schedule DEF Send, scheduled_ns
    <2>3. q.nsteps = nsteps => q.send_ns <= q.sent + offset
      BY <1>9 DEF Send
    <2>4. net' = net \cup {q} /\ UNCHANGED <<nsteps, offset>>
      BY <1>9 DEF Send
    <2> HIDE DEF q
    <2>5. QED
      BY <2>1, <2>2, <2>3, <2>4
  <1>10. CASE SendFails
    BY <1>10 DEF SendFails
  <1>11. CASE Report
    BY <1>11 DEF Report
  <1>12. ASSUME NEW p \in net, Recv(p) PROVE NetInv'
    BY <1>12 DEF Recv
  <1>13. CASE UNCHANGED vars
    BY <1>13 DEF vars
  <1>14. QED
    BY <1>1, <1>2, <1>3, <1>4, <1>5, <1>6, <1>7, <1>8, <1>9, <1>10, <1>11,
       <1>12, <1>13 DEF Next

\* Every step keeps the stamp between the wait and the departure.
LEMMA StampInvNext ==
    ASSUME Inv, [Next]_vars
    PROVE  StampInv'
  <1> USE TimingAssumption
          DEF Inv, StampInv, TalkerInv, TypeOK, time_ns, clock, counts,
              talker, listener
  <1>1. CASE Tick
    BY <1>1 DEF Tick
  <1>2. ASSUME NEW d \in Steps, ClockStep(d) PROVE StampInv'
    BY <1>2 DEF ClockStep
  <1>3. CASE ReadClock
    BY <1>3 DEF ReadClock
  <1>4. CASE Sleep
    BY <1>4 DEF Sleep
  <1>5. CASE Wake
    BY <1>5 DEF Wake
  <1>6. CASE BusyWait
    BY <1>6 DEF BusyWait
  <1>7. CASE Due
    BY <1>7 DEF Due
  <1>8. CASE Stamp
    BY <1>8 DEF Stamp
  <1>9. CASE Send
    BY <1>9 DEF Send
  <1>10. CASE SendFails
    BY <1>10 DEF SendFails
  <1>11. CASE Report
    BY <1>11 DEF Report
  <1>12. ASSUME NEW p \in net, Recv(p) PROVE StampInv'
    BY <1>12 DEF Recv
  <1>13. CASE UNCHANGED vars
    BY <1>13 DEF vars
  <1>14. QED
    BY <1>1, <1>2, <1>3, <1>4, <1>5, <1>6, <1>7, <1>8, <1>9, <1>10, <1>11,
       <1>12, <1>13 DEF Next

\* Every step charges a clock step with one row at most.
LEMMA JitterInvNext ==
    ASSUME Inv, [Next]_vars
    PROVE  JitterInv'
  <1> USE TimingAssumption
          DEF Inv, JitterInv, TypeOK, time_ns, Jitter, clock, counts,
              talker, listener
  <1>1. CASE Tick
    BY <1>1 DEF Tick
  <1>2. ASSUME NEW d \in Steps, ClockStep(d) PROVE JitterInv'
    BY <1>2 DEF ClockStep
  <1>3. CASE ReadClock
    BY <1>3 DEF ReadClock
  <1>4. CASE Sleep
    BY <1>4 DEF Sleep
  <1>5. CASE Wake
    BY <1>5 DEF Wake
  <1>6. CASE BusyWait
    BY <1>6 DEF BusyWait
  <1>7. CASE Due
    BY <1>7 DEF Due
  <1>8. CASE Stamp
    BY <1>8 DEF Stamp
  <1>9. CASE Send
    BY <1>9 DEF Send
  <1>10. CASE SendFails
    BY <1>10 DEF SendFails
  <1>11. CASE Report
    BY <1>11 DEF Report
  <1>12. ASSUME NEW p \in net, Recv(p) PROVE JitterInv'
    BY <1>12 DEF Recv
  <1>13. CASE UNCHANGED vars
    BY <1>13 DEF vars
  <1>14. QED
    BY <1>1, <1>2, <1>3, <1>4, <1>5, <1>6, <1>7, <1>8, <1>9, <1>10, <1>11,
       <1>12, <1>13 DEF Next

\* Every step keeps an unwarned end punctual.
LEMMA SilentMeansPacedNext ==
    ASSUME Inv, [Next]_vars
    PROVE  SilentMeansPaced'
  <1> USE TimingAssumption
          DEF Inv, SilentMeansPaced, SentInv, TalkerInv, TypeOK, Busy,
              clock, counts, talker, listener
  <1>1. CASE Tick
    BY <1>1 DEF Tick
  <1>2. ASSUME NEW d \in Steps, ClockStep(d) PROVE SilentMeansPaced'
    BY <1>2 DEF ClockStep
  <1>3. CASE ReadClock
    BY <1>3 DEF ReadClock
  <1>4. CASE Sleep
    BY <1>4 DEF Sleep
  <1>5. CASE Wake
    BY <1>5 DEF Wake
  <1>6. CASE BusyWait
    BY <1>6 DEF BusyWait
  <1>7. CASE Due
    BY <1>7 DEF Due
  <1>8. CASE Stamp
    BY <1>8 DEF Stamp
  <1>9. CASE Send
    BY <1>9 DEF Send
  <1>10. CASE SendFails
    BY <1>10 DEF SendFails
  <1>11. CASE Report
    <2> SUFFICES ASSUME ~warned' PROVE SilentMeansPaced'
      OBVIOUS
    <2>a. ~Warning(mono)
      BY <1>11, Zenon DEF Report
    <2>1. /\ sent >= Count /\ ~(100 * sent * Interval < 95 * mono)
          /\ UNCHANGED <<sent, drift>>
      BY <1>11, <2>a DEF Report, Warning
    <2>2. sent = Count /\ seq = Count
      BY <2>1
    <2>3. pc = "read"
      BY <1>11, <2>2 DEF Report
    <2>4. CASE Count > 0
      <3>1. drift \in Nat /\ (Count - 1) * Interval + drift <= mono
        BY <2>2, <2>3, <2>4
      <3>2. (Count - 1) * Interval \in Int /\ 100 * Count * Interval \in Int
        OBVIOUS
      <3>3. 95 * ((Count - 1) * Interval + drift) <= 95 * mono
        BY <3>1, <3>2
      <3>4. 95 * mono <= 100 * Count * Interval
        BY <2>1, <2>2, <3>2
      <3>5. 95 * ((Count - 1) * Interval + drift) <= 100 * Count * Interval
        BY <3>1, <3>2, <3>3, <3>4
      <3>6. QED
        BY <2>1, <2>2, <3>5
    <2>5. CASE ~(Count > 0)
      BY <2>1, <2>2, <2>5
    <2>6. QED
      BY <2>4, <2>5
  <1>12. ASSUME NEW p \in net, Recv(p) PROVE SilentMeansPaced'
    BY <1>12 DEF Recv
  <1>13. CASE UNCHANGED vars
    BY <1>13 DEF vars
  <1>14. QED
    BY <1>1, <1>2, <1>3, <1>4, <1>5, <1>6, <1>7, <1>8, <1>9, <1>10, <1>11,
       <1>12, <1>13 DEF Next

-----------------------------------------------------------------------------
(* The theorems *)

\* The invariant holds in every reachable state.
LEMMA Invariance == Spec => []Inv
  <1>1. Inv /\ [Next]_vars => Inv'
    BY TypeOKNext, TalkerInvNext, SentInvNext, NetInvNext, StampInvNext,
       JitterInvNext, SilentMeansPacedNext DEF Inv
  <1>2. QED
    BY InitInv, <1>1, PTL DEF Spec

\* talker.py's pacing loop: it never asks for a negative sleep, no packet
\* leaves before its time on the monotonic schedule, and a run that ends
\* without the WARNING sent every packet, the last one in time.
THEOREM PacedSafe == Spec => []Paced
  <1>1. Inv => NeverEarly
    BY DEF Inv, NetInv, SentInv, TypeOK, NeverEarly
  <1>2. Inv => Paced
    BY <1>1 DEF Inv, Paced
  <1>3. QED
    BY Invariance, <1>2, PTL

\* listener.py's latency and jitter: unless the wall clock is stepped while a
\* packet is under way its latency covers the time on the network and leaves
\* out the talker's lateness; and each clock step spoils one jitter at most.
THEOREM RowsHonestSafe == Spec => []RowsHonest
  <1>1. Inv => LatencyHonest
    <2> SUFFICES ASSUME Inv PROVE LatencyHonest
      OBVIOUS
    <2>1. pc = "send" /\ packet.nsteps = nsteps =>
             Latency(packet) <= mono - packet.due
      BY DEF Inv, TypeOK, TalkerInv, StampInv, Latency, time_ns
    <2>2. ASSUME NEW p \in net, p.nsteps = nsteps PROVE Latency(p) >= mono - p.sent
      BY <2>2 DEF Inv, TypeOK, NetInv, NetPackets, Latency, time_ns
    <2>3. QED
      BY <2>1, <2>2 DEF LatencyHonest
  <1>2. Inv => OneJitterPerStep
    BY DEF Inv, JitterInv, OneJitterPerStep
  <1>3. QED
    BY Invariance, <1>1, <1>2, PTL DEF RowsHonest
=============================================================================
