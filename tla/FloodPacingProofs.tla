------------------------- MODULE FloodPacingProofs -------------------------
(***************************************************************************)
(* Proofs about FloodPacing, for every rate, lag, sleep margin and set of  *)
(* clock steps.                                                            *)
(***************************************************************************)
EXTENDS FloodPacing, TLAPS

\* A packet decided on and not yet handed to the kernel.
Pending == IF pc = "send" THEN 1 ELSE 0
PendingLoad == IF pc = "send" THEN PerPkt ELSE 0

\* How far the schedule is behind the clock, as far as it matters: what lies
\* beyond the lag is forgotten, and without clock steps the schedule is never
\* more than a packet ahead.
Clamp(b) == IF b > Lag + PerPkt THEN Lag + PerPkt
            ELSE IF b < -PerPkt THEN -PerPkt ELSE b
Behind == Clamp(mono + offset - next_tx)

\* What was sent in the window, what is about to be and what is owed.
WindowInv ==
    /\ opened = -1 => load = 0
    /\ opened # -1 =>
         load + PendingLoad + Behind <= (mono - opened) + Lag + 2 * PerPkt + credit

\* While the clock is not stepped, the schedule accounts for every packet.
ScheduleInv ==
    nsteps = 0 =>
        /\ offset = 0
        /\ (sent + errors + Pending) * PerPkt <= next_tx
        /\ next_tx <= mono + PerPkt

PaceInv == TypeOK /\ WindowInv /\ ScheduleInv

\* What PacingAssumption says of the command line's values, as integers.
LEMMA Constants ==
    /\ PerPkt \in Int /\ PerPkt > 0 /\ Lag \in Int /\ Lag >= 0
    /\ SleepAbove \in Int /\ SleepMargin \in Int /\ SleepMargin < SleepAbove
    /\ Duration \in Int /\ Steps \subseteq Int
  BY PacingAssumption

\* One more packet takes one more PerPkt of schedule.
LEMMA OneMore ==
    ASSUME NEW n \in Int
    PROVE  (n + 1) * PerPkt = n * PerPkt + PerPkt /\ n * PerPkt \in Int
  BY Constants

\* Moving a packet from the schedule's lag to what is about to be sent keeps
\* the bound.
LEMMA Trade ==
    ASSUME NEW l \in Int, NEW x \in Int, NEW y \in Int, NEW p \in Int, NEW r \in Int,
           y + p <= x, l + 0 + x <= r
    PROVE  l + p + y <= r
  OBVIOUS

\* Time passing, a clock step and a decision, seen through Clamp.
LEMMA ClampFacts ==
    ASSUME NEW b \in Int
    PROVE  /\ Clamp(b) \in Int /\ -PerPkt <= Clamp(b) /\ Clamp(b) <= Lag + PerPkt
           /\ Clamp(b + 1) <= Clamp(b) + 1
           /\ b >= 0 /\ b - PerPkt <= Lag => Clamp(b - PerPkt) + PerPkt <= Clamp(b)
           /\ b - PerPkt > Lag => Clamp(0) + PerPkt <= Clamp(b)
           /\ \A d \in Int : d <= 0 => Clamp(b + d) <= Clamp(b)
  BY Constants DEF Clamp

\* The loop starts with nothing sent and a schedule that begins now.
LEMMA PaceInit == Init => PaceInv
<1>. SUFFICES ASSUME Init PROVE PaceInv
  OBVIOUS
<1>1. TypeOK
  BY Constants DEF Init, TypeOK, now
<1>2. WindowInv
  BY DEF Init, WindowInv
<1>3. ScheduleInv
  BY Constants DEF Init, ScheduleInv, Pending, now
<1>. QED BY <1>1, <1>2, <1>3 DEF PaceInv

\* Every step keeps the types.
LEMMA TypeStep == TypeOK /\ [Next]_vars => TypeOK'
<1>. SUFFICES ASSUME TypeOK, [Next]_vars PROVE TypeOK'
  OBVIOUS
<1>. USE Constants DEF TypeOK
<1>1. CASE Tick
  BY <1>1 DEF Tick, window
<1>2. ASSUME NEW d \in Steps, ClockStep(d) PROVE TypeOK'
  BY <1>2 DEF ClockStep, program
<1>3. CASE OpenWindow
  BY <1>3 DEF OpenWindow, clock, program
<1>4. CASE Finish \/ Wake \/ Interrupt
  BY <1>4 DEF Finish, Wake, Interrupt, clock, window
<1>5. CASE Wait
  BY <1>5 DEF Wait, clock, window, now
<1>6. CASE Decide
  BY <1>6 DEF Decide, NextTx, clock, window, now
<1>7. CASE Send \/ SendFails
  BY <1>7 DEF Send, SendFails, clock, window
<1>8. CASE UNCHANGED vars
  BY <1>8 DEF vars, clock, program, window
<1>. QED BY <1>1, <1>2, <1>3, <1>4, <1>5, <1>6, <1>7, <1>8 DEF Next

\* Every step keeps the bound on what a window has let through.
LEMMA WindowStep == PaceInv /\ [Next]_vars => WindowInv'
<1>. SUFFICES ASSUME PaceInv, [Next]_vars PROVE WindowInv'
  OBVIOUS
<1>. DEFINE b == mono + offset - next_tx
<1>. USE Constants DEF PaceInv
<1>0. /\ b \in Int /\ Behind = Clamp(b) /\ mono \in Int /\ credit \in Int /\ load \in Int
      /\ opened \in Int /\ offset \in Int /\ next_tx \in Int
      /\ PendingLoad \in Int /\ PendingLoad >= 0 /\ PendingLoad <= PerPkt
  BY DEF TypeOK, Behind, PendingLoad
<1>1. CASE Tick
  <2>1. mono' = mono + 1 /\ UNCHANGED <<offset, next_tx, pc, opened, load, credit>>
    BY <1>1 DEF Tick, window
  <2>2. Behind' = Clamp(b + 1) /\ PendingLoad' = PendingLoad
    BY <1>0, <2>1 DEF Behind, PendingLoad
  <2>. QED BY <1>0, <2>1, <2>2, ClampFacts DEF WindowInv
<1>2. ASSUME NEW d \in Steps, ClockStep(d) PROVE WindowInv'
  <2>1. /\ offset' = offset + d /\ UNCHANGED <<mono, next_tx, pc, opened, load>>
        /\ credit' = IF d > 0 /\ opened # -1 THEN credit + Lag + 2 * PerPkt ELSE credit
        /\ d \in Int
    BY <1>2 DEF ClockStep, program
  <2>2. Behind' = Clamp(b + d) /\ PendingLoad' = PendingLoad
    BY <1>0, <2>1 DEF Behind, PendingLoad
  <2>3. b + d \in Int
    BY <1>0, <2>1
  <2>4. Clamp(b + d) \in Int /\ Clamp(b + d) <= Lag + PerPkt
    BY <2>3, ClampFacts
  <2>5. Clamp(b) \in Int /\ -PerPkt <= Clamp(b)
    BY <1>0, ClampFacts
  <2>6. d <= 0 => Clamp(b + d) <= Clamp(b)
    BY <1>0, <2>1, ClampFacts
  <2>. HIDE DEF b
  <2>. QED BY <1>0, <2>1, <2>2, <2>4, <2>5, <2>6 DEF WindowInv
<1>3. CASE OpenWindow
  <2>1. opened' = mono /\ load' = load /\ credit' = credit
        /\ UNCHANGED <<mono, offset, next_tx, pc>>
    BY <1>3 DEF OpenWindow, clock, program
  <2>2. Behind' = Clamp(b) /\ PendingLoad' = PendingLoad
    BY <1>0, <2>1 DEF Behind, PendingLoad
  <2>3. Clamp(b) \in Int /\ Clamp(b) <= Lag + PerPkt
    BY <1>0, ClampFacts
  <2>4. load = 0 /\ credit >= 0
    BY <1>3 DEF OpenWindow, TypeOK, WindowInv
  <2>. HIDE DEF b
  <2>. QED BY <1>0, <2>1, <2>2, <2>3, <2>4 DEF WindowInv
<1>4. CASE Finish \/ Wait \/ Wake \/ Interrupt
  <2>1. UNCHANGED <<mono, offset, next_tx, opened, load, credit>>
        /\ PendingLoad' <= PendingLoad /\ PendingLoad' \in Int
    BY <1>4 DEF Finish, Wait, Wake, Interrupt, clock,
                window, PendingLoad
  <2>2. Behind' = Behind
    BY <2>1 DEF Behind
  <2>3. Behind \in Int
    BY <1>0, ClampFacts
  <2>. HIDE DEF b
  <2>. QED BY <1>0, <2>1, <2>2, <2>3 DEF WindowInv
<1>5. CASE Decide
  <2>1. UNCHANGED <<mono, offset, opened, load, credit>> /\ PendingLoad' = PerPkt
        /\ PendingLoad = 0 /\ next_tx <= mono + offset
    BY <1>5 DEF Decide, clock, window, PendingLoad, now
  <2>2. \/ b - PerPkt > Lag /\ next_tx' = mono + offset
        \/ b - PerPkt <= Lag /\ next_tx' = next_tx + PerPkt
    BY <1>0, <1>5 DEF Decide, NextTx, now
  <2>3. Behind' + PerPkt <= Clamp(b) /\ Behind' \in Int
    <3>1. CASE b - PerPkt > Lag /\ next_tx' = mono + offset
      <4>1. Behind' = Clamp(0)
        BY <1>0, <2>1, <3>1 DEF Behind
      <4>2. Clamp(0) \in Int
        BY ClampFacts
      <4>. QED BY <1>0, <3>1, <4>1, <4>2, ClampFacts
    <3>2. CASE b - PerPkt <= Lag /\ next_tx' = next_tx + PerPkt
      <4>1. Behind' = Clamp(b - PerPkt) /\ b >= 0 /\ b - PerPkt \in Int
        BY <1>0, <2>1, <3>2 DEF Behind
      <4>. QED BY <1>0, <3>2, <4>1, ClampFacts
    <3>. QED BY <2>2, <3>1, <3>2
  <2>4. Clamp(b) \in Int
    BY <1>0, ClampFacts
  <2>5. Behind \in Int /\ Behind' \in Int /\ Behind' + PerPkt <= Behind
    BY <1>0, <2>3, <2>4
  <2>. HIDE DEF b
  <2>6. opened # -1 =>
          load + PerPkt + Behind' <= (mono - opened) + Lag + 2 * PerPkt + credit
    <3>. SUFFICES ASSUME opened # -1
                  PROVE  load + PerPkt + Behind' <= (mono - opened) + Lag + 2 * PerPkt + credit
      OBVIOUS
    <3>1. load + PendingLoad + Behind <= (mono - opened) + Lag + 2 * PerPkt + credit
      BY DEF WindowInv
    <3>2. load + 0 + Behind <= (mono - opened) + Lag + 2 * PerPkt + credit
      BY <2>1, <3>1
    <3>3. load \in Int /\ mono \in Int /\ opened \in Int /\ credit \in Int
      BY <1>0
    <3>4. (mono - opened) + Lag + 2 * PerPkt + credit \in Int
      BY <3>3
    <3>5. PICK x \in Int, y \in Int : x = Behind /\ y = Behind'
      BY <2>5
    <3>6. y + PerPkt <= x /\ load + 0 + x <= (mono - opened) + Lag + 2 * PerPkt + credit
      BY <2>5, <3>2, <3>5
    <3>7. load + PerPkt + y <= (mono - opened) + Lag + 2 * PerPkt + credit
      BY <3>3, <3>4, <3>6, Trade
    <3>. QED BY <3>5, <3>7
  <2>. QED BY <2>1, <2>6 DEF WindowInv
<1>6. CASE Send \/ SendFails
  <2>1. UNCHANGED <<mono, offset, next_tx, opened, credit>>
        /\ PendingLoad = PerPkt /\ PendingLoad' = 0
        /\ (load' = load \/ load' = load + PerPkt)
        /\ (opened = -1 => load' = load)
    BY <1>6 DEF Send, SendFails, clock, window, PendingLoad
  <2>2. Behind' = Behind
    BY <2>1 DEF Behind
  <2>3. Behind \in Int
    BY <1>0, ClampFacts
  <2>. HIDE DEF b
  <2>. QED BY <1>0, <2>1, <2>2, <2>3 DEF WindowInv
<1>7. CASE UNCHANGED vars
  BY <1>7 DEF vars, clock, program, window, WindowInv, Behind,
              PendingLoad
<1>. QED BY <1>1, <1>2, <1>3, <1>4, <1>5, <1>6, <1>7 DEF Next

\* Without clock steps, every step keeps next_tx the account of all packets.
LEMMA ScheduleStep == PaceInv /\ [Next]_vars => ScheduleInv'
<1>. SUFFICES ASSUME PaceInv, [Next]_vars PROVE ScheduleInv'
  OBVIOUS
<1>. DEFINE n == sent + errors
<1>. USE Constants DEF PaceInv
<1>0. /\ mono \in Int /\ offset \in Int /\ next_tx \in Int /\ n \in Int /\ nsteps \in Nat
      /\ sent \in Nat /\ errors \in Nat
      /\ n * PerPkt \in Int /\ (n + 1) * PerPkt = n * PerPkt + PerPkt
  BY OneMore DEF TypeOK
<1>1. CASE Tick
  BY <1>0, <1>1 DEF Tick, ScheduleInv, Pending
<1>2. ASSUME NEW d \in Steps, ClockStep(d) PROVE ScheduleInv'
  BY <1>0, <1>2 DEF ClockStep, ScheduleInv
<1>3. CASE OpenWindow
  BY <1>3 DEF OpenWindow, clock, program, ScheduleInv, Pending
<1>4. CASE Finish \/ Wait \/ Wake \/ Interrupt
  <2>1. UNCHANGED <<mono, offset, nsteps, next_tx, sent, errors>>
        /\ Pending' = 0 /\ Pending \in {0, 1}
    BY <1>4 DEF Finish, Wait, Wake, Interrupt, clock, Pending
  <2>. QED BY <1>0, <2>1 DEF ScheduleInv
<1>5. CASE Decide
  <2>1. UNCHANGED <<mono, offset, nsteps, sent, errors>> /\ Pending = 0 /\ Pending' = 1
        /\ next_tx <= mono + offset
    BY <1>5 DEF Decide, clock, Pending, now
  <2>2. next_tx' \in Int /\ next_tx' >= next_tx + PerPkt /\ next_tx' <= mono + offset + PerPkt
    BY <1>0, <1>5, <2>1 DEF Decide, NextTx, now
  <2>. QED BY <1>0, <2>1, <2>2 DEF ScheduleInv
<1>6. CASE Send \/ SendFails
  <2>1. UNCHANGED <<mono, offset, nsteps, next_tx>> /\ Pending = 1 /\ Pending' = 0
    BY <1>6 DEF Send, SendFails, clock, Pending
  <2>2. sent' + errors' + Pending' = sent + errors + Pending
    BY <1>0, <1>6, <2>1 DEF Send, SendFails
  <2>. QED BY <2>1, <2>2 DEF ScheduleInv
<1>7. CASE UNCHANGED vars
  BY <1>7 DEF vars, clock, program, ScheduleInv, Pending
<1>. QED BY <1>1, <1>2, <1>3, <1>4, <1>5, <1>6, <1>7 DEF Next

\* The inductive invariant holds in every reachable state.
LEMMA PaceAlways == Spec => []PaceInv
<1>1. PaceInv /\ [Next]_vars => PaceInv'
  BY TypeStep, WindowStep, ScheduleStep DEF PaceInv
<1>. QED BY <1>1, PaceInit, PTL DEF Spec

\* The loop keeps its types; in particular it never sleeps a negative time.
THEOREM TypeCorrect == Spec => []TypeOK
<1>1. PaceInv => TypeOK
  BY DEF PaceInv
<1>. QED BY <1>1, PaceAlways, PTL

\* The flood never exceeds the offered rate by more than the forgiven lag, in
\* any window of real time and under any clock steps.
THEOREM RateBoundedSafe == Spec => []RateBounded
<1>1. PaceInv => RateBounded
  <2>. SUFFICES ASSUME PaceInv, opened # -1
                PROVE  load <= (mono - opened) + Lag + 3 * PerPkt + credit
    BY DEF RateBounded
  <2>1. /\ load \in Int /\ mono \in Int /\ opened \in Int /\ credit \in Int
        /\ mono + offset - next_tx \in Int
    BY DEF PaceInv, TypeOK
  <2>2. Behind \in Int /\ -PerPkt <= Behind
    BY <2>1, ClampFacts DEF Behind
  <2>3. PendingLoad \in Int /\ PendingLoad >= 0
    BY Constants DEF PendingLoad
  <2>4. load + PendingLoad + Behind <= (mono - opened) + Lag + 2 * PerPkt + credit
    BY DEF PaceInv, WindowInv
  <2>. QED BY <2>1, <2>2, <2>3, <2>4, Constants
<1>. QED BY <1>1, PaceAlways, PTL

\* While the wall clock is not stepped, the totals obey the offered rate.
THEOREM TotalBoundedSafe == Spec => []TotalBounded
<1>1. PaceInv => TotalBounded
  <2>. SUFFICES ASSUME PaceInv, nsteps = 0
                PROVE  (sent + errors) * PerPkt <= mono + PerPkt
    BY DEF TotalBounded
  <2>1. /\ mono \in Int /\ next_tx \in Int /\ sent + errors \in Int
    BY DEF PaceInv, TypeOK
  <2>2. (sent + errors + Pending) * PerPkt <= next_tx /\ next_tx <= mono + PerPkt
    BY DEF PaceInv, ScheduleInv
  <2>3. /\ (sent + errors + 1) * PerPkt = (sent + errors) * PerPkt + PerPkt
        /\ (sent + errors) * PerPkt \in Int
    BY <2>1, OneMore
  <2>4. CASE pc = "send"
    BY <2>1, <2>2, <2>3, <2>4, Constants DEF Pending
  <2>5. CASE pc # "send"
    <3>1. Pending = 0 /\ sent + errors + Pending = sent + errors
      BY <2>1, <2>5 DEF Pending
    <3>. QED BY <2>1, <2>2, <2>3, <3>1, Constants
  <2>. QED BY <2>4, <2>5
<1>. QED BY <1>1, PaceAlways, PTL
=============================================================================
