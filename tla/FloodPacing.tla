---------------------------- MODULE FloodPacing ----------------------------
(***************************************************************************)
(* The send loop of workload/be_flood.py.  The flood has to keep the       *)
(* bottleneck full without exceeding the offered rate that run.sh records, *)
(* but it is paced by time.time_ns(), the wall clock, which NTP may step,  *)
(* and the process may be descheduled between any two statements.          *)
(*                                                                         *)
(* Time is measured in ticks.  mono is real time; the wall clock shows     *)
(* mono + offset.                                                          *)
(***************************************************************************)
EXTENDS Integers

CONSTANTS
    PerPkt,       \* per_pkt_ns, the gap between two packets at the offered rate
    Duration,     \* --duration
    Lag,          \* 50 ms: a backlog above it is forgotten
    SleepAbove,   \* 300 us: a wait above it is slept ...
    SleepMargin,  \* ... up to 150 us before its end
    Steps,        \* by how much the wall clock may be stepped, both ways
    MaxSteps,     \* bound: number of steps
    MaxTime       \* bound: real time

ASSUME PacingAssumption ==
    /\ PerPkt \in Nat \ {0}
    /\ Lag \in Nat /\ SleepAbove \in Nat /\ SleepMargin \in Nat /\ Duration \in Nat
    /\ SleepMargin < SleepAbove
    /\ Steps \subseteq Int
    /\ MaxSteps \in Nat /\ MaxTime \in Nat

VARIABLES
    mono, offset, nsteps,
    pc,         \* "loop", "sleep", "send" or "done"
    nap,        \* what is left of the time asked of time.sleep()
    next_tx, deadline,
    sent, errors,
    \* history: a window opened at some moment
    opened,     \* mono when it was opened, or -1
    load,       \* PerPkt for every packet sent since
    credit      \* what clock steps since may have added to the backlog

clock == <<mono, offset, nsteps>>
program == <<pc, nap, next_tx, deadline, sent, errors>>
window == <<opened, load, credit>>
vars == <<clock, program, window>>

now == mono + offset     \* time.time_ns()

Init ==
    /\ mono = 0 /\ offset = 0 /\ nsteps = 0
    /\ pc = "loop" /\ nap = 0
    /\ next_tx = now
    /\ deadline = now + Duration
    /\ sent = 0 /\ errors = 0
    /\ opened = -1 /\ load = 0 /\ credit = 0

-----------------------------------------------------------------------------
(* The environment *)

Tick ==
    /\ mono < MaxTime
    /\ mono' = mono + 1
    /\ nap' = IF nap > 0 THEN nap - 1 ELSE nap
    /\ UNCHANGED <<offset, nsteps, pc, next_tx, deadline, sent, errors, window>>

ClockStep(d) ==
    /\ nsteps < MaxSteps
    /\ offset' = offset + d
    /\ nsteps' = nsteps + 1
    /\ credit' = IF d > 0 /\ opened # -1 THEN credit + Lag + 2 * PerPkt ELSE credit
    /\ UNCHANGED <<mono, program, opened, load>>

\* History only: start measuring.
OpenWindow ==
    /\ opened = -1
    /\ opened' = mono
    /\ UNCHANGED <<clock, program, load, credit>>

-----------------------------------------------------------------------------
(* The loop: one pass reads the clock once *)

FinishExactly ==   \* mutant: the deadline may be jumped over
    /\ pc = "loop"
    /\ now = deadline
    /\ pc' = "done"
    /\ UNCHANGED <<clock, nap, next_tx, deadline, sent, errors, window>>
Finish ==
    /\ pc = "loop"
    /\ now >= deadline
    /\ pc' = "done"
    /\ UNCHANGED <<clock, nap, next_tx, deadline, sent, errors, window>>

\* Too early: sleep most of a long wait, poll the clock again for a short one
\* (which changes nothing).
WaitAlways ==     \* mutant: a short wait is slept too
    /\ pc = "loop"
    /\ now < deadline
    /\ next_tx > now
    /\ pc' = "sleep"
    /\ nap' = (next_tx - now) - SleepMargin
    /\ UNCHANGED <<clock, next_tx, deadline, sent, errors, window>>
Wait ==
    /\ pc = "loop"
    /\ now < deadline
    /\ next_tx - now > SleepAbove
    /\ pc' = "sleep"
    /\ nap' = (next_tx - now) - SleepMargin
    /\ UNCHANGED <<clock, next_tx, deadline, sent, errors, window>>

\* time.sleep() may return late, never early.
Wake ==
    /\ pc = "sleep"
    /\ nap = 0
    /\ pc' = "loop"
    /\ UNCHANGED <<clock, nap, next_tx, deadline, sent, errors, window>>

\* The next transmission time; the backlog of a sender that fell behind is
\* forgotten.
NextTxUnreset(t) == next_tx + PerPkt      \* mutant: a burst makes up for it
NextTx(t) ==
    IF t - (next_tx + PerPkt) > Lag THEN t ELSE next_tx + PerPkt

DecideEarly ==       \* mutant: the wait is skipped when it is short
    /\ pc = "loop"
    /\ now < deadline
    /\ next_tx - now <= SleepAbove
    /\ next_tx' = NextTx(now)
    /\ pc' = "send"
    /\ UNCHANGED <<clock, nap, deadline, sent, errors, window>>
Decide ==
    /\ pc = "loop"
    /\ now < deadline
    /\ next_tx <= now
    /\ next_tx' = NextTx(now)
    /\ pc' = "send"
    /\ UNCHANGED <<clock, nap, deadline, sent, errors, window>>

\* sendto() may block for any time before it returns.
Send ==
    /\ pc = "send"
    /\ sent' = sent + 1
    /\ load' = IF opened # -1 THEN load + PerPkt ELSE load
    /\ pc' = "loop"
    /\ UNCHANGED <<clock, nap, next_tx, deadline, errors, opened, credit>>

SendFails ==
    /\ pc = "send"
    /\ errors' = errors + 1
    /\ pc' = "loop"
    /\ UNCHANGED <<clock, nap, next_tx, deadline, sent, window>>

\* KeyboardInterrupt, which leaves the loop wherever it is.
Interrupt ==
    /\ pc # "done"
    /\ pc' = "done" /\ nap' = 0
    /\ UNCHANGED <<clock, next_tx, deadline, sent, errors, window>>

Next ==
    \/ Tick \/ (\E d \in Steps : ClockStep(d)) \/ OpenWindow
    \/ Finish \/ Wait \/ Wake \/ Decide \/ Send \/ SendFails \/ Interrupt

\* Time passes and a runnable process is scheduled.
Fairness ==
    /\ WF_vars(Tick)
    /\ WF_vars(Finish) /\ WF_vars(Wait) /\ WF_vars(Wake) /\ WF_vars(Decide)
    /\ WF_vars(Send \/ SendFails)

Spec == Init /\ [][Next]_vars /\ Fairness

-----------------------------------------------------------------------------
(* Properties *)

\* Types.  time.sleep() is never called with a negative time, which raises
\* ValueError and would end the flood.
TypeOK ==
    /\ mono \in Nat /\ offset \in Int /\ nsteps \in Nat
    /\ pc \in {"loop", "sleep", "send", "done"}
    /\ nap \in Nat /\ next_tx \in Int /\ deadline \in Int
    /\ sent \in Nat /\ errors \in Nat
    /\ opened \in Nat \cup {-1} /\ load \in Nat /\ credit \in Nat

\* In any window of real time the flood sends at most the offered rate, plus
\* one forgiven backlog (the comment "reset when more than 50 ms behind, to
\* prevent a burst"), plus the packet being decided and the one in flight when
\* the window opens, plus the lag and two packets for every forward step of the
\* wall clock: a stall, however long, never turns into a burst longer than that.
RateBounded ==
    opened # -1 => load <= (mono - opened) + Lag + 3 * PerPkt + credit

\* Without clock steps the totals obey the offered rate exactly: over the
\* whole flood no more than one packet is ahead of the schedule.
TotalBounded ==
    offset = 0 /\ nsteps = 0 => (sent + errors) * PerPkt <= mono + PerPkt

\* The flood ends, even if the wall clock was stepped back during it.
Terminates == <>(pc = "done")
=============================================================================
