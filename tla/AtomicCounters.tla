--------------------------- MODULE AtomicCounters ---------------------------
(***************************************************************************)
(* What the programs rely on when they count: each CPU has a row of        *)
(* counters, and counting is one step that adds one to the counter next on *)
(* the CPU's list and touches no other.  PerCpuCounters is shown to        *)
(* implement it.                                                           *)
(***************************************************************************)
EXTENDS Naturals, Sequences

CONSTANTS
    Rows, Names,    \* CPUs and counters
    Lists           \* what a frame may count

VARIABLES cell, work

Init ==
    /\ cell = [c \in Rows |-> [k \in Names |-> 0]]
    /\ work = [c \in Rows |-> <<>>]

Begin(c, f) ==
    /\ work[c] = <<>>
    /\ work' = [work EXCEPT ![c] = f]
    /\ UNCHANGED cell

Count(c) ==
    /\ work[c] # <<>>
    /\ cell' = [cell EXCEPT ![c][Head(work[c])] = @ + 1]
    /\ work' = [work EXCEPT ![c] = Tail(@)]

Next == \E c \in Rows : (\E f \in Lists : Begin(c, f)) \/ Count(c)

Spec == Init /\ [][Next]_<<cell, work>>
=============================================================================
