----------------------------- MODULE FifoQueue -----------------------------
(***************************************************************************)
(* Abstract: one queue of bounded length in front of one link.  It is what *)
(* a qdisc without any knowledge of priorities is to its packets.  At      *)
(* times something else is installed instead, of which nothing is said.    *)
(***************************************************************************)
EXTENDS Sequences, Naturals

CONSTANTS Packets, Limit, None

VARIABLES
    on,     \* the queue is installed
    q,      \* packets waiting, none unless it is
    wire    \* the packet being sent, or None

Init == on \in BOOLEAN /\ q = <<>> /\ wire = None

\* A full queue drops what comes.
Offer(p) ==
    /\ on /\ Len(q) < Limit
    /\ q' = Append(q, p)
    /\ UNCHANGED <<on, wire>>

Take ==
    /\ on /\ wire = None /\ q # <<>>
    /\ wire' = Head(q)
    /\ q' = Tail(q)
    /\ UNCHANGED on

Sent ==
    /\ on /\ wire # None
    /\ wire' = None
    /\ UNCHANGED <<on, q>>

\* A queue starts empty, and is removed together with what it holds.
Replace ==
    /\ on' \in BOOLEAN /\ q' = <<>>
    /\ UNCHANGED wire

\* Something else uses the link.
Elsewhere == ~on /\ ~on' /\ q' = <<>>

Next == (\E p \in Packets : Offer(p)) \/ Take \/ Sent \/ Replace \/ Elsewhere

Spec == Init /\ [][Next]_<<on, q, wire>>
=============================================================================
