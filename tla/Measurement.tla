---------------------------- MODULE Measurement ----------------------------
(***************************************************************************)
(* One measurement: workload/talker.py numbers its packets from 0 and      *)
(* sends them, the network loses, duplicates and reorders them, and        *)
(* workload/listener.py records what arrives until nothing has come for    *)
(* --timeout seconds, then prints a summary and writes the CSV.            *)
(*                                                                         *)
(* Time is left out: the listener's timeout may fire whenever its socket   *)
(* is empty, since the talker and the queue may stall for any time.        *)
(***************************************************************************)
EXTENDS LossSummary

CONSTANTS
    Count,      \* --count, packets the talker sends
    RcvBuf,     \* datagrams the listener's socket holds
    MaxDups,    \* bound: datagrams duplicated by the network
    MaxRunts    \* bound: datagrams too short to carry the header

ASSUME MeasurementAssumption ==
    Count \in Nat /\ RcvBuf \in Nat \ {0} /\ MaxDups \in Nat /\ MaxRunts \in Nat

SeqNos == 0 .. (Count - 1)
Runt == -1
NoSummary == [none |-> TRUE]

VARIABLES
    seq,          \* number of the talker's next packet
    talker,       \* "run" or "done"
    net,          \* copies of each packet on their way
    dups, runts,  \* used up of the bounds
    listener,     \* "start", "recv", "closing" or "done"
    rcvq,         \* the socket's receive queue
    results,      \* sequence numbers of the recorded rows
    interrupted,  \* the listener was stopped by hand
    summary,      \* what it printed
    csv           \* what it wrote, <<>> if nothing

talkerVars == <<seq, talker>>
netVars == <<net, dups, runts>>
listenerVars == <<listener, results, interrupted, summary, csv>>
vars == <<talkerVars, netVars, rcvq, listenerVars>>

Init ==
    /\ seq = 0 /\ talker = "run"
    /\ net = [s \in SeqNos |-> 0]
    /\ dups = 0 /\ runts = 0
    /\ listener = "start"
    /\ rcvq = <<>> /\ results = <<>>
    /\ interrupted = FALSE
    /\ summary = NoSummary /\ csv = <<>>

-----------------------------------------------------------------------------
(* The talker *)

TalkerSend ==
    /\ talker = "run"
    /\ seq < Count
    /\ net' = [net EXCEPT ![seq] = 1]
    /\ seq' = seq + 1
    /\ UNCHANGED <<talker, dups, runts, rcvq, listenerVars>>

\* sendto() raised OSError: counted, and the number is not used again.
TalkerSendFails ==
    /\ talker = "run"
    /\ seq < Count
    /\ seq' = seq + 1
    /\ UNCHANGED <<talker, netVars, rcvq, listenerVars>>

\* All packets sent, or interrupted by hand.
TalkerStop ==
    /\ talker = "run"
    /\ talker' = "done"
    /\ UNCHANGED <<seq, netVars, rcvq, listenerVars>>

-----------------------------------------------------------------------------
(* The network *)

Drop(s) ==
    /\ net[s] > 0
    /\ net' = [net EXCEPT ![s] = @ - 1]
    /\ UNCHANGED <<talkerVars, dups, runts, rcvq, listenerVars>>

Duplicate(s) ==
    /\ net[s] > 0
    /\ dups < MaxDups
    /\ net' = [net EXCEPT ![s] = @ + 1]
    /\ dups' = dups + 1
    /\ UNCHANGED <<talkerVars, runts, rcvq, listenerVars>>

\* A datagram that finds no bound socket, or a full one, is gone.
Bound == listener \in {"recv", "closing"}
Enqueue(d) == IF Bound /\ Len(rcvq) < RcvBuf THEN Append(rcvq, d) ELSE rcvq

Deliver(s) ==
    /\ net[s] > 0
    /\ net' = [net EXCEPT ![s] = @ - 1]
    /\ rcvq' = Enqueue(s)
    /\ UNCHANGED <<talkerVars, dups, runts, listenerVars>>

DeliverRunt ==
    /\ runts < MaxRunts
    /\ runts' = runts + 1
    /\ rcvq' = Enqueue(Runt)
    /\ UNCHANGED <<talkerVars, net, dups, listenerVars>>

-----------------------------------------------------------------------------
(* The listener *)

Bind ==
    /\ listener = "start"
    /\ listener' = "recv"
    /\ UNCHANGED <<talkerVars, netVars, rcvq, results, interrupted, summary, csv>>

\* Runts are skipped, everything else becomes a row.
Recv ==
    /\ listener = "recv"
    /\ rcvq # <<>>
    /\ rcvq' = Tail(rcvq)
    /\ results' = IF Head(rcvq) = Runt THEN results ELSE Append(results, Head(rcvq))
    /\ UNCHANGED <<talkerVars, netVars, listener, interrupted, summary, csv>>

\* Before the first row a timeout only makes the listener wait again, which
\* changes nothing.
TimeoutEmpty ==     \* mutant: a timeout always ends the loop
    /\ listener = "recv"
    /\ rcvq = <<>>
    /\ listener' = "closing"
    /\ UNCHANGED <<talkerVars, netVars, rcvq, results, interrupted, summary, csv>>
TimeoutContinues == \* mutant: the loop goes on waiting after rows, too
    /\ listener = "recv"
    /\ rcvq = <<>>
    /\ UNCHANGED vars
Timeout ==
    /\ listener = "recv"
    /\ rcvq = <<>>
    /\ results # <<>>
    /\ listener' = "closing"
    /\ UNCHANGED <<talkerVars, netVars, rcvq, results, interrupted, summary, csv>>

\* KeyboardInterrupt
Interrupt ==
    /\ listener = "recv"
    /\ listener' = "closing"
    /\ interrupted' = TRUE
    /\ UNCHANGED <<talkerVars, netVars, rcvq, results, summary, csv>>

\* What the socket still holds when it is closed is lost.
Finish ==
    /\ listener = "closing"
    /\ listener' = "done"
    /\ rcvq' = <<>>
    /\ IF results = <<>> THEN UNCHANGED <<summary, csv>>
       ELSE /\ summary' = ListenerSummary(results)
            /\ csv' = results
    /\ UNCHANGED <<talkerVars, netVars, results, interrupted>>

Next ==
    \/ TalkerSend \/ TalkerSendFails \/ TalkerStop
    \/ \E s \in SeqNos : Drop(s) \/ Duplicate(s) \/ Deliver(s)
    \/ DeliverRunt
    \/ Bind \/ Recv \/ Timeout \/ Interrupt \/ Finish

\* The listener runs, a silent socket times out, and a packet on its way
\* arrives or is lost.
Fairness ==
    /\ WF_vars(Bind) /\ WF_vars(Recv) /\ WF_vars(Timeout) /\ WF_vars(Finish)
    /\ \A s \in SeqNos : WF_vars(Drop(s) \/ Deliver(s))

Spec == Init /\ [][Next]_vars /\ Fairness

-----------------------------------------------------------------------------
(* Properties *)

Recorded == {results[i] : i \in DOMAIN results}
Attempted == 0 .. (seq - 1)

\* Types; only numbers the talker has used are ever recorded.
TypeOK ==
    /\ seq \in 0 .. Count /\ talker \in {"run", "done"}
    /\ net \in [SeqNos -> Nat] /\ dups \in 0 .. MaxDups /\ runts \in 0 .. MaxRunts
    /\ listener \in {"start", "recv", "closing", "done"}
    /\ rcvq \in Seq(Attempted \cup {Runt}) /\ Len(rcvq) <= RcvBuf
    /\ results \in Seq(Attempted) /\ csv \in Seq(Attempted)
    /\ interrupted \in BOOLEAN

\* The loss the listener reports is exactly the number of packets of the
\* talker that are missing although a later one was recorded: packets lost
\* before the first arrival, failed sends and packets dropped at the socket
\* included, and a duplicate never makes up for a loss.  Only losses after the
\* last recorded packet stay invisible (the comment in loss_summary).
LossExact ==
    csv # <<>> =>
        summary.lost =
            Cardinality({s \in Attempted \ Recorded : \E r \in Recorded : r > s})

\* The number of reorders is the number of rows that a higher number overtook,
\* duplicates of an overtaken packet included, and of the last one excluded.
ReordersExact ==
    csv # <<>> =>
        summary.reorders =
            Cardinality({i \in DOMAIN results : \E j \in 1 .. (i - 1) : results[j] > results[i]})

\* The listener's summary says what happened to the talker's packets: its rows
\* are numbers the talker used, its losses and reorders are exact.
SummaryExact == TypeOK /\ LossExact /\ ReordersExact

\* The analysis of the CSV agrees with what the listener printed.
SummariesAgree == csv # <<>> => loss_summary(csv) = summary

\* A listener that gives up without a single row was stopped by hand: a run
\* is never cut short because its first packet is late.
WaitsForFirst == listener = "done" /\ results = <<>> => interrupted

\* Once a row was recorded and the talker has stopped, the listener ends and
\* writes every row to the CSV, runts and late packets notwithstanding.
EndsWithCsv ==
    results # <<>> /\ talker = "done" ~> listener = "done" /\ csv = results
=============================================================================
