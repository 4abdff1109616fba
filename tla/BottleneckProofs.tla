-------------------------- MODULE BottleneckProofs --------------------------
(***************************************************************************)
(* Proofs about Bottleneck, for every set of conditions, number of packets *)
(* and queue length.                                                       *)
(***************************************************************************)
EXTENDS Bottleneck, FiniteSetTheorems, FunctionTheorems, SequenceTheorems, TLAPS

TypeOK ==
    /\ cond \in Conditions
    /\ stage \in {"filter del", "qdisc del", "qdisc add", "filter add", "measure"}
    /\ filter \in BOOLEAN
    /\ qdisc \in {"noqueue", "one", "bands"}
    /\ bands \in [0 .. 2 -> Seq(Packets)]
    /\ wire \in Packets \cup {None}
    /\ nts \in 0 .. MaxTs /\ probe_in \in Nat /\ probe_out \in Nat

\* The old filter goes first and the new one comes last, ...
FilterInv ==
    /\ stage \in {"qdisc del", "qdisc add", "filter add"} => filter = FALSE
    /\ stage = "measure" => (filter <=> cond \in Classified)

\* ... with the old qdisc and all that it held, and the new one, in between.
QdiscInv ==
    /\ stage = "qdisc add" => qdisc = "noqueue" /\ bands = Empty
    /\ stage \in {"filter add", "measure"} => qdisc = inner

Installed == stage \in {"qdisc add", "filter add", "measure"}

\* Without the classifier one band is used, whatever the qdisc.
UnclassifiedInv ==
    Installed /\ cond \notin Classified =>
        /\ bands[2] = <<>>
        /\ cond = "fifo" => bands[1] = <<>>
        /\ cond # "fifo" => bands[0] = <<>>

\* A queue of time-sensitive packets among the first m of a run, in the order
\* they were sent, and a queue of the flood's packets.
TsQueue(s, m) ==
    /\ Len(s) <= Limit
    /\ \A i \in DOMAIN s : s[i].n \in 1 .. m /\ s[i] = Ts(s[i].n)
    /\ \A i, j \in DOMAIN s : i < j => s[i].n < s[j].n
OnlyBe(s) == \A i \in DOMAIN s : s[i] = Be

\* With the classifier band 0 is the talker's and the flood is kept out of it.
ClassifiedInv ==
    Installed /\ cond \in Classified =>
        /\ bands[2] = <<>> /\ OnlyBe(bands[1])
        /\ stage # "measure" => bands[0] = <<>>
        /\ stage = "measure" => TsQueue(bands[0], nts)

Inv == TypeOK /\ FilterInv /\ QdiscInv /\ UnclassifiedInv /\ ClassifiedInv
         /\ ProbesTell

-----------------------------------------------------------------------------
(* Lemmas about the packets, their bands and the queues *)

\* The bounds are numbers.
LEMMA BoundFacts == MaxTs \in Nat /\ Limit \in Nat \ {0} /\ 0 \in 0 .. MaxTs
  BY BottleneckAssumption

\* Each band holds packets.
LEMMA TypeFacts ==
    ASSUME TypeOK
    PROVE  /\ bands[0] \in Seq(Packets) /\ bands[1] \in Seq(Packets)
           /\ nts \in Nat /\ nts <= MaxTs
  <1>1. 0 \in 0 .. 2 /\ 1 \in 0 .. 2
    OBVIOUS
  <1>2. bands \in [0 .. 2 -> Seq(Packets)] /\ nts \in 0 .. MaxTs
    BY DEF TypeOK
  <1>3. QED
    BY <1>1, <1>2, BoundFacts

\* The two flows are told apart, and no packet is None.
LEMMA PacketFacts ==
    /\ \A n \in 1 .. MaxTs : Ts(n) \in Packets /\ Ts(n).n = n /\ Ts(n) # Be
    /\ Be \in Packets /\ Be.flow # "ts"
    /\ None \notin Packets
    /\ \A n : Ts(n).flow = "ts"
  BY BottleneckAssumption DEF Packets, Ts, Be

\* The priomap sends priority 0 to band 1 and priority 6 to band 0.
LEMMA PriomapFacts == priomap[0 + 1] = 1 /\ priomap[6 + 1] = 0
  <1>1. priomap[1] = 1 /\ priomap[7] = 0
    BY DEF priomap
  <1>2. QED
    BY <1>1

\* The talker's packets go to the second band of three unless they are
\* classified; the flood's always do.
TsBand == IF qdisc = "bands" /\ ~filter THEN 1 ELSE 0
BeBand == IF qdisc = "bands" THEN 1 ELSE 0

\* These are bands.
LEMMA BandFacts == TsBand \in 0 .. 2 /\ BeBand \in 0 .. 2
  BY DEF TsBand, BeBand

\* What a packet of the talker meets at the bottleneck.
LEMMA SendTsDoes ==
    ASSUME TypeOK, SendTs
    PROVE  /\ stage = "measure" /\ nts + 1 \in 1 .. MaxTs /\ nts' = nts + 1
           /\ probe_in' = probe_in
           /\ probe_out' = IF filter THEN probe_out + 1 ELSE probe_out
           /\ Enqueue(Ts(nts + 1), TsBand)
           /\ UNCHANGED <<command, wire>>
  <1>1. Veth(SO_PRIORITY) = 0 /\ Ts(nts + 1).flow = "ts"
    BY DEF Veth, Ts
  <1>2. Egress(Ts(nts + 1), 0) = IF filter THEN 6 ELSE 0
    BY <1>1 DEF Egress, TsPriority
  <1>3. Band(Egress(Ts(nts + 1), 0)) = TsBand
    BY <1>2, PriomapFacts DEF Band, TsBand
  <1>4. stage = "measure" /\ nts + 1 \in 1 .. MaxTs /\ nts' = nts + 1
    BY BottleneckAssumption DEF SendTs, TypeOK
  <1>5. probe_in' = probe_in
    BY <1>1 DEF SendTs, Count6
  <1>6. probe_out' = IF filter THEN probe_out + 1 ELSE probe_out
    BY <1>1, <1>2 DEF SendTs, Count6, ProbeOut
  <1>7. Enqueue(Ts(nts + 1), TsBand) /\ UNCHANGED <<command, wire>>
    BY <1>1, <1>3 DEF SendTs
  <1>8. QED
    BY <1>4, <1>5, <1>6, <1>7

\* What a packet of the flood meets there.
LEMMA SendBeDoes ==
    ASSUME SendBe
    PROVE  /\ Enqueue(Be, BeBand)
           /\ UNCHANGED <<command, wire, traffic>>
  <1>1. Veth(0) = 0 /\ Egress(Be, 0) = 0
    BY PacketFacts DEF Veth, Egress
  <1>2. Band(0) = BeBand
    BY PriomapFacts DEF Band, BeBand
  <1>3. QED
    BY <1>1, <1>2 DEF SendBe, Count6, ProbeOut, traffic

\* A packet is put at the end of its band, or dropped.
LEMMA EnqueueDoes ==
    ASSUME TypeOK, NEW p \in Packets, NEW b \in 0 .. 2, Enqueue(p, b)
    PROVE  /\ bands' \in [0 .. 2 -> Seq(Packets)]
           /\ \A a \in (0 .. 2) \ {b} : bands'[a] = bands[a]
           /\ \/ bands' = bands /\ (qdisc = "noqueue" \/ Len(bands[b]) >= Limit)
              \/ /\ qdisc # "noqueue" /\ Len(bands[b]) < Limit
                 /\ bands'[b] = Append(bands[b], p)
  <1>1. bands[b] \in Seq(Packets) /\ Append(bands[b], p) \in Seq(Packets)
    BY AppendProperties DEF TypeOK
  <1>2. CASE qdisc = "noqueue" \/ Len(bands[b]) >= Limit
    BY <1>2 DEF Enqueue, TypeOK
  <1>3. CASE ~(qdisc = "noqueue" \/ Len(bands[b]) >= Limit)
    <2>1. bands' = [bands EXCEPT ![b] = Append(bands[b], p)]
      BY <1>3 DEF Enqueue
    <2>2. Len(bands[b]) < Limit
      BY <1>1, <1>3, LenProperties, BottleneckAssumption
    <2>3. QED
      BY <1>1, <1>3, <2>1, <2>2 DEF TypeOK
  <1>4. QED
    BY <1>2, <1>3

\* The link takes the first packet of the first band that has one.
LEMMA DequeueDoes ==
    ASSUME TypeOK, NEW b \in 0 .. 2, Dequeue(b)
    PROVE  /\ bands' \in [0 .. 2 -> Seq(Packets)]
           /\ \A a \in (0 .. 2) \ {b} : bands'[a] = bands[a]
           /\ bands[b] # <<>> /\ bands'[b] = Tail(bands[b])
           /\ wire' = Head(bands[b]) /\ wire' \in Packets /\ wire' = bands[b][1]
           /\ UNCHANGED <<command, traffic>>
  <1>1. /\ bands[b] \in Seq(Packets) /\ Tail(bands[b]) \in Seq(Packets)
        /\ Head(bands[b]) \in Packets
    BY HeadTailProperties DEF TypeOK, Dequeue
  <1>2. Head(bands[b]) = bands[b][1]
    BY <1>1
  <1>3. QED
    BY <1>1, <1>2 DEF Dequeue, TypeOK

\* A queue of the talker keeps its order: when its next packet joins, ...
LEMMA TsQueueAppend ==
    ASSUME NEW s \in Seq(Packets), NEW m \in Nat, m + 1 \in 1 .. MaxTs,
           TsQueue(s, m), Len(s) < Limit
    PROVE  TsQueue(Append(s, Ts(m + 1)), m + 1)
  <1> DEFINE t == Append(s, Ts(m + 1))
  <1>1. Ts(m + 1) \in Packets /\ Ts(m + 1).n = m + 1
    BY PacketFacts
  <1>2. /\ t \in Seq(Packets) /\ Len(t) = Len(s) + 1
        /\ \A i \in 1 .. Len(s) : t[i] = s[i]
        /\ t[Len(s) + 1] = Ts(m + 1)
    BY <1>1, AppendProperties
  <1>3. Len(s) \in Nat /\ DOMAIN s = 1 .. Len(s) /\ DOMAIN t = 1 .. (Len(s) + 1)
    BY <1>2, LenProperties
  <1> HIDE DEF t
  <1>4. Len(t) <= Limit
    BY <1>2, <1>3, BottleneckAssumption
  <1>5. ASSUME NEW i \in DOMAIN t PROVE t[i].n \in 1 .. (m + 1) /\ t[i] = Ts(t[i].n)
    <2>1. CASE i \in 1 .. Len(s)
      <3>1. t[i] = s[i] /\ s[i].n \in 1 .. m /\ s[i] = Ts(s[i].n)
        BY <1>2, <1>3, <2>1 DEF TsQueue
      <3>2. QED
        BY <3>1
    <2>2. CASE i = Len(s) + 1
      BY <1>1, <1>2, <2>2
    <2>3. QED
      BY <1>3, <2>1, <2>2
  <1>6. ASSUME NEW i \in DOMAIN t, NEW j \in DOMAIN t, i < j PROVE t[i].n < t[j].n
    <2>1. i \in 1 .. Len(s) /\ t[i].n = s[i].n /\ s[i].n \in 1 .. m
      BY <1>2, <1>3, <1>6 DEF TsQueue
    <2>2. CASE j \in 1 .. Len(s)
      BY <1>2, <1>3, <1>6, <2>1, <2>2 DEF TsQueue
    <2>3. CASE j = Len(s) + 1
      BY <1>1, <1>2, <2>1, <2>3
    <2>4. QED
      BY <1>3, <2>2, <2>3
  <1>7. QED
    BY <1>4, <1>5, <1>6 DEF TsQueue, t

\* ... when it does not find room, ...
LEMMA TsQueueFull ==
    ASSUME NEW s, NEW m \in Nat, TsQueue(s, m)
    PROVE  TsQueue(s, m + 1)
  BY DEF TsQueue

\* ... and when its first packet leaves.
LEMMA TsQueueTail ==
    ASSUME NEW s \in Seq(Packets), s # <<>>, NEW m \in Nat, TsQueue(s, m)
    PROVE  TsQueue(Tail(s), m)
  <1> DEFINE t == Tail(s)
  <1>1. /\ t \in Seq(Packets) /\ Len(t) = Len(s) - 1
        /\ \A i \in 1 .. Len(t) : t[i] = s[i + 1]
    BY HeadTailProperties
  <1>2. Len(s) \in Nat /\ DOMAIN s = 1 .. Len(s) /\ DOMAIN t = 1 .. (Len(s) - 1)
    BY <1>1, LenProperties
  <1> HIDE DEF t
  <1>3. Len(t) <= Limit
    BY <1>1, <1>2, BottleneckAssumption DEF TsQueue
  <1>4. \A i \in DOMAIN t : i + 1 \in DOMAIN s /\ t[i] = s[i + 1]
    BY <1>1, <1>2
  <1>5. \A i \in DOMAIN t : t[i].n \in 1 .. m /\ t[i] = Ts(t[i].n)
    BY <1>4 DEF TsQueue
  <1>6. ASSUME NEW i \in DOMAIN t, NEW j \in DOMAIN t, i < j PROVE t[i].n < t[j].n
    <2>1. i + 1 < j + 1
      BY <1>2, <1>6
    <2>2. QED
      BY <1>4, <2>1 DEF TsQueue
  <1>7. QED
    BY <1>3, <1>5, <1>6 DEF TsQueue, t

\* A queue of the flood stays one.
LEMMA OnlyBeKept ==
    ASSUME NEW s \in Seq(Packets), OnlyBe(s)
    PROVE  OnlyBe(Append(s, Be)) /\ (s # <<>> => OnlyBe(Tail(s)))
  <1>1. Len(s) \in Nat /\ DOMAIN s = 1 .. Len(s)
    BY LenProperties
  <1>2. OnlyBe(Append(s, Be))
    <2> DEFINE t == Append(s, Be)
    <2>1. /\ t \in Seq(Packets) /\ Len(t) = Len(s) + 1 /\ t[Len(s) + 1] = Be
          /\ \A i \in 1 .. Len(s) : t[i] = s[i]
      BY PacketFacts, AppendProperties
    <2>2. DOMAIN t = 1 .. (Len(s) + 1)
      BY <2>1, LenProperties
    <2> HIDE DEF t
    <2>3. OnlyBe(t)
      BY <1>1, <2>1, <2>2 DEF OnlyBe
    <2>4. QED
      BY <2>3 DEF t
  <1>3. ASSUME s # <<>> PROVE OnlyBe(Tail(s))
    <2> DEFINE t == Tail(s)
    <2>1. /\ t \in Seq(Packets) /\ Len(t) = Len(s) - 1
          /\ \A i \in 1 .. Len(t) : t[i] = s[i + 1]
      BY <1>3, HeadTailProperties
    <2>2. DOMAIN t = 1 .. (Len(s) - 1)
      BY <2>1, LenProperties
    <2> HIDE DEF t
    <2>3. OnlyBe(t)
      BY <1>1, <2>1, <2>2 DEF OnlyBe
    <2>4. QED
      BY <2>3 DEF t
  <1>4. QED
    BY <1>2, <1>3

\* The empty qdisc.
LEMMA EmptyFacts ==
    /\ Empty \in [0 .. 2 -> Seq(Packets)]
    /\ Empty[0] = <<>> /\ Empty[1] = <<>> /\ Empty[2] = <<>>
    /\ OnlyBe(<<>>) /\ \A m : TsQueue(<<>>, m)
  <1>1. Limit \in Nat /\ Len(<<>>) = 0
    BY BottleneckAssumption, EmptySeq
  <1>2. DOMAIN <<>> = {}
    OBVIOUS
  <1>3. QED
    BY <1>1, <1>2 DEF Empty, OnlyBe, TsQueue

-----------------------------------------------------------------------------
(* The invariant is inductive *)

\* The initial state satisfies the invariant.
LEMMA InitInv ==
    ASSUME Init
    PROVE  Inv
  <1>1. TypeOK
    <2>1. filter \in BOOLEAN /\ bands \in [0 .. 2 -> Seq(Packets)]
      BY EmptyFacts DEF Init
    <2>2. nts \in 0 .. MaxTs
      BY BoundFacts DEF Init
    <2>3. QED
      BY <2>1, <2>2 DEF Init, TypeOK
  <1>2. FilterInv /\ QdiscInv /\ UnclassifiedInv /\ ClassifiedInv /\ ProbesTell
    BY DEF Init, FilterInv, QdiscInv, UnclassifiedInv, ClassifiedInv, ProbesTell,
           Installed
  <1>3. QED
    BY <1>1, <1>2 DEF Inv

\* Every step keeps the variables well typed.
LEMMA TypeOKNext ==
    ASSUME Inv, [Next]_vars
    PROVE  TypeOK'
  <1>a. /\ TypeOK /\ FilterInv /\ QdiscInv
        /\ UnclassifiedInv /\ ClassifiedInv /\ ProbesTell
    BY DEF Inv
  <1>1. CASE DelFilter
    BY <1>a, <1>1 DEF DelFilter, TypeOK, command, traffic
  <1>2. CASE DelQdisc
    BY <1>a, <1>2, EmptyFacts DEF DelQdisc, TypeOK, command, traffic
  <1>3. CASE AddQdisc
    BY <1>a, <1>3 DEF AddQdisc, inner, TypeOK, command, traffic
  <1>4. CASE AddFilter
    <2>1. filter' \in BOOLEAN
      BY <1>4 DEF AddFilter, has_filter
    <2>2. nts' \in 0 .. MaxTs
      BY <1>4, BoundFacts DEF AddFilter
    <2>3. QED
      BY <1>a, <1>4, <2>1, <2>2 DEF AddFilter, TypeOK, command, traffic
  <1>5. CASE NextCondition
    BY <1>a, <1>5 DEF NextCondition, TypeOK, command, traffic
  <1>6. CASE SendTs
    <2>1. Ts(nts + 1) \in Packets /\ Enqueue(Ts(nts + 1), TsBand)
      BY <1>a, <1>6, SendTsDoes, PacketFacts
    <2>2. bands' \in [0 .. 2 -> Seq(Packets)]
      BY <1>a, <2>1, BandFacts, EnqueueDoes
    <2>3. nts' \in 0 .. MaxTs /\ probe_in' \in Nat /\ probe_out' \in Nat
      <3>1. nts + 1 \in 1 .. MaxTs /\ nts' = nts + 1
        BY <1>a, <1>6, SendTsDoes
      <3>2. /\ probe_in' = probe_in
            /\ probe_out' = IF filter THEN probe_out + 1 ELSE probe_out
        BY <1>a, <1>6, SendTsDoes
      <3>3. nts' \in 0 .. MaxTs
        BY <1>a, <3>1, TypeFacts, BoundFacts
      <3>4. probe_in \in Nat /\ probe_out \in Nat
        BY <1>a DEF TypeOK
      <3>5. QED
        BY <3>2, <3>3, <3>4
    <2>4. UNCHANGED <<command, wire>>
      BY <1>a, <1>6, SendTsDoes
    <2>5. QED
      BY <1>a, <2>2, <2>3, <2>4 DEF TypeOK, command, traffic
  <1>7. CASE SendBe
    <2>1. bands' \in [0 .. 2 -> Seq(Packets)]
      BY <1>a, <1>7, SendBeDoes, BandFacts, PacketFacts, EnqueueDoes
    <2>2. UNCHANGED <<command, wire, traffic>>
      BY <1>7, SendBeDoes
    <2>3. QED
      BY <1>a, <2>1, <2>2 DEF TypeOK, command, traffic
  <1>8. ASSUME NEW b \in 0 .. 2, Dequeue(b) PROVE TypeOK'
    <2>1. bands' \in [0 .. 2 -> Seq(Packets)] /\ wire' \in Packets
      BY <1>a, <1>8, DequeueDoes
    <2>2. UNCHANGED <<command, traffic>>
      BY <1>a, <1>8, DequeueDoes
    <2>3. QED
      BY <1>a, <2>1, <2>2 DEF TypeOK, command, traffic
  <1>9. CASE Transmitted
    BY <1>a, <1>9 DEF Transmitted, TypeOK, command, traffic
  <1>10. CASE UNCHANGED vars
    BY <1>a, <1>10 DEF vars, TypeOK, command, traffic
  <1>11. QED
    BY <1>1, <1>2, <1>3, <1>4, <1>5, <1>6, <1>7, <1>8, <1>9, <1>10 DEF Next

\* Every step keeps the order of apply_condition's filter commands.
LEMMA FilterInvNext ==
    ASSUME Inv, [Next]_vars
    PROVE  FilterInv'
  <1>a. /\ TypeOK /\ FilterInv /\ QdiscInv
        /\ UnclassifiedInv /\ ClassifiedInv /\ ProbesTell
    BY DEF Inv
  <1>1. CASE DelFilter
    BY <1>a, <1>1 DEF DelFilter, FilterInv, command
  <1>2. CASE DelQdisc
    BY <1>a, <1>2 DEF DelQdisc, FilterInv, command
  <1>3. CASE AddQdisc
    BY <1>a, <1>3 DEF AddQdisc, FilterInv, command
  <1>4. CASE AddFilter
    <2>1. filter' <=> has_filter
      BY <1>a, <1>4 DEF AddFilter, FilterInv
    <2>2. QED
      BY <1>a, <1>4, <2>1 DEF AddFilter, has_filter, Classified, FilterInv, command
  <1>5. CASE NextCondition
    BY <1>a, <1>5 DEF NextCondition, FilterInv, command
  <1>6. CASE SendTs
    <2>1. UNCHANGED command
      BY <1>a, <1>6, SendTsDoes
    <2>2. QED
      BY <1>a, <2>1 DEF FilterInv, command
  <1>7. CASE SendBe
    <2>1. UNCHANGED command
      BY <1>7, SendBeDoes
    <2>2. QED
      BY <1>a, <2>1 DEF FilterInv, command
  <1>8. ASSUME NEW b \in 0 .. 2, Dequeue(b) PROVE FilterInv'
    BY <1>a, <1>8 DEF Dequeue, FilterInv, command
  <1>9. CASE Transmitted
    BY <1>a, <1>9 DEF Transmitted, FilterInv, command
  <1>10. CASE UNCHANGED vars
    BY <1>a, <1>10 DEF vars, FilterInv, command
  <1>11. QED
    BY <1>1, <1>2, <1>3, <1>4, <1>5, <1>6, <1>7, <1>8, <1>9, <1>10 DEF Next

\* Every step keeps the order of its qdisc commands.
LEMMA QdiscInvNext ==
    ASSUME Inv, [Next]_vars
    PROVE  QdiscInv'
  <1>a. /\ TypeOK /\ FilterInv /\ QdiscInv
        /\ UnclassifiedInv /\ ClassifiedInv /\ ProbesTell
    BY DEF Inv
  <1>1. CASE DelFilter
    BY <1>a, <1>1 DEF DelFilter, QdiscInv, inner, command
  <1>2. CASE DelQdisc
    BY <1>a, <1>2 DEF DelQdisc, QdiscInv, inner, command
  <1>3. CASE AddQdisc
    BY <1>a, <1>3 DEF AddQdisc, QdiscInv, inner, command
  <1>4. CASE AddFilter
    BY <1>a, <1>4 DEF AddFilter, QdiscInv, inner, command
  <1>5. CASE NextCondition
    BY <1>a, <1>5 DEF NextCondition, QdiscInv, inner, command
  <1>6. CASE SendTs
    <2>1. stage = "measure" /\ UNCHANGED command
      BY <1>a, <1>6, SendTsDoes
    <2>2. QED
      BY <1>a, <2>1 DEF QdiscInv, inner, command
  <1>7. CASE SendBe
    <2>1. UNCHANGED command /\ Enqueue(Be, BeBand)
      BY <1>7, SendBeDoes
    <2>2. qdisc = "noqueue" => bands' = bands
      BY <2>1 DEF Enqueue
    <2>3. QED
      BY <1>a, <2>1, <2>2 DEF QdiscInv, inner, command
  <1>8. ASSUME NEW b \in 0 .. 2, Dequeue(b) PROVE QdiscInv'
    <2>1. bands[b] # <<>> /\ UNCHANGED command
      BY <1>a, <1>8, DequeueDoes
    <2>2. stage # "qdisc add"
      BY <1>a, <2>1 DEF QdiscInv, Empty
    <2>3. QED
      BY <1>a, <2>1, <2>2 DEF QdiscInv, inner, command
  <1>9. CASE Transmitted
    BY <1>a, <1>9 DEF Transmitted, QdiscInv, inner, command
  <1>10. CASE UNCHANGED vars
    BY <1>a, <1>10 DEF vars, QdiscInv, inner, command
  <1>11. QED
    BY <1>1, <1>2, <1>3, <1>4, <1>5, <1>6, <1>7, <1>8, <1>9, <1>10 DEF Next

\* Every step keeps packets without the classifier in one band.
LEMMA UnclassifiedInvNext ==
    ASSUME Inv, [Next]_vars
    PROVE  UnclassifiedInv'
  <1>a. /\ TypeOK /\ FilterInv /\ QdiscInv
        /\ UnclassifiedInv /\ ClassifiedInv /\ ProbesTell
    BY DEF Inv
  <1>1. CASE DelFilter
    BY <1>a, <1>1 DEF DelFilter, UnclassifiedInv, Installed, command
  <1>2. CASE DelQdisc
    BY <1>2, EmptyFacts DEF DelQdisc, UnclassifiedInv, Installed, command
  <1>3. CASE AddQdisc
    BY <1>a, <1>3 DEF AddQdisc, UnclassifiedInv, Installed, command
  <1>4. CASE AddFilter
    BY <1>a, <1>4 DEF AddFilter, UnclassifiedInv, Installed, command
  <1>5. CASE NextCondition
    BY <1>a, <1>5 DEF NextCondition, UnclassifiedInv, Installed, command
  <1>6. CASE SendTs
    <2> SUFFICES ASSUME cond \notin Classified PROVE UnclassifiedInv'
      BY <1>a, <1>6, SendTsDoes DEF UnclassifiedInv, Installed, command
    <2>1. /\ stage = "measure" /\ UNCHANGED <<cond, stage>>
          /\ Ts(nts + 1) \in Packets /\ Enqueue(Ts(nts + 1), TsBand)
      BY <1>a, <1>6, SendTsDoes, PacketFacts DEF command
    <2>2. TsBand = IF cond = "fifo" THEN 0 ELSE 1
      BY <1>a, <2>1 DEF TsBand, QdiscInv, FilterInv, inner
    <2>3. \A a \in (0 .. 2) \ {TsBand} : bands'[a] = bands[a]
      BY <1>a, <2>1, BandFacts, EnqueueDoes
    <2>4. QED
      BY <1>a, <2>1, <2>2, <2>3 DEF UnclassifiedInv, Installed, command
  <1>7. CASE SendBe
    <2>1. UNCHANGED <<cond, stage>> /\ Enqueue(Be, BeBand)
      BY <1>7, SendBeDoes DEF command
    <2>2. CASE stage = "qdisc add"
      <3>1. bands' = bands
        BY <1>a, <2>1, <2>2 DEF Enqueue, QdiscInv
      <3>2. QED
        BY <1>a, <2>1, <3>1 DEF UnclassifiedInv, Installed, command
    <2>3. CASE stage \in {"filter add", "measure"}
      <3>1. BeBand = IF cond = "fifo" THEN 0 ELSE 1
        BY <1>a, <2>3 DEF QdiscInv, inner, BeBand
      <3>2. \A a \in (0 .. 2) \ {BeBand} : bands'[a] = bands[a]
        BY <1>a, <2>1, PacketFacts, BandFacts, EnqueueDoes
      <3>3. /\ bands'[2] = bands[2]
            /\ cond = "fifo" => bands'[1] = bands[1]
            /\ cond # "fifo" => bands'[0] = bands[0]
        BY <3>1, <3>2
      <3>4. QED
        BY <1>a, <2>1, <3>3 DEF UnclassifiedInv, Installed, command
    <2>4. QED
      BY <2>1, <2>2, <2>3 DEF UnclassifiedInv, Installed, command
  <1>8. ASSUME NEW b \in 0 .. 2, Dequeue(b) PROVE UnclassifiedInv'
    <2>1. /\ UNCHANGED <<cond, stage>> /\ bands[b] # <<>>
          /\ \A a \in (0 .. 2) \ {b} : bands'[a] = bands[a]
      BY <1>a, <1>8, DequeueDoes DEF command
    <2>2. /\ bands[0] = <<>> => bands'[0] = <<>>
          /\ bands[1] = <<>> => bands'[1] = <<>>
          /\ bands[2] = <<>> => bands'[2] = <<>>
      BY <2>1
    <2>3. QED
      BY <1>a, <2>1, <2>2 DEF UnclassifiedInv, Installed, command
  <1>9. CASE Transmitted
    BY <1>a, <1>9 DEF Transmitted, UnclassifiedInv, Installed, command
  <1>10. CASE UNCHANGED vars
    BY <1>a, <1>10 DEF vars, UnclassifiedInv, Installed, command
  <1>11. QED
    BY <1>1, <1>2, <1>3, <1>4, <1>5, <1>6, <1>7, <1>8, <1>9, <1>10 DEF Next

\* Every step keeps the flood out of the classified band.
LEMMA ClassifiedInvNext ==
    ASSUME Inv, [Next]_vars
    PROVE  ClassifiedInv'
  <1>a. /\ TypeOK /\ FilterInv /\ QdiscInv
        /\ UnclassifiedInv /\ ClassifiedInv /\ ProbesTell
    BY DEF Inv
  <1>1. CASE DelFilter
    BY <1>a, <1>1 DEF DelFilter, ClassifiedInv, Installed, command, traffic
  <1>2. CASE DelQdisc
    BY <1>2, EmptyFacts DEF DelQdisc, ClassifiedInv, Installed, command, traffic
  <1>3. CASE AddQdisc
    BY <1>a, <1>3 DEF AddQdisc, ClassifiedInv, Installed, command, traffic
  <1>4. CASE AddFilter
    BY <1>a, <1>4, EmptyFacts DEF AddFilter, ClassifiedInv, Installed, command,
       traffic
  <1>5. CASE NextCondition
    BY <1>a, <1>5 DEF NextCondition, ClassifiedInv, Installed, command, traffic
  <1>6. CASE SendTs
    <2> SUFFICES ASSUME cond \in Classified PROVE ClassifiedInv'
      BY <1>a, <1>6, SendTsDoes DEF ClassifiedInv, Installed, command, traffic
    <2>1. /\ stage = "measure" /\ UNCHANGED <<cond, stage>>
          /\ nts + 1 \in 1 .. MaxTs /\ nts' = nts + 1
          /\ Ts(nts + 1) \in Packets /\ Enqueue(Ts(nts + 1), TsBand)
      BY <1>a, <1>6, SendTsDoes, PacketFacts DEF command
    <2>2. TsBand = 0
      BY <1>a, <2>1 DEF TsBand, FilterInv
    <2>3. bands[0] \in Seq(Packets) /\ nts \in Nat
      BY <1>a, TypeFacts
    <2>4. bands'[1] = bands[1] /\ bands'[2] = bands[2]
      BY <1>a, <2>1, <2>2, EnqueueDoes
    <2>5. TsQueue(bands[0], nts)
      BY <1>a, <2>1 DEF ClassifiedInv, Installed, command, traffic
    <2>6. TsQueue(bands'[0], nts + 1)
      <3>1. \/ bands' = bands
            \/ Len(bands[0]) < Limit /\ bands'[0] = Append(bands[0], Ts(nts + 1))
        BY <1>a, <2>1, <2>2, EnqueueDoes
      <3>2. QED
        BY <2>1, <2>3, <2>5, <3>1, TsQueueAppend, TsQueueFull
    <2>7. QED
      BY <1>a, <2>1, <2>4, <2>6 DEF ClassifiedInv, Installed, command, traffic
  <1>7. CASE SendBe
    <2>1. UNCHANGED <<cond, stage, nts>> /\ Enqueue(Be, BeBand)
      BY <1>7, SendBeDoes DEF command, traffic
    <2>2. CASE stage = "qdisc add"
      <3>1. bands' = bands
        BY <1>a, <2>1, <2>2 DEF Enqueue, QdiscInv
      <3>2. QED
        BY <1>a, <2>1, <3>1 DEF ClassifiedInv, Installed, command, traffic
    <2>3. CASE stage \in {"filter add", "measure"} /\ cond \in Classified
      <3>1. BeBand = 1
        BY <1>a, <2>3 DEF QdiscInv, inner, BeBand, Classified
      <3>2. bands[1] \in Seq(Packets)
        BY <1>a, TypeFacts
      <3>3. bands'[0] = bands[0] /\ bands'[2] = bands[2]
        BY <1>a, <2>1, <3>1, PacketFacts, EnqueueDoes
      <3>4. bands' = bands \/ bands'[1] = Append(bands[1], Be)
        BY <1>a, <2>1, <3>1, PacketFacts, EnqueueDoes
      <3>5. OnlyBe(bands[1]) => OnlyBe(bands'[1])
        BY <3>2, <3>4, OnlyBeKept
      <3>6. QED
        BY <1>a, <2>1, <2>3, <3>3, <3>5 DEF ClassifiedInv, Installed, command,
           traffic
    <2>4. QED
      BY <2>1, <2>2, <2>3 DEF ClassifiedInv, Installed, command, traffic
  <1>8. ASSUME NEW b \in 0 .. 2, Dequeue(b) PROVE ClassifiedInv'
    <2>1. /\ UNCHANGED <<cond, stage, nts>>
          /\ bands[b] # <<>> /\ bands'[b] = Tail(bands[b])
          /\ \A a \in (0 .. 2) \ {b} : bands'[a] = bands[a]
      BY <1>a, <1>8, DequeueDoes DEF command, traffic
    <2>2. bands[0] \in Seq(Packets) /\ bands[1] \in Seq(Packets) /\ nts \in Nat
      BY <1>a, TypeFacts
    <2>3. CASE b = 0
      <3>1. bands'[1] = bands[1] /\ bands'[2] = bands[2]
        BY <2>1, <2>3
      <3>2. TsQueue(bands[0], nts) => TsQueue(bands'[0], nts)
        BY <2>1, <2>2, <2>3, TsQueueTail
      <3>3. QED
        BY <1>a, <2>1, <2>3, <3>1, <3>2 DEF ClassifiedInv, Installed, command,
           traffic
    <2>4. CASE b = 1
      <3>1. bands'[0] = bands[0] /\ bands'[2] = bands[2]
        BY <2>1, <2>4
      <3>2. OnlyBe(bands[1]) => OnlyBe(bands'[1])
        BY <2>1, <2>2, <2>4, OnlyBeKept
      <3>3. QED
        BY <1>a, <2>1, <3>1, <3>2 DEF ClassifiedInv, Installed, command, traffic
    <2>5. CASE b = 2
      BY <1>a, <2>1, <2>5 DEF ClassifiedInv, Installed, command, traffic
    <2>6. QED
      BY <2>3, <2>4, <2>5
  <1>9. CASE Transmitted
    BY <1>a, <1>9 DEF Transmitted, ClassifiedInv, Installed, command, traffic
  <1>10. CASE UNCHANGED vars
    BY <1>a, <1>10 DEF vars, ClassifiedInv, Installed, command, traffic
  <1>11. QED
    BY <1>1, <1>2, <1>3, <1>4, <1>5, <1>6, <1>7, <1>8, <1>9, <1>10 DEF Next

\* Every step keeps the probes' counts.
LEMMA ProbesTellNext ==
    ASSUME Inv, [Next]_vars
    PROVE  ProbesTell'
  <1>a. /\ TypeOK /\ FilterInv /\ QdiscInv
        /\ UnclassifiedInv /\ ClassifiedInv /\ ProbesTell
    BY DEF Inv
  <1>1. CASE DelFilter
    BY <1>a, <1>1 DEF DelFilter, ProbesTell, command, traffic
  <1>2. CASE DelQdisc
    BY <1>a, <1>2 DEF DelQdisc, ProbesTell, command, traffic
  <1>3. CASE AddQdisc
    BY <1>a, <1>3 DEF AddQdisc, ProbesTell, command, traffic
  <1>4. CASE AddFilter
    BY <1>a, <1>4 DEF AddFilter, ProbesTell, command, traffic
  <1>5. CASE NextCondition
    BY <1>a, <1>5 DEF NextCondition, ProbesTell, command, traffic
  <1>6. CASE SendTs
    <2>1. /\ stage = "measure" /\ nts' = nts + 1 /\ probe_in' = probe_in
          /\ probe_out' = IF filter THEN probe_out + 1 ELSE probe_out
          /\ UNCHANGED <<cond, stage>>
      BY <1>a, <1>6, SendTsDoes DEF command
    <2>2. filter <=> cond \in Classified
      BY <1>a, <2>1 DEF FilterInv
    <2>3. QED
      BY <1>a, <2>1, <2>2 DEF ProbesTell, command, traffic
  <1>7. CASE SendBe
    <2>1. UNCHANGED <<command, traffic>>
      BY <1>7, SendBeDoes
    <2>2. QED
      BY <1>a, <2>1 DEF ProbesTell, command, traffic
  <1>8. ASSUME NEW b \in 0 .. 2, Dequeue(b) PROVE ProbesTell'
    BY <1>a, <1>8 DEF Dequeue, ProbesTell, command, traffic
  <1>9. CASE Transmitted
    BY <1>a, <1>9 DEF Transmitted, ProbesTell, command, traffic
  <1>10. CASE UNCHANGED vars
    BY <1>a, <1>10 DEF vars, ProbesTell, command, traffic
  <1>11. QED
    BY <1>1, <1>2, <1>3, <1>4, <1>5, <1>6, <1>7, <1>8, <1>9, <1>10 DEF Next

\* The invariant holds in every reachable state.
LEMMA Invariance == Spec => []Inv
  <1>1. Inv /\ [Next]_vars => Inv'
    BY TypeOKNext, FilterInvNext, QdiscInvNext, UnclassifiedInvNext,
       ClassifiedInvNext, ProbesTellNext DEF Inv
  <1>2. QED
    BY InitInv, <1>1, PTL DEF Spec

-----------------------------------------------------------------------------
(* The theorems *)

\* The probes at the veth and at egress: behind the veth no packet has a
\* priority, and at egress exactly the talker's packets have priority 6 if the
\* condition has the classifier, and none otherwise.
THEOREM ProbesTellSafe == Spec => []ProbesTell
  <1>1. Inv => ProbesTell
    BY DEF Inv
  <1>2. QED
    BY Invariance, <1>1, PTL

\* In a band of the flood no packet of the talker waits.
LEMMA BeBandHoldsNoTs ==
    ASSUME NEW s, OnlyBe(s), NEW n \in 1 .. MaxTs
    PROVE  \A i \in DOMAIN s : s[i] # Ts(n)
  BY PacketFacts DEF OnlyBe

\* As many packets of the talker wait as its band is long.
LEMMA TsQueueCount ==
    ASSUME TypeOK, TsQueue(bands[0], nts), OnlyBe(bands[1]), bands[2] = <<>>
    PROVE  Cardinality({n \in 1 .. nts : Waiting(Ts(n))}) = Len(bands[0])
  <1> DEFINE s == bands[0]
             W == {n \in 1 .. nts : Waiting(Ts(n))}
             f == [i \in 1 .. Len(s) |-> s[i].n]
  <1>1. /\ s \in Seq(Packets) /\ Len(s) \in Nat /\ DOMAIN s = 1 .. Len(s)
        /\ nts \in Nat /\ nts <= MaxTs /\ MaxTs \in Nat
    <2>1. /\ s \in Seq(Packets)
          /\ nts \in Nat /\ nts <= MaxTs /\ MaxTs \in Nat
      BY TypeFacts, BoundFacts
    <2>2. Len(s) \in Nat /\ DOMAIN s = 1 .. Len(s)
      BY <2>1, LenProperties
    <2>3. QED
      BY <2>1, <2>2
  <1>2. \A i \in 1 .. Len(s) : s[i].n \in 1 .. nts /\ s[i] = Ts(s[i].n)
    BY <1>1 DEF TsQueue
  <1>3. \A i, j \in 1 .. Len(s) : i < j => s[i].n < s[j].n
    BY <1>1 DEF TsQueue
  <1>4. ASSUME NEW i \in 1 .. Len(s) PROVE s[i].n \in W
    <2>1. 0 \in 0 .. 2
      OBVIOUS
    <2>2. Waiting(Ts(s[i].n))
      BY <1>1, <1>2, <2>1 DEF Waiting
    <2>3. QED
      BY <1>2, <2>2
  <1>5. ASSUME NEW n \in W PROVE \E i \in 1 .. Len(s) : s[i].n = n
    <2>1. n \in 1 .. MaxTs /\ Waiting(Ts(n))
      BY <1>1
    <2>2. PICK b \in 0 .. 2 : \E i \in DOMAIN bands[b] : bands[b][i] = Ts(n)
      BY <2>1 DEF Waiting
    <2>3. b # 1
      BY <2>1, <2>2, BeBandHoldsNoTs
    <2>4. b # 2
      BY <2>2
    <2>5. b = 0
      BY <2>3, <2>4
    <2>6. PICK i \in 1 .. Len(s) : s[i] = Ts(n)
      BY <1>1, <2>2, <2>5
    <2>7. QED
      BY <2>1, <2>6, PacketFacts
  <1>6. f \in [1 .. Len(s) -> W]
    BY <1>4
  <1>7. ASSUME NEW i \in 1 .. Len(s), NEW j \in 1 .. Len(s), f[i] = f[j]
        PROVE  i = j
    <2>1. s[i].n = s[j].n /\ s[i].n \in 1 .. nts
      BY <1>2, <1>7
    <2>2. ~(i < j) /\ ~(j < i)
      BY <1>1, <1>3, <2>1
    <2>3. QED
      BY <1>1, <2>2
  <1>8. \A n \in W : \E i \in 1 .. Len(s) : f[i] = n
    BY <1>5
  <1> HIDE DEF s, W, f
  <1>9. f \in Bijection(1 .. Len(s), W)
    BY <1>6, <1>7, <1>8, Fun_IsBij
  <1>10. Cardinality(W) = Len(s)
    BY <1>1, <1>9, FS_CountingElements, Fun_ExistsBij
  <1>11. QED
    BY <1>10 DEF s, W

\* What the link may take next, and what is dropped, in one step.
LEMMA TsFirstStep ==
    ASSUME Inv, [Next]_vars
    PROVE  /\ stage = "measure" /\ cond \in Classified /\ wire = None /\ wire' = Be
                 => ~TsWaiting
           /\ nts' = nts + 1 /\ cond \in Classified /\ bands' = bands
                 => Cardinality({n \in 1 .. nts : Waiting(Ts(n))}) = Limit
  <1>a. TypeOK /\ FilterInv /\ QdiscInv /\ ClassifiedInv
    BY DEF Inv
  <1>1. ASSUME stage = "measure", cond \in Classified, wire = None, wire' = Be
        PROVE  ~TsWaiting
    <2>1. bands[2] = <<>> /\ OnlyBe(bands[1]) /\ TsQueue(bands[0], nts)
      BY <1>a, <1>1 DEF ClassifiedInv, Installed
    <2>2. None # Be
      BY PacketFacts
    <2>3. PICK b \in 0 .. 2 : Dequeue(b)
      BY <1>1, <2>2, SendBeDoes
         DEF Next, DelFilter, DelQdisc, AddQdisc, AddFilter, NextCondition,
             SendTs, Transmitted, vars
    <2>4. /\ bands[b] # <<>> /\ Be = bands[b][1]
          /\ \A a \in 0 .. (b - 1) : bands[a] = <<>>
      BY <1>a, <1>1, <2>3, DequeueDoes DEF Dequeue
    <2>5. b # 0
      <3>1. bands[0] \in Seq(Packets) /\ nts \in 0 .. MaxTs
        BY <1>a, TypeFacts DEF TypeOK
      <3>2. ASSUME b = 0 PROVE FALSE
        <4>1. 1 \in DOMAIN bands[0]
          BY <2>4, <3>1, <3>2, EmptySeq, LenProperties
        <4>2. bands[0][1].n \in 1 .. nts /\ bands[0][1] = Ts(bands[0][1].n)
          BY <2>1, <4>1 DEF TsQueue
        <4>3. bands[0][1].n \in 1 .. MaxTs
          BY <3>1, <4>2, BoundFacts
        <4>4. QED
          BY <2>4, <3>2, <4>2, <4>3, PacketFacts
      <3>3. QED
        BY <3>2
    <2>6. bands[0] = <<>>
      BY <2>4, <2>5
    <2>7. ASSUME NEW n \in 1 .. MaxTs, Waiting(Ts(n)) PROVE FALSE
      <3>1. PICK c \in 0 .. 2 : \E i \in DOMAIN bands[c] : bands[c][i] = Ts(n)
        BY <2>7 DEF Waiting
      <3>2. c = 1
        BY <2>1, <2>6, <3>1
      <3>3. QED
        BY <2>1, <3>1, <3>2, BeBandHoldsNoTs
    <2>8. QED
      BY <2>7 DEF TsWaiting
  <1>2. ASSUME nts' = nts + 1, cond \in Classified, bands' = bands
        PROVE  Cardinality({n \in 1 .. nts : Waiting(Ts(n))}) = Limit
    <2>1. nts \in Nat /\ nts' # nts /\ nts' # 0
      BY <1>a, <1>2, TypeFacts
    <2>2. SendTs
      BY <1>2, <2>1, SendBeDoes
         DEF Next, DelFilter, DelQdisc, AddQdisc, AddFilter, NextCondition,
             Dequeue, Transmitted, vars, traffic
    <2>3. stage = "measure" /\ nts + 1 \in 1 .. MaxTs /\ Enqueue(Ts(nts + 1), TsBand)
      BY <1>a, <2>2, SendTsDoes
    <2>4. TsBand = 0 /\ qdisc = "bands"
      BY <1>a, <1>2, <2>3 DEF TsBand, FilterInv, QdiscInv, inner, Classified
    <2>5. bands[2] = <<>> /\ OnlyBe(bands[1]) /\ TsQueue(bands[0], nts)
      BY <1>a, <1>2, <2>3 DEF ClassifiedInv, Installed
    <2>6. bands[0] \in Seq(Packets) /\ Ts(nts + 1) \in Packets
      BY <1>a, <2>3, TypeFacts, PacketFacts
    <2>7. Len(bands[0]) >= Limit
      <3>1. \/ Len(bands[0]) >= Limit
            \/ bands'[0] = Append(bands[0], Ts(nts + 1))
        BY <1>a, <2>3, <2>4, <2>6, EnqueueDoes
      <3>2. Len(Append(bands[0], Ts(nts + 1))) = Len(bands[0]) + 1
        BY <2>6, AppendProperties
      <3>3. Len(bands[0]) \in Nat
        BY <2>6, LenProperties
      <3>4. QED
        BY <1>2, <3>1, <3>2, <3>3
    <2>8. Len(bands[0]) = Limit
      <3>1. Len(bands[0]) \in Nat /\ Len(bands[0]) <= Limit
        BY <2>5, <2>6, LenProperties DEF TsQueue
      <3>2. QED
        BY <2>7, <3>1, BoundFacts
    <2>9. QED
      BY <1>a, <2>5, <2>8, TsQueueCount
  <1>3. QED
    BY <1>1, <1>2

\* The classified band: the link sends a packet of the flood only while no
\* time-sensitive packet waits, and a time-sensitive packet is dropped only
\* for Limit others of its own flow.
THEOREM TsFirstHolds == Spec => TsFirst
  <1>1. Inv /\ [Next]_vars =>
          [stage = "measure" /\ cond \in Classified /\ wire = None /\ wire' = Be
              => ~TsWaiting]_vars
    BY TsFirstStep
  <1>2. Inv /\ [Next]_vars =>
          [nts' = nts + 1 /\ cond \in Classified /\ bands' = bands
              => Cardinality({n \in 1 .. nts : Waiting(Ts(n))}) = Limit]_vars
    BY TsFirstStep
  <1>3. QED
    BY Invariance, <1>1, <1>2, PTL DEF Spec, TsFirst, StrictPriority, NoLossByFlood

-----------------------------------------------------------------------------
(* Without the classifier the bottleneck implements FifoQueue *)

\* The refinement mapping: the queue that the three bands are.
FifoOf == IF Unclassified THEN bands[0] \o bands[1] \o bands[2] ELSE <<>>

\* The band that is used.
FifoBand == IF cond = "fifo" THEN 0 ELSE 1

\* Without the classifier the queue is the one band that is used.
LEMMA FifoIsBand ==
    TypeOK /\ UnclassifiedInv /\ Unclassified =>
        FifoOf = bands[FifoBand] /\ FifoBand \in 0 .. 2
  <1> SUFFICES ASSUME TypeOK, UnclassifiedInv, Unclassified
               PROVE  FifoOf = bands[FifoBand] /\ FifoBand \in 0 .. 2
    OBVIOUS
  <1>1. bands[0] \in Seq(Packets) /\ bands[1] \in Seq(Packets)
    BY TypeFacts
  <1>2. /\ bands[2] = <<>>
        /\ cond = "fifo" => bands[1] = <<>>
        /\ cond # "fifo" => bands[0] = <<>>
    BY DEF Unclassified, UnclassifiedInv, Installed
  <1>3. FifoOf = bands[0] \o bands[1] \o bands[2]
    BY DEF FifoOf
  <1>4. CASE cond = "fifo"
    <2>1. bands[0] \o <<>> = bands[0]
      BY <1>1, ConcatEmptySeq
    <2>2. FifoOf = (bands[0] \o <<>>) \o <<>>
      BY <1>2, <1>3, <1>4, Zenon
    <2>3. FifoOf = bands[0]
      BY <2>1, <2>2, Zenon
    <2>4. FifoBand = 0
      BY <1>4 DEF FifoBand
    <2>5. QED
      BY <2>3, <2>4
  <1>5. CASE cond # "fifo"
    <2>1. <<>> \o bands[1] = bands[1] /\ bands[1] \o <<>> = bands[1]
      BY <1>1, ConcatEmptySeq
    <2>2. FifoOf = (<<>> \o bands[1]) \o <<>>
      BY <1>2, <1>3, <1>5, Zenon
    <2>3. FifoOf = bands[1]
      BY <2>1, <2>2, Zenon
    <2>4. FifoBand = 1
      BY <1>5 DEF FifoBand
    <2>5. QED
      BY <2>3, <2>4
  <1>6. QED
    BY <1>4, <1>5

\* So it is after a step.
LEMMA FifoIsBandNext ==
    (TypeOK /\ UnclassifiedInv /\ Unclassified =>
        FifoOf = bands[FifoBand] /\ FifoBand \in 0 .. 2)'
  BY FifoIsBand, PTL

\* A packet is offered to the queue and taken or dropped, or something else is
\* installed.
LEMMA EnqueueImplements ==
    ASSUME Inv, Inv', NEW p \in Packets, NEW b \in 0 .. 2, Enqueue(p, b),
           UNCHANGED <<command, wire>>,
           qdisc # "noqueue" /\ Unclassified => b = FifoBand
    PROVE  \/ Fifo!Offer(p) \/ Fifo!Elsewhere
           \/ UNCHANGED <<Unclassified, FifoOf, wire>>
  <1>1. TypeOK /\ UnclassifiedInv /\ TypeOK' /\ UnclassifiedInv'
    BY DEF Inv
  <1>2. Unclassified' = Unclassified /\ FifoBand' = FifoBand
    BY DEF command, Unclassified, FifoBand
  <1>3. CASE ~Unclassified
    BY <1>2, <1>3 DEF Fifo!Elsewhere
  <1>4. CASE Unclassified /\ bands' = bands
    BY <1>2, <1>4 DEF FifoOf
  <1>5. CASE Unclassified /\ bands' # bands
    <2>1. /\ qdisc # "noqueue" /\ Len(bands[b]) < Limit
          /\ bands'[b] = Append(bands[b], p)
      BY <1>1, <1>5, EnqueueDoes
    <2>2. b = FifoBand
      BY <1>5, <2>1
    <2>3. FifoOf = bands[b] /\ FifoOf' = bands'[b]
      BY <1>1, <1>2, <1>5, <2>2, FifoIsBand, FifoIsBandNext
    <2>4. QED
      BY <1>2, <1>5, <2>1, <2>3 DEF Fifo!Offer, FifoOf
  <1>6. QED
    BY <1>3, <1>4, <1>5

\* The initial states are initial states of the queue.
LEMMA FifoInit ==
    ASSUME Init
    PROVE  Fifo!Init
  BY DEF Init, Fifo!Init, Unclassified

\* Every step is a step of the queue or none.
LEMMA FifoStep ==
    ASSUME Inv, Inv', [Next]_vars
    PROVE  Fifo!Next \/ UNCHANGED <<Unclassified, FifoOf, wire>>
  <1>a. /\ TypeOK /\ FilterInv /\ QdiscInv /\ UnclassifiedInv
        /\ TypeOK' /\ UnclassifiedInv'
    BY DEF Inv
  <1>1. CASE DelFilter
    <2>1. ~Unclassified /\ ~Unclassified'
      BY <1>1 DEF DelFilter, Unclassified
    <2>2. QED
      BY <2>1 DEF Fifo!Next, Fifo!Elsewhere
  <1>2. CASE DelQdisc
    <2>1. FifoOf' = <<>> /\ wire' = wire
      <3>1. bands'[0] = <<>> /\ bands'[1] = <<>> /\ bands'[2] = <<>>
        BY <1>2, EmptyFacts DEF DelQdisc
      <3>2. QED
        BY <1>2, <3>1, ConcatEmptySeq, EmptySeq DEF DelQdisc, FifoOf
    <2>2. Unclassified' \in BOOLEAN
      BY DEF Unclassified
    <2>3. QED
      BY <2>1, <2>2 DEF Fifo!Next, Fifo!Replace, FifoOf
  <1>3. CASE AddQdisc
    BY <1>3 DEF AddQdisc, Unclassified, FifoOf
  <1>4. CASE AddFilter
    BY <1>4 DEF AddFilter, Unclassified, FifoOf
  <1>5. CASE NextCondition
    <2>1. ~Unclassified' /\ wire' = wire
      BY <1>5 DEF NextCondition, Unclassified
    <2>2. Unclassified' \in BOOLEAN
      BY DEF Unclassified
    <2>3. QED
      BY <2>1, <2>2 DEF Fifo!Next, Fifo!Replace
  <1>6. CASE SendTs
    <2>1. /\ stage = "measure" /\ Ts(nts + 1) \in Packets
          /\ Enqueue(Ts(nts + 1), TsBand) /\ UNCHANGED <<command, wire>>
      BY <1>a, <1>6, SendTsDoes, PacketFacts
    <2>2. Unclassified => TsBand = FifoBand
      BY <1>a, <2>1 DEF Unclassified, FilterInv, QdiscInv, inner, TsBand, FifoBand
    <2>3. QED
      BY <2>1, <2>2, BandFacts, EnqueueImplements DEF Fifo!Next
  <1>7. CASE SendBe
    <2>1. Be \in Packets /\ Enqueue(Be, BeBand) /\ UNCHANGED <<command, wire>>
      BY <1>7, SendBeDoes, PacketFacts
    <2>2. qdisc # "noqueue" /\ Unclassified => BeBand = FifoBand
      BY <1>a DEF Unclassified, QdiscInv, inner, BeBand, FifoBand
    <2>3. QED
      BY <2>1, <2>2, BandFacts, EnqueueImplements DEF Fifo!Next
  <1>8. ASSUME NEW b \in 0 .. 2, Dequeue(b)
        PROVE  Fifo!Next \/ UNCHANGED <<Unclassified, FifoOf, wire>>
    <2>1. /\ wire = None /\ bands[b] # <<>> /\ wire' = Head(bands[b])
          /\ bands'[b] = Tail(bands[b]) /\ UNCHANGED command
      BY <1>a, <1>8, DequeueDoes DEF Dequeue
    <2>2. Unclassified' = Unclassified /\ FifoBand' = FifoBand
      BY <2>1 DEF command, Unclassified, FifoBand
    <2>3. CASE ~Unclassified
      BY <2>2, <2>3 DEF Fifo!Next, Fifo!Elsewhere
    <2>4. CASE Unclassified
      <3>1. b = FifoBand
        <4>1. b # 2 /\ (cond = "fifo" => b # 1) /\ (cond # "fifo" => b # 0)
          BY <1>a, <2>1, <2>4 DEF Unclassified, UnclassifiedInv, Installed
        <4>2. QED
          BY <4>1 DEF FifoBand
      <3>2. FifoOf = bands[b] /\ FifoOf' = bands'[b]
        BY <1>a, <2>2, <2>4, <3>1, FifoIsBand, FifoIsBandNext
      <3>3. QED
        BY <2>1, <2>2, <2>4, <3>2 DEF Fifo!Next, Fifo!Take, FifoOf
    <2>5. QED
      BY <2>3, <2>4
  <1>9. CASE Transmitted
    <2>1. wire # None /\ wire' = None /\ UNCHANGED <<command, bands>>
      BY <1>9 DEF Transmitted
    <2>2. Unclassified' = Unclassified /\ FifoOf' = FifoOf
      BY <2>1 DEF command, Unclassified, FifoOf
    <2>3. CASE ~Unclassified
      BY <2>2, <2>3 DEF Fifo!Next, Fifo!Elsewhere
    <2>4. CASE Unclassified
      BY <2>1, <2>2, <2>4 DEF Fifo!Next, Fifo!Sent, FifoOf
    <2>5. QED
      BY <2>3, <2>4
  <1>10. CASE UNCHANGED vars
    BY <1>10 DEF vars, command, Unclassified, FifoOf
  <1>11. QED
    BY <1>1, <1>2, <1>3, <1>4, <1>5, <1>6, <1>7, <1>8, <1>9, <1>10 DEF Next

\* The conditions without the classifier, one queue or three bands alike:
\* every step at the bottleneck is a step of the abstract FIFO queue.
THEOREM NoclsfIsFifoHolds == Spec => NoclsfIsFifo
  <1>1. Init => Fifo!Init
    BY FifoInit
  <1>2. Inv /\ Inv' /\ [Next]_vars =>
          [Fifo!Next]_<<Unclassified,
                        IF Unclassified THEN bands[0] \o bands[1] \o bands[2]
                                        ELSE <<>>,
                        wire>>
    BY FifoStep DEF FifoOf
  <1>3. QED
    BY Invariance, <1>1, <1>2, PTL DEF Spec, NoclsfIsFifo, Fifo!Spec
=============================================================================
