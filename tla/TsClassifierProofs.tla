------------------------- MODULE TsClassifierProofs -------------------------
(***************************************************************************)
(* Machine-checked proofs about TsClassifier, for any number of CPUs, any  *)
(* set of frames, configurations and ports, and without the bounds of the  *)
(* TLC runs (MaxPkts and MaxUpdates may be any naturals).                  *)
(***************************************************************************)
EXTENDS TsClassifier, TLAPS

-----------------------------------------------------------------------------
(* Operators *)

LEMMA OnesPositive == Ones \in Nat /\ Ones > 0
  BY DEF Ones

\* One's-complement sums of words are words, and positive unless both are 0.
LEMMA CsumAddWord ==
    ASSUME NEW a \in Word, NEW b \in Word
    PROVE  /\ CsumAdd(a, b) \in Word
           /\ a > 0 => CsumAdd(a, b) > 0
  BY OnesPositive DEF CsumAdd, Word

\* The one's complement of a 16-bit word is a 16-bit word.
LEMMA CsumNotWord ==
    ASSUME NEW a \in Word
    PROVE  CsumNot(a) \in Word
  BY OnesPositive DEF CsumNot, Word

\* The incremental update keeps a header's checksum as good, or as bad, as it
\* was.  The two first words are positive because the version is 4.
LEMMA CsumReplaceKeeps ==
    ASSUME NEW f \in Word, NEW t \in Word, NEW r \in Word, NEW k \in Word,
           f > 0, t > 0
    PROVE  /\ CsumReplace2(k, f, t) \in Word
           /\ CsumOk(t, r, CsumReplace2(k, f, t)) <=> CsumOk(f, r, k)
<1>1. CsumReplace2(k, f, t) \in Word
  BY CsumAddWord, CsumNotWord DEF CsumReplace2
<1>2. CsumOk(t, r, CsumReplace2(k, f, t)) <=> CsumOk(f, r, k)
  BY OnesPositive, SMTT(60) DEF CsumReplace2, CsumOk, CsumAdd, CsumNot, Word
<1>. QED BY <1>1, <1>2

\* Mixing two configurations gives a configuration.
LEMMA MixConfig ==
    ASSUME NEW a \in Config, NEW b \in Config, NEW S
    PROVE  Mix(a, b, S) \in Config
  BY DEF Mix, Config

\* The new TOS byte is a byte, whatever 32-bit word the configuration holds.
LEMMA NewTosByte ==
    ASSUME NEW cf \in Config, NEW tos \in Byte
    PROVE  NewTos(cf, tos) \in Byte
<1>1. TsDscp(cf) \in 0 .. 63
  BY DEF TsDscp, Config, TS_DEFAULT_DSCP
<1>2. tos % 4 \in 0 .. 3
  BY DEF Byte
<1>. QED BY <1>1, <1>2 DEF NewTos, Byte

\* Version, header length and TOS make a 16-bit word, positive for version 4.
LEMMA WordOfBytes ==
    ASSUME NEW v \in 0 .. 15, NEW h \in 0 .. 15, NEW t \in 0 .. 255
    PROVE  /\ 16 * v + h + 256 * t \in Nat
           /\ 16 * v + h + 256 * t <= 256 * 256 - 1
           /\ v = 4 => 16 * v + h + 256 * t > 0
  OBVIOUS

\* The first word of a header is a 16-bit word, positive for version 4.
LEMMA FirstWordWord ==
    ASSUME NEW p \in Packet, NEW tos \in Byte
    PROVE  /\ FirstWord(p, tos) \in Word
           /\ p.version = 4 => FirstWord(p, tos) > 0
<1>1. p.version \in 0 .. 15 /\ p.ihl \in 0 .. 15
  BY DEF Packet
<1>2. /\ FirstWord(p, tos) \in Nat
      /\ FirstWord(p, tos) <= Ones
      /\ p.version = 4 => FirstWord(p, tos) > 0
  BY <1>1, WordOfBytes DEF FirstWord, Byte, Ones
<1>. QED BY <1>2, OnesPositive DEF Word

\* What classify() returns, for every frame and every map contents: a reason
\* of the right kind, and an IPv4 offset only for a version-4 header, under a
\* reason that may be marked.
LEMMA ClassifyResult ==
    ASSUME NEW p \in Packet, NEW flags, NEW ports
    PROVE  LET r == classify(p, flags, ports)
           IN  /\ r \in Outcome
               /\ r.ts <=> r.reason \in TsReasons
               /\ ~r.ts => r.reason \in {"NORMAL", "PARSE_SHORT"}
               /\ r.ip_off # 0 => p.version = 4
               /\ r.ts /\ r.ip_off # 0 => r.reason \in {"TS_PCP", "TS_UDP"}
<1>1. L3Off(p) \in Nat
  BY DEF L3Off, Unwrapped, Packet
<1>. HIDE DEF L3Off
<1>. QED
  BY <1>1 DEF classify, ClassifyIp, Done, Result, Outcome, Reasons, TsReasons,
     SkipsIp, Packet

\* Every field of a configuration is a number.
LEMMA ConfigField ==
    ASSUME NEW cf \in Config, NEW f \in Fields
    PROVE  cf[f] \in Nat
  BY DEF Config, Fields

\* Frames, and the buffers made from them, are well typed.
LEMMA PacketFacts ==
    /\ AnyPacket \in Packet
    /\ \A p \in Packets : p \in Packet
    /\ \A p \in Packet : SkbOf(p) \in Skb
  BY PacketsAssumption DEF AnyPacket, SkbOf, Skb, Packet

\* The zeroed configuration and result of the program's entry are well typed.
LEMMA ZeroFacts == ZeroConfig \in Config /\ NoOutcome \in Outcome
  BY DEF ZeroConfig, Config, NoOutcome, Outcome, Result, Reasons

-----------------------------------------------------------------------------
(* Type correctness *)

\* The initial state is well typed.
LEMMA TypeInit == Init => TypeOK
<1>. SUFFICES ASSUME Init PROVE TypeOK
  OBVIOUS
<1>1. ts_config \in Config /\ upd \in [val : Config, todo : SUBSET Fields]
  BY ZeroFacts, ConfigsAssumption DEF Init
<1>2. ts_counters \in [Cpus -> [Counters -> Nat]] /\ pc \in [Cpus -> PcValues]
  BY DEF Init, PcValues
<1>3. /\ pkt \in [Cpus -> Packet] /\ skb \in [Cpus -> Skb]
      /\ cfg \in [Cpus -> Config] /\ pr \in [Cpus -> Outcome]
  BY ZeroFacts, PacketFacts DEF Init
<1>4. seen \in [Cpus -> [Fields -> SUBSET Nat]]
  BY DEF Init, NothingSeen
<1>. QED BY <1>1, <1>2, <1>3, <1>4 DEF Init, TypeOK

\* What count() does, read slot by slot.
LEMMA CountStep ==
    ASSUME ts_counters \in [Cpus -> [Counters -> Nat]],
           NEW c \in Cpus, NEW k \in Counters, count(c, k)
    PROVE  /\ ts_counters' \in [Cpus -> [Counters -> Nat]]
           /\ ts_counters'[c][k] = ts_counters[c][k] + 1
           /\ \A l \in Counters \ {k} : ts_counters'[c][l] = ts_counters[c][l]
           /\ \A d \in Cpus \ {c} : ts_counters'[d] = ts_counters[d]
  BY DEF count

\* The writes of ts_classifier() and mark_dscp(), field by field.
LEMMA PriorityWrite ==
    ASSUME NEW s \in Skb, NEW x \in Nat
    PROVE  /\ WithPriority(s, x) \in Skb
           /\ WithPriority(s, x).tos = s.tos /\ WithPriority(s, x).check = s.check
           /\ WithPriority(s, x).priority = x /\ WithPriority(s, x).cloned = s.cloned
  BY DEF Skb, WithPriority

\* What bpf_l3_csum_replace does to the buffer.
LEMMA CheckWrite ==
    ASSUME NEW s \in Skb, NEW w \in Word
    PROVE  /\ WithCheck(s, w) \in Skb
           /\ WithCheck(s, w).tos = s.tos /\ WithCheck(s, w).check = w
           /\ WithCheck(s, w).priority = s.priority /\ ~WithCheck(s, w).cloned
  BY DEF Skb, WithCheck

\* What bpf_skb_store_bytes does to the buffer.
LEMMA TosWrite ==
    ASSUME NEW s \in Skb, NEW b \in Byte
    PROVE  /\ WithTos(s, b) \in Skb
           /\ WithTos(s, b).tos = b /\ WithTos(s, b).check = s.check
           /\ WithTos(s, b).priority = s.priority
  BY DEF Skb, WithTos

\* Every step keeps the types.
LEMMA TypeStep == TypeOK /\ [Next]_vars => TypeOK'
<1>. SUFFICES ASSUME TypeOK, [Next]_vars PROVE TypeOK'
  OBVIOUS
<1>. USE DEF TypeOK
<1>1. ASSUME NEW v \in Configs, UpdateBegin(v) PROVE TypeOK'
  BY <1>1, ConfigsAssumption DEF UpdateBegin, cpuVars, history
<1>2. ASSUME NEW f \in Fields, UpdateField(f) PROVE TypeOK'
  <2>1. ts_config' \in Config
    BY <1>2, MixConfig DEF UpdateField
  <2>2. upd' \in [val : Config, todo : SUBSET Fields]
    BY <1>2 DEF UpdateField
  <2>3. \A g \in Fields : upd.val[g] \in Nat
    BY ConfigField
  <2>4. seen' \in [Cpus -> [Fields -> SUBSET Nat]]
    BY <1>2, <2>3 DEF UpdateField
  <2>. QED BY <1>2, <2>1, <2>2, <2>4 DEF UpdateField, cpuVars
<1>3. ASSUME NEW q \in Ports, AddPort(q) PROVE TypeOK'
  BY <1>3 DEF AddPort, cpuVars, history
<1>4. ASSUME NEW c \in Cpus, NEW p \in Packets, Start(c, p) PROVE TypeOK'
  <2>1. p \in Packet /\ SkbOf(p) \in Skb
    BY PacketFacts
  <2>2. [f \in Fields |-> {ts_config[f]}] \in [Fields -> SUBSET Nat]
    BY ConfigField
  <2>. QED BY <1>4, <2>1, <2>2, ZeroFacts DEF Start, mapVars, PcValues
<1>5. ASSUME NEW c \in Cpus, NEW f \in Fields, LoadField(c, f) PROVE TypeOK'
  BY <1>5, MixConfig DEF LoadField, mapVars, history, PcValues
<1>6. ASSUME NEW c \in Cpus, Classify(c) PROVE TypeOK'
  <2>. DEFINE r == classify(pkt[c], cfg[c].flags, ts_udp_ports)
  <2>1. r \in Outcome
    BY ClassifyResult
  <2>2. r.reason \in Counters
    BY <2>1 DEF Outcome, Counters
  <2>. HIDE DEF r
  <2>3. pc' \in [Cpus -> PcValues] /\ pr' \in [Cpus -> Outcome]
    BY <1>6, <2>1 DEF Classify, PcValues, r
  <2>4. ts_counters' \in [Cpus -> [Counters -> Nat]]
    <3>1. CASE r.ts
      BY <1>6, <3>1 DEF Classify, r
    <3>2. CASE ~r.ts
      <4>1. count(c, r.reason)
        BY <1>6, <3>2 DEF Classify, r
      <4>. QED BY <4>1, <2>2, CountStep
    <3>. QED BY <3>1, <3>2
  <2>. QED BY <1>6, <2>3, <2>4 DEF Classify, mapVars, history
<1>7. ASSUME NEW c \in Cpus, SetPriority(c) PROVE TypeOK'
  <2>1. TsPriority(cfg[c]) \in Nat
    BY DEF TsPriority, Config, TS_DEFAULT_PRIORITY
  <2>2. skb' \in [Cpus -> Skb]
    <3>1. WithPriority(skb[c], TsPriority(cfg[c])) \in Skb
      BY <2>1, PriorityWrite
    <3>. QED BY <1>7, <3>1 DEF SetPriority
  <2>3. ts_counters' \in [Cpus -> [Counters -> Nat]]
    <3>1. pr[c].reason \in Counters /\ count(c, pr[c].reason)
      BY <1>7 DEF SetPriority, Outcome, Counters
    <3>. QED BY <3>1, CountStep
  <2>. QED BY <1>7, <2>2, <2>3 DEF SetPriority, mapVars, history, PcValues
<1>8. ASSUME NEW c \in Cpus, CsumReplace(c) PROVE TypeOK'
  <2>. DEFINE new == CsumReplace2(skb[c].check, FirstWord(pkt[c], skb[c].tos),
                       FirstWord(pkt[c], NewTos(cfg[c], skb[c].tos)))
  <2>1. new \in Word
    BY FirstWordWord, NewTosByte, CsumAddWord, CsumNotWord DEF Skb, CsumReplace2
  <2>. HIDE DEF new
  <2>2. skb' \in [Cpus -> Skb]
    <3>1. \/ skb' = skb
          \/ skb' = [skb EXCEPT ![c] = WithCheck(skb[c], new)]
      BY <1>8 DEF CsumReplace, new
    <3>2. WithCheck(skb[c], new) \in Skb
      BY <2>1, CheckWrite
    <3>. QED BY <3>1, <3>2
  <2>. QED BY <1>8, <2>2 DEF CsumReplace, AfterCsum, mapVars, history, PcValues
<1>9. ASSUME NEW c \in Cpus, StoreTos(c) PROVE TypeOK'
  <2>1. NewTos(cfg[c], skb[c].tos) \in Byte
    BY NewTosByte DEF Skb
  <2>2. skb' \in [Cpus -> Skb]
    <3>1. \/ skb' = skb
          \/ skb' = [skb EXCEPT ![c] = WithTos(skb[c], NewTos(cfg[c], skb[c].tos))]
      BY <1>9 DEF StoreTos
    <3>2. WithTos(skb[c], NewTos(cfg[c], skb[c].tos)) \in Skb
      BY <2>1, TosWrite
    <3>. QED BY <3>1, <3>2
  <2>. QED BY <1>9, <2>2 DEF StoreTos, mapVars, history, PcValues
<1>10. ASSUME NEW c \in Cpus, CountMarked(c) PROVE TypeOK'
  <2>1. ts_counters' \in [Cpus -> [Counters -> Nat]]
    BY <1>10, CountStep DEF CountMarked, Counters
  <2>. QED BY <1>10, <2>1 DEF CountMarked, mapVars, history, PcValues
<1>11. ASSUME NEW c \in Cpus, Return(c) PROVE TypeOK'
  <2>1. log' \subseteq [pkt : Packet, ts : BOOLEAN]
    BY <1>11 DEF Return, Outcome
  <2>2. NothingSeen \in [Fields -> SUBSET Nat]
    BY DEF NothingSeen
  <2>3. changed' \in [Cpus -> Nat] /\ sent' \in [Cpus -> Nat]
    BY <1>11 DEF Return
  <2>. QED BY <1>11, <2>1, <2>2, <2>3, ZeroFacts, PacketFacts
           DEF Return, mapVars, PcValues
<1>12. CASE UNCHANGED vars
  BY <1>12 DEF vars, mapVars, cpuVars, history
<1>. QED BY <1>1, <1>2, <1>3, <1>4, <1>5, <1>6, <1>7, <1>8, <1>9, <1>10, <1>11,
            <1>12 DEF Next, Program, Running

\* Every reachable state is well typed, for every number of CPUs: the TOS byte
\* mark_dscp() computes from the configuration stays a byte and the checksum a
\* 16-bit word.
THEOREM TypeCorrect == Spec => []TypeOK
<1>. QED BY TypeInit, TypeStep, PTL DEF Spec

-----------------------------------------------------------------------------
(* CPUs do not disturb each other *)

\* Nothing the program uses on CPU c changes, except the shared maps.
CpuSame(c) ==
    /\ pc'[c] = pc[c] /\ pkt'[c] = pkt[c] /\ skb'[c] = skb[c]
    /\ cfg'[c] = cfg[c] /\ pr'[c] = pr[c] /\ ts_counters'[c] = ts_counters[c]
    /\ sent'[c] = sent[c] /\ changed'[c] = changed[c]

\* A step either is one of the program on CPU c or leaves c alone.
LEMMA Locality ==
    ASSUME TypeOK, [Next]_vars, NEW c \in Cpus
    PROVE  CpuSame(c) \/ Program(c)
<1>. USE DEF TypeOK
<1>1. ASSUME NEW v \in Configs, UpdateBegin(v) PROVE CpuSame(c)
  BY <1>1 DEF UpdateBegin, CpuSame, cpuVars, history
<1>2. ASSUME NEW f \in Fields, UpdateField(f) PROVE CpuSame(c)
  BY <1>2 DEF UpdateField, CpuSame, cpuVars
<1>3. ASSUME NEW q \in Ports, AddPort(q) PROVE CpuSame(c)
  BY <1>3 DEF AddPort, CpuSame, cpuVars, history
<1>4. ASSUME NEW d \in Cpus, d # c, Program(d) PROVE CpuSame(c)
  <2>. USE <1>4 DEF CpuSame, mapVars, history
  <2>1. ASSUME NEW k \in Counters, count(d, k) PROVE ts_counters'[c] = ts_counters[c]
    BY <2>1, CountStep
  <2>2. ASSUME NEW p \in Packets, Start(d, p) PROVE CpuSame(c)
    BY <2>2 DEF Start
  <2>3. ASSUME NEW f \in Fields, LoadField(d, f) PROVE CpuSame(c)
    BY <2>3 DEF LoadField
  <2>4. CASE Classify(d)
    <3>. DEFINE r == classify(pkt[d], cfg[d].flags, ts_udp_ports)
    <3>1. r.reason \in Counters
      BY ClassifyResult DEF Outcome, Counters
    <3>. HIDE DEF r
    <3>2. ts_counters'[c] = ts_counters[c]
      BY <2>4, <3>1, <2>1 DEF Classify, r
    <3>. QED BY <2>4, <3>2 DEF Classify
  <2>5. CASE SetPriority(d)
    <3>1. ts_counters'[c] = ts_counters[c]
      BY <2>5, <2>1 DEF SetPriority, Outcome, Counters
    <3>. QED BY <2>5, <3>1 DEF SetPriority
  <2>6. CASE CsumReplace(d)
    BY <2>6 DEF CsumReplace
  <2>7. CASE StoreTos(d)
    BY <2>7 DEF StoreTos
  <2>8. CASE CountMarked(d)
    <3>1. ts_counters'[c] = ts_counters[c]
      BY <2>8, <2>1 DEF CountMarked, Counters
    <3>. QED BY <2>8, <3>1 DEF CountMarked
  <2>9. CASE Return(d)
    BY <2>9 DEF Return
  <2>. QED BY <2>2, <2>3, <2>4, <2>5, <2>6, <2>7, <2>8, <2>9 DEF Program, Running
<1>5. CASE UNCHANGED vars
  BY <1>5 DEF vars, cpuVars, history, CpuSame
<1>. QED BY <1>1, <1>2, <1>3, <1>4, <1>5 DEF Next

-----------------------------------------------------------------------------
(* The header checksum *)

Untouched(c) == skb[c].tos = pkt[c].tos /\ skb[c].check = pkt[c].check

WantedTos(c) == NewTos(cfg[c], pkt[c].tos)

\* The checksum is the updated one, of a header that is to get another TOS.
Rewritten(c) ==
    /\ pkt[c].version = 4
    /\ WantedTos(c) # pkt[c].tos
    /\ skb[c].check = CsumReplace2(pkt[c].check, FirstWord(pkt[c], pkt[c].tos),
                                   FirstWord(pkt[c], WantedTos(c)))

\* Where the program is tells what it has done to the header so far.
HeaderInv(c) ==
    /\ pc[c] \in {"idle", "load", "classify", "ts", "csum"} => Untouched(c)
    /\ pc[c] = "ts" => (pr[c].ip_off # 0 => pkt[c].version = 4)
    /\ pc[c] = "csum" => pkt[c].version = 4 /\ WantedTos(c) # pkt[c].tos
    /\ pc[c] = "store" => /\ skb[c].tos = pkt[c].tos /\ ~skb[c].cloned
                          /\ Rewritten(c)
    /\ pc[c] = "marked" => skb[c].tos = WantedTos(c) /\ Rewritten(c)
    /\ pc[c] = "return" =>
         Untouched(c) \/ (skb[c].tos = WantedTos(c) /\ Rewritten(c))

HeaderInvAll == \A c \in Cpus : HeaderInv(c)

\* No header has been touched in the initial state.
LEMMA HeaderInit == Init => HeaderInvAll
  BY DEF Init, HeaderInvAll, HeaderInv, Untouched, SkbOf

\* Every step keeps the header as the place in the program says.
LEMMA HeaderStep == TypeOK /\ HeaderInvAll /\ [Next]_vars => HeaderInvAll'
<1>. SUFFICES ASSUME TypeOK, HeaderInvAll, [Next]_vars, NEW c \in Cpus
              PROVE  HeaderInv(c)'
  BY DEF HeaderInvAll
<1>. USE DEF TypeOK, HeaderInv, Untouched, WantedTos, Rewritten
<1>0. HeaderInv(c)
  BY DEF HeaderInvAll
<1>1. CASE CpuSame(c)
  BY <1>0, <1>1 DEF CpuSame
<1>2. ASSUME NEW p \in Packets, Start(c, p) PROVE HeaderInv(c)'
  BY <1>2 DEF Start, SkbOf
<1>3. ASSUME NEW f \in Fields, LoadField(c, f) PROVE HeaderInv(c)'
  BY <1>0, <1>3 DEF LoadField
<1>4. CASE Classify(c)
  <2>. DEFINE r == classify(pkt[c], cfg[c].flags, ts_udp_ports)
  <2>1. r.ip_off # 0 => pkt[c].version = 4
    BY ClassifyResult
  <2>. HIDE DEF r
  <2>2. pr'[c] = r /\ pc'[c] \in {"ts", "return"} /\ pkt' = pkt /\ skb' = skb
    BY <1>4 DEF Classify, r
  <2>. QED BY <1>0, <1>4, <2>1, <2>2 DEF Classify
<1>5. CASE SetPriority(c)
  <2>1. skb'[c] = WithPriority(skb[c], TsPriority(cfg[c]))
    BY <1>5 DEF SetPriority
  <2>2. TsPriority(cfg[c]) \in Nat
    BY DEF TsPriority, Config, TS_DEFAULT_PRIORITY
  <2>3. skb'[c].tos = skb[c].tos /\ skb'[c].check = skb[c].check
    <3>1. skb[c] \in Skb
      OBVIOUS
    <3>2. PICK s, x : s = skb[c] /\ x = TsPriority(cfg[c])
      OBVIOUS
    <3>3. WithPriority(s, x).tos = s.tos /\ WithPriority(s, x).check = s.check
      BY <2>2, <3>1, <3>2, PriorityWrite, Zenon
    <3>. QED BY <2>1, <3>2, <3>3, Zenon
  <2>4. /\ pkt' = pkt /\ cfg' = cfg /\ pr' = pr /\ pc[c] = "ts"
        /\ pc'[c] \in {"csum", "return"} /\ (pc'[c] = "csum" => WantsMark(c))
    BY <1>5 DEF SetPriority
  <2>. QED BY <1>0, <2>3, <2>4 DEF WantsMark
<1>6. CASE CsumReplace(c)
  <2>. DEFINE new == CsumReplace2(skb[c].check, FirstWord(pkt[c], skb[c].tos),
                       FirstWord(pkt[c], NewTos(cfg[c], skb[c].tos)))
  <2>1. new \in Word
    BY FirstWordWord, NewTosByte, CsumAddWord, CsumNotWord DEF Skb, CsumReplace2
  <2>2. PICK ok \in BOOLEAN :
          /\ pc'[c] = AfterCsum(ok)
          /\ skb'[c] = IF ok THEN WithCheck(skb[c], new) ELSE skb[c]
    BY <1>6 DEF CsumReplace, WriteOutcomes
  <2>3. pkt' = pkt /\ cfg' = cfg /\ pr' = pr
    BY <1>6 DEF CsumReplace
  <2>4. /\ Untouched(c) /\ pkt[c].version = 4 /\ WantedTos(c) # pkt[c].tos
    BY <1>0, <1>6 DEF CsumReplace
  <2>5. WithCheck(skb[c], new).tos = skb[c].tos /\ WithCheck(skb[c], new).check = new
        /\ ~WithCheck(skb[c], new).cloned
    BY <2>1, CheckWrite
  <2>6. new = CsumReplace2(pkt[c].check, FirstWord(pkt[c], pkt[c].tos),
                           FirstWord(pkt[c], WantedTos(c)))
    BY <2>4
  <2>. HIDE DEF new
  <2>. QED BY <2>2, <2>3, <2>4, <2>5, <2>6 DEF AfterCsum
<1>7. CASE StoreTos(c)
  <2>1. NewTos(cfg[c], skb[c].tos) \in Byte
    BY NewTosByte DEF Skb
  <2>2. ~skb[c].cloned /\ skb[c].tos = pkt[c].tos /\ Rewritten(c)
    BY <1>0, <1>7 DEF StoreTos
  <2>3. /\ pc'[c] = "marked" /\ pkt' = pkt /\ cfg' = cfg /\ pr' = pr
        /\ skb'[c] = WithTos(skb[c], NewTos(cfg[c], skb[c].tos))
    BY <1>7, <2>2 DEF StoreTos, WriteOutcomes
  <2>4. skb'[c].tos = NewTos(cfg[c], skb[c].tos) /\ skb'[c].check = skb[c].check
    BY <2>1, <2>3, TosWrite
  <2>. QED BY <2>2, <2>3, <2>4
<1>8. CASE CountMarked(c)
  BY <1>0, <1>8 DEF CountMarked
<1>9. CASE Return(c)
  BY <1>9 DEF Return, SkbOf
<1>. QED BY <1>1, <1>2, <1>3, <1>4, <1>5, <1>6, <1>7, <1>8, <1>9, Locality
         DEF Program, Running

\* Except between the two helpers, the header is as good as it came.
LEMMA HeaderImplies == TypeOK /\ HeaderInvAll => ChecksumPreserved
<1>. SUFFICES ASSUME TypeOK, HeaderInvAll, NEW c \in Cpus, pc[c] # "store"
     PROVE  CsumOk(FirstWord(pkt[c], skb[c].tos), pkt[c].rest, skb[c].check)
            <=> CsumOk(FirstWord(pkt[c], pkt[c].tos), pkt[c].rest, pkt[c].check)
  BY DEF ChecksumPreserved
<1>1. Untouched(c) \/ (skb[c].tos = WantedTos(c) /\ Rewritten(c))
  BY DEF HeaderInvAll, HeaderInv, TypeOK, PcValues
<1>2. CASE Untouched(c)
  BY <1>2 DEF Untouched
<1>3. CASE skb[c].tos = WantedTos(c) /\ Rewritten(c)
  <2>1. /\ pkt[c] \in Packet /\ pkt[c].tos \in Byte /\ pkt[c].rest \in Word
        /\ pkt[c].check \in Word /\ cfg[c] \in Config /\ skb[c].tos \in Byte
    BY DEF TypeOK, Packet, Skb
  <2>2. /\ FirstWord(pkt[c], pkt[c].tos) \in Word
        /\ FirstWord(pkt[c], pkt[c].tos) > 0
        /\ FirstWord(pkt[c], skb[c].tos) \in Word
        /\ FirstWord(pkt[c], skb[c].tos) > 0
    BY <1>3, <2>1, FirstWordWord DEF Rewritten
  <2>. DEFINE old == FirstWord(pkt[c], pkt[c].tos)
             new == FirstWord(pkt[c], skb[c].tos)
  <2>3. skb[c].check = CsumReplace2(pkt[c].check, old, new)
    BY <1>3 DEF Rewritten
  <2>. HIDE DEF old, new
  <2>4. CsumOk(new, pkt[c].rest, CsumReplace2(pkt[c].check, old, new))
        <=> CsumOk(old, pkt[c].rest, pkt[c].check)
    BY <2>1, <2>2, CsumReplaceKeeps DEF old, new
  <2>. QED BY <2>3, <2>4 DEF old, new
<1>. QED BY <1>1, <1>2, <1>3

\* mark_dscp() never damages a good IPv4 header checksum and never hides a bad
\* one, on any frame, under any configuration and any failure of its helpers.
THEOREM ChecksumSafe == Spec => []ChecksumPreserved
<1>. QED BY TypeInit, TypeStep, HeaderInit, HeaderStep, HeaderImplies, PTL DEF Spec

-----------------------------------------------------------------------------
(* The counters *)

Total(c) == ts_counters[c]["NORMAL"] + ts_counters[c]["TS_AVTP"]
              + ts_counters[c]["TS_PCP"] + ts_counters[c]["TS_UDP"]
              + ts_counters[c]["PARSE_SHORT"]
Markable(c) == ts_counters[c]["TS_PCP"] + ts_counters[c]["TS_UDP"]
Marked(c)   == ts_counters[c]["DSCP_MARKED"]

CountInv(c) ==
    /\ pc[c] = "ts" => /\ pr[c].reason \in TsReasons
                       /\ pr[c].ip_off # 0 => pr[c].reason \in {"TS_PCP", "TS_UDP"}
    /\ Total(c) = sent[c] + (IF pc[c] \in CountedPcs THEN 1 ELSE 0)
    /\ Marked(c) = changed[c] +
         (IF pc[c] = "return" /\ skb[c].tos # pkt[c].tos THEN 1 ELSE 0)
    /\ Marked(c) <= Markable(c)
    /\ pc[c] \in {"csum", "store", "marked"} => Marked(c) < Markable(c)

CountInvAll == \A c \in Cpus : CountInv(c)

\* The counters and their sums are numbers.
LEMMA CountTypes ==
    ASSUME TypeOK, NEW c \in Cpus
    PROVE  /\ \A k \in Counters : ts_counters[c][k] \in Nat
           /\ Total(c) \in Nat /\ Markable(c) \in Nat /\ Marked(c) \in Nat
  BY DEF TypeOK, Total, Markable, Marked, Counters, Reasons

\* What one call of count() does to the sums.
LEMMA SumStep ==
    ASSUME TypeOK, NEW c \in Cpus, NEW k \in Counters, count(c, k)
    PROVE  /\ Markable(c)' \in Nat
           /\ k \in Reasons => /\ Total(c)' = Total(c) + 1
                               /\ Marked(c)' = Marked(c)
                               /\ Markable(c)' >= Markable(c)
           /\ k \in {"TS_PCP", "TS_UDP"} => Markable(c)' = Markable(c) + 1
           /\ k = "DSCP_MARKED" => /\ Total(c)' = Total(c)
                                   /\ Marked(c)' = Marked(c) + 1
                                   /\ Markable(c)' = Markable(c)
<1>1. /\ ts_counters'[c][k] = ts_counters[c][k] + 1
      /\ \A l \in Counters \ {k} : ts_counters'[c][l] = ts_counters[c][l]
  BY CountStep DEF TypeOK
<1>2. \A l \in Counters : ts_counters[c][l] \in Nat
  BY CountTypes
<1>. DEFINE n(l) == ts_counters[c][l]
           m(l) == ts_counters'[c][l]
<1>3. /\ n("NORMAL") \in Nat /\ n("TS_AVTP") \in Nat /\ n("TS_PCP") \in Nat
      /\ n("TS_UDP") \in Nat /\ n("PARSE_SHORT") \in Nat /\ n("DSCP_MARKED") \in Nat
  BY <1>2 DEF Counters, Reasons
<1>4. /\ m("NORMAL") = IF k = "NORMAL" THEN n("NORMAL") + 1 ELSE n("NORMAL")
      /\ m("TS_AVTP") = IF k = "TS_AVTP" THEN n("TS_AVTP") + 1 ELSE n("TS_AVTP")
      /\ m("TS_PCP") = IF k = "TS_PCP" THEN n("TS_PCP") + 1 ELSE n("TS_PCP")
      /\ m("TS_UDP") = IF k = "TS_UDP" THEN n("TS_UDP") + 1 ELSE n("TS_UDP")
      /\ m("PARSE_SHORT") = IF k = "PARSE_SHORT" THEN n("PARSE_SHORT") + 1
                            ELSE n("PARSE_SHORT")
      /\ m("DSCP_MARKED") = IF k = "DSCP_MARKED" THEN n("DSCP_MARKED") + 1
                            ELSE n("DSCP_MARKED")
  BY <1>1 DEF Counters, Reasons
<1>5. /\ Total(c) = n("NORMAL") + n("TS_AVTP") + n("TS_PCP") + n("TS_UDP") + n("PARSE_SHORT")
      /\ Total(c)' = m("NORMAL") + m("TS_AVTP") + m("TS_PCP") + m("TS_UDP") + m("PARSE_SHORT")
      /\ Marked(c) = n("DSCP_MARKED") /\ Marked(c)' = m("DSCP_MARKED")
      /\ Markable(c) = n("TS_PCP") + n("TS_UDP")
      /\ Markable(c)' = m("TS_PCP") + m("TS_UDP")
  BY DEF Total, Marked, Markable
<1>. HIDE DEF n, m
<1>. QED BY <1>3, <1>4, <1>5 DEF Counters, Reasons

\* The initial counts are those of no frame.
LEMMA CountInit == Init => CountInvAll
  BY DEF Init, CountInvAll, CountInv, Total, Marked, Markable, Counters, Reasons,
         CountedPcs

\* Every step keeps the counters of a CPU equal to what it handled and changed.
LEMMA CountStepInv ==
    TypeOK /\ HeaderInvAll /\ CountInvAll /\ [Next]_vars => CountInvAll'
<1>. SUFFICES ASSUME TypeOK, HeaderInvAll, CountInvAll, [Next]_vars, NEW c \in Cpus
              PROVE  CountInv(c)'
  BY DEF CountInvAll
<1>0. /\ CountInv(c) /\ HeaderInv(c) /\ sent[c] \in Nat /\ changed[c] \in Nat
      /\ Total(c) \in Nat /\ Markable(c) \in Nat /\ Marked(c) \in Nat
  BY CountTypes DEF CountInvAll, HeaderInvAll, TypeOK
<1>same. ASSUME ts_counters'[c] = ts_counters[c]
         PROVE  /\ Total(c)' = Total(c) /\ Markable(c)' = Markable(c)
                /\ Marked(c)' = Marked(c)
  BY <1>same DEF Total, Markable, Marked
<1>1. CASE CpuSame(c)
  BY <1>0, <1>1, <1>same DEF CpuSame, CountInv
<1>2. ASSUME NEW p \in Packets, Start(c, p) PROVE CountInv(c)'
  BY <1>0, <1>2, <1>same DEF Start, CountInv, CountedPcs, TypeOK
<1>3. ASSUME NEW f \in Fields, LoadField(c, f) PROVE CountInv(c)'
  BY <1>0, <1>3, <1>same DEF LoadField, history, CountInv, CountedPcs, TypeOK
<1>4. CASE Classify(c)
  <2>. DEFINE r == classify(pkt[c], cfg[c].flags, ts_udp_ports)
  <2>1. /\ r.ts => r.reason \in TsReasons
        /\ ~r.ts => r.reason \in Reasons
        /\ r.ts /\ r.ip_off # 0 => r.reason \in {"TS_PCP", "TS_UDP"}
    BY ClassifyResult DEF TypeOK, Outcome
  <2>. HIDE DEF r
  <2>2. /\ pr'[c] = r /\ sent' = sent /\ changed' = changed
        /\ skb' = skb /\ pkt' = pkt /\ pc[c] = "classify"
        /\ skb[c].tos = pkt[c].tos
    BY <1>0, <1>4 DEF Classify, history, TypeOK, r, HeaderInv, Untouched
  <2>3. CASE r.ts
    <3>1. pc'[c] = "ts" /\ ts_counters' = ts_counters
      BY <1>4, <2>3 DEF Classify, r, TypeOK
    <3>. QED BY <1>0, <2>1, <2>2, <2>3, <3>1, <1>same DEF CountInv, CountedPcs
  <2>4. CASE ~r.ts
    <3>1. pc'[c] = "return" /\ count(c, r.reason)
      BY <1>4, <2>4 DEF Classify, r, TypeOK
    <3>2. /\ Total(c)' = Total(c) + 1 /\ Marked(c)' = Marked(c)
          /\ Markable(c)' >= Markable(c) /\ Markable(c)' \in Nat
      BY <2>1, <2>4, <3>1, SumStep DEF Counters
    <3>. QED BY <1>0, <2>2, <3>1, <3>2 DEF CountInv, CountedPcs
  <2>. QED BY <2>3, <2>4
<1>5. CASE SetPriority(c)
  <2>1. /\ pc[c] = "ts" /\ count(c, pr[c].reason) /\ sent' = sent
        /\ changed' = changed /\ pr' = pr /\ pkt' = pkt
        /\ pc'[c] = IF WantsMark(c) THEN "csum" ELSE "return"
        /\ skb'[c] = WithPriority(skb[c], TsPriority(cfg[c]))
    BY <1>5 DEF SetPriority, history, TypeOK
  <2>2. pr[c].reason \in Reasons /\ pr[c].reason \in Counters
    BY <1>0, <2>1 DEF CountInv, TsReasons, Reasons, Counters
  <2>3. /\ Total(c)' = Total(c) + 1 /\ Marked(c)' = Marked(c)
        /\ Markable(c)' >= Markable(c)
        /\ pr[c].reason \in {"TS_PCP", "TS_UDP"} => Markable(c)' = Markable(c) + 1
        /\ Markable(c)' \in Nat
    BY <2>1, <2>2, SumStep
  <2>5. TsPriority(cfg[c]) \in Nat
    BY DEF TsPriority, Config, TS_DEFAULT_PRIORITY, TypeOK
  <2>6. skb'[c].tos = pkt'[c].tos
    <3>1. skb[c] \in Skb /\ skb[c].tos = pkt[c].tos
      BY <1>0, <2>1 DEF HeaderInv, Untouched, TypeOK
    <3>2. WithPriority(skb[c], TsPriority(cfg[c])).tos = skb[c].tos
      BY <2>5, <3>1, PriorityWrite
    <3>. QED BY <2>1, <3>1, <3>2
  <2>7. pc'[c] = "csum" => pr[c].reason \in {"TS_PCP", "TS_UDP"}
    BY <1>0, <2>1 DEF WantsMark, CountInv
  <2>. QED BY <1>0, <2>1, <2>3, <2>6, <2>7 DEF CountInv, CountedPcs
<1>6. CASE CsumReplace(c)
  <2>1. /\ pc[c] = "csum" /\ pc'[c] \in {"store", "return"} /\ pkt' = pkt
        /\ sent' = sent /\ changed' = changed /\ ts_counters' = ts_counters
        /\ pc'[c] = "return" => skb'[c] = skb[c]
    BY <1>6 DEF CsumReplace, AfterCsum, history, TypeOK
  <2>2. skb[c].tos = pkt[c].tos
    BY <1>0, <2>1 DEF HeaderInv, Untouched
  <2>. QED BY <1>0, <2>1, <2>2, <1>same DEF CountInv, CountedPcs
<1>7. CASE StoreTos(c)
  <2>1. /\ pc[c] = "store" /\ pc'[c] = "marked" /\ pkt' = pkt
        /\ sent' = sent /\ changed' = changed /\ ts_counters' = ts_counters
    BY <1>0, <1>7 DEF StoreTos, history, TypeOK, HeaderInv, WriteOutcomes
  <2>. QED BY <1>0, <2>1, <1>same DEF CountInv, CountedPcs
<1>8. CASE CountMarked(c)
  <2>1. /\ pc[c] = "marked" /\ pc'[c] = "return" /\ pkt' = pkt /\ skb' = skb
        /\ sent' = sent /\ changed' = changed /\ count(c, "DSCP_MARKED")
    BY <1>8 DEF CountMarked, history, TypeOK
  <2>2. skb[c].tos # pkt[c].tos
    BY <1>0, <2>1 DEF HeaderInv, Rewritten, WantedTos
  <2>3. /\ Total(c)' = Total(c) /\ Marked(c)' = Marked(c) + 1
        /\ Markable(c)' = Markable(c)
    BY <2>1, SumStep DEF Counters
  <2>. QED BY <1>0, <2>1, <2>2, <2>3 DEF CountInv, CountedPcs
<1>9. CASE Return(c)
  <2>1. /\ pc[c] = "return" /\ pc'[c] = "idle" /\ ts_counters' = ts_counters
        /\ sent'[c] = sent[c] + 1
        /\ changed'[c] = IF skb[c].tos # pkt[c].tos THEN changed[c] + 1 ELSE changed[c]
    BY <1>9 DEF Return, TypeOK
  <2>. QED BY <1>0, <2>1, <1>same DEF CountInv, CountedPcs
<1>. QED BY <1>1, <1>2, <1>3, <1>4, <1>5, <1>6, <1>7, <1>8, <1>9, Locality
         DEF Program, Running

\* On every CPU each frame is counted under exactly one reason.
THEOREM FramesCountedSafe == Spec => []FramesCounted
<1>1. CountInvAll => FramesCounted
  BY DEF CountInvAll, CountInv, FramesCounted, Total
<1>. QED BY <1>1, TypeInit, TypeStep, HeaderInit, HeaderStep, CountInit,
            CountStepInv, PTL DEF Spec

\* DSCP_MARKED counts exactly the frames whose TOS byte changed.
THEOREM MarksCountedSafe == Spec => []MarksCounted
<1>1. CountInvAll => MarksCounted
  BY DEF CountInvAll, CountInv, MarksCounted, Marked, Markable
<1>. QED BY <1>1, TypeInit, TypeStep, HeaderInit, HeaderStep, CountInit,
            CountStepInv, PTL DEF Spec

-----------------------------------------------------------------------------
(* Fragments *)

Fragment(p) == p.frag # "no" /\ WholeIpv4(p)
PcpTs(p) == OuterPcp(p) >= TS_VLAN_PCP_MIN

\* The class of a fragment depends on nothing but its outer tag.
LEMMA FragmentClass ==
    ASSUME NEW p \in Packet, NEW flags, NEW ports, Fragment(p)
    PROVE  classify(p, flags, ports).ts = PcpTs(p)
<1>1. L3Off(p) \in Nat /\ p.len \in Nat
  BY DEF L3Off, Unwrapped, Packet
<1>2. Proto(p) = "IP" /\ p.len >= L3Off(p) + 20 /\ SkipsIp(p)
  BY DEF Fragment, WholeIpv4, SkipsIp
<1>3. ~(p.len < L3Off(p)) /\ ~(p.len < L3Off(p) + 20)
  BY <1>1, <1>2
<1>4. classify(p, flags, ports) = ClassifyIp(p, flags, ports, PcpTs(p))
  BY <1>2, <1>3 DEF classify, PcpTs
<1>5. ClassifyIp(p, flags, ports, PcpTs(p)) = Done(PcpTs(p), 0)
  BY <1>2, <1>3 DEF ClassifyIp
<1>6. CASE PcpTs(p)
  BY <1>4, <1>5, <1>6 DEF Done, Result
<1>7. CASE ~PcpTs(p)
  <2>1. classify(p, flags, ports).ts = FALSE
    BY <1>4, <1>5, <1>7 DEF Done, Result
  <2>2. PcpTs(p) = FALSE
    BY <1>7 DEF PcpTs
  <2>. QED BY <2>1, <2>2
<1>. QED BY <1>6, <1>7

Classified == {"ts", "csum", "store", "marked", "return"}

FragInv ==
    /\ \A e \in log : Fragment(e.pkt) => e.ts = PcpTs(e.pkt)
    /\ \A c \in Cpus : pc[c] \in Classified =>
         (Fragment(pkt[c]) => pr[c].ts = PcpTs(pkt[c]))

\* Every step keeps the class of a fragment a function of its tags.
LEMMA FragStep == TypeOK /\ FragInv /\ [Next]_vars => FragInv'
<1>. SUFFICES ASSUME TypeOK, FragInv, [Next]_vars PROVE FragInv'
  OBVIOUS
<1>1. ASSUME NEW c \in Cpus, pc'[c] \in Classified, Fragment(pkt'[c])
      PROVE  pr'[c].ts = PcpTs(pkt'[c])
  <2>1. CASE CpuSame(c)
    BY <1>1, <2>1 DEF CpuSame, FragInv
  <2>2. CASE Program(c)
    <3>1. ASSUME NEW p \in Packets, Start(c, p) PROVE FALSE
      BY <1>1, <3>1 DEF Start, TypeOK, Classified
    <3>2. ASSUME NEW f \in Fields, LoadField(c, f) PROVE FALSE
      BY <1>1, <3>2 DEF LoadField, TypeOK, Classified
    <3>3. CASE Classify(c)
      <4>1. /\ pkt' = pkt /\ pkt[c] \in Packet
            /\ pr'[c] = classify(pkt[c], cfg[c].flags, ts_udp_ports)
        BY <3>3 DEF Classify, TypeOK
      <4>. QED BY <1>1, <4>1, FragmentClass
    <3>4. CASE Return(c)
      BY <1>1, <3>4 DEF Return, TypeOK, Classified
    <3>5. CASE SetPriority(c) \/ CsumReplace(c) \/ StoreTos(c) \/ CountMarked(c)
      <4>1. pc[c] \in Classified /\ pkt' = pkt /\ pr' = pr
        BY <3>5 DEF SetPriority, CsumReplace, StoreTos, CountMarked, Classified
      <4>. QED BY <1>1, <4>1 DEF FragInv
    <3>. QED BY <2>2, <3>1, <3>2, <3>3, <3>4, <3>5 DEF Program, Running
  <2>. QED BY <1>1, <2>1, <2>2, Locality
<1>2. ASSUME NEW e \in log', Fragment(e.pkt) PROVE e.ts = PcpTs(e.pkt)
  <2>1. CASE e \in log
    BY <1>2, <2>1 DEF FragInv
  <2>2. CASE e \notin log
    <3>1. PICK c \in Cpus : Return(c)
      BY <1>2, <2>2 DEF Next, Program, Running, UpdateBegin, UpdateField, AddPort, Start,
         LoadField, Classify, SetPriority, CsumReplace, StoreTos, CountMarked,
         vars, history
    <3>2. e = [pkt |-> pkt[c], ts |-> pr[c].ts] /\ pc[c] = "return"
      BY <1>2, <2>2, <3>1 DEF Return
    <3>. QED BY <1>2, <3>2 DEF FragInv, Classified
  <2>. QED BY <2>1, <2>2
<1>. QED BY <1>1, <1>2 DEF FragInv

\* Fragments of one datagram get one class, whatever ports they carry and
\* whatever the configuration does between them.
THEOREM FragmentsSafe == Spec => []FragmentsTogether
<1>1. Init => FragInv
  BY DEF Init, FragInv, Classified
<1>2. FragInv => FragmentsTogether
  BY DEF FragInv, FragmentsTogether, SameDatagram, Fragment, PcpTs, OuterPcp
<1>. QED BY <1>1, <1>2, FragStep, TypeInit, TypeStep, PTL DEF Spec

-----------------------------------------------------------------------------
(* What the program does to a frame *)

\* The headers that classify() gives an ip_off.
Whole(p) == WholeIpv4(p) /\ p.frag = "no"

\* The parser's order of tests decides as the TS rule does, and ip_off is set
\* for whole, unfragmented IPv4 headers and for no other frame.
LEMMA ClassifyIsRule ==
    ASSUME NEW p \in Packet, NEW flags, NEW ports
    PROVE  /\ classify(p, flags, ports).ts <=> IsTs(p, flags, ports)
           /\ classify(p, flags, ports).ip_off # 0 <=> Whole(p)
<1>1. L3Off(p) \in Nat /\ p.len \in Nat /\ L3Off(p) # 0 /\ p.ihl \in 0 .. 15
  BY DEF L3Off, Unwrapped, Packet
<1>. DEFINE all == (IF p.meta = -1 THEN <<>> ELSE <<p.meta>>) \o p.tags
<1>2. (all # <<>> /\ Head(all) >= 5) <=> PcpTs(p)
  <2>1. p.meta \in -1 .. 7 /\ p.tags \in Seq(0 .. 7)
    BY DEF Packet
  <2>2. CASE p.meta # -1
    <3>1. all = <<p.meta>> \o p.tags
      BY <2>2
    <3>2. <<p.meta>> \o p.tags # <<>> /\ Head(<<p.meta>> \o p.tags) = p.meta
      BY <2>1, <2>2
    <3>. QED BY <2>2, <3>1, <3>2 DEF PcpTs, OuterPcp, TS_VLAN_PCP_MIN
  <2>3. CASE p.meta = -1 /\ p.tags = <<>>
    <3>1. all = <<>>
      BY <2>3
    <3>. QED BY <2>3, <3>1 DEF PcpTs, OuterPcp, TS_VLAN_PCP_MIN
  <2>4. CASE p.meta = -1 /\ p.tags # <<>>
    <3>1. all = p.tags /\ Head(p.tags) = p.tags[1]
      BY <2>1, <2>4
    <3>. QED BY <2>4, <3>1 DEF PcpTs, OuterPcp, TS_VLAN_PCP_MIN
  <2>. QED BY <2>2, <2>3, <2>4
<1>. DEFINE qs == ports \cup IF DISABLE_UDP_DEFAULT(flags)
                             THEN {} ELSE {TS_DEFAULT_UDP_PORT}
<1>3. IsTs(p, flags, ports) <=>
        p.len >= L3Off(p) /\ (Proto(p) = "AVTP" \/ PcpTs(p) \/ UdpTo(p, qs))
  BY <1>2, Zenon DEF IsTs
<1>4. p.dport \in qs <=>
        \/ ~DISABLE_UDP_DEFAULT(flags) /\ p.dport = TS_DEFAULT_UDP_PORT
        \/ p.dport \in ports
  OBVIOUS
<1>. HIDE DEF qs, all
<1>5. CASE p.len < L3Off(p)
  <2>1. classify(p, flags, ports) = Result(FALSE, "PARSE_SHORT", 0)
    BY <1>5 DEF classify
  <2>2. ~(p.len >= L3Off(p)) /\ ~(p.len >= L3Off(p) + 20)
    BY <1>1, <1>5
  <2>. QED BY <1>3, <2>1, <2>2 DEF Result, Whole, WholeIpv4
<1>6. CASE ~(p.len < L3Off(p)) /\ Proto(p) = "AVTP"
  <2>1. classify(p, flags, ports) = Result(TRUE, "TS_AVTP", 0)
    BY <1>6 DEF classify
  <2>2. p.len >= L3Off(p)
    BY <1>1, <1>6
  <2>. QED BY <1>3, <1>6, <2>1, <2>2 DEF Result, Whole, WholeIpv4
<1>7. CASE ~(p.len < L3Off(p)) /\ Proto(p) \notin {"AVTP", "IP"}
  <2>1. classify(p, flags, ports) = Done(PcpTs(p), 0)
    BY <1>7 DEF classify, PcpTs
  <2>2. p.len >= L3Off(p)
    BY <1>1, <1>7
  <2>3. IsTs(p, flags, ports) <=> PcpTs(p)
    BY <1>3, <1>7, <2>2 DEF UdpTo, WholeIpv4
  <2>. QED BY <1>7, <2>1, <2>3 DEF Done, Result, Whole, WholeIpv4
<1>8. CASE ~(p.len < L3Off(p)) /\ Proto(p) = "IP"
  <2>1. classify(p, flags, ports) = ClassifyIp(p, flags, ports, PcpTs(p))
    BY <1>8 DEF classify, PcpTs
  <2>2. p.len >= L3Off(p)
    BY <1>1, <1>8
  <2>3. IsTs(p, flags, ports) <=> PcpTs(p) \/ UdpTo(p, qs)
    BY <1>3, <1>8, <2>2
  <2>4. CASE p.len < L3Off(p) + 20
    <3>1. ~(p.len >= L3Off(p) + 20)
      BY <1>1, <2>4
    <3>2. ClassifyIp(p, flags, ports, PcpTs(p)) =
            IF PcpTs(p) THEN Done(PcpTs(p), 0) ELSE Result(FALSE, "PARSE_SHORT", 0)
      BY <2>4 DEF ClassifyIp
    <3>. QED BY <2>1, <2>3, <3>1, <3>2 DEF Done, Result, Whole, WholeIpv4, UdpTo
  <2>5. CASE ~(p.len < L3Off(p) + 20) /\ SkipsIp(p)
    <3>1. ClassifyIp(p, flags, ports, PcpTs(p)) = Done(PcpTs(p), 0)
      BY <2>5 DEF ClassifyIp
    <3>2. ~Whole(p) /\ ~UdpTo(p, qs)
      BY <1>1, <2>5 DEF SkipsIp, Whole, WholeIpv4, UdpTo
    <3>. QED BY <2>1, <2>3, <3>1, <3>2 DEF Done, Result
  <2>6. CASE ~(p.len < L3Off(p) + 20) /\ ~SkipsIp(p)
    <3>1. Whole(p)
      BY <1>1, <1>8, <2>6 DEF SkipsIp, Whole, WholeIpv4
    <3>2. UdpTo(p, qs) <=> /\ p.protocol = "UDP" /\ p.dport \in qs
                           /\ ~(p.len < L3Off(p) + 4 * p.ihl + 8)
      <4>1. (p.len >= L3Off(p) + 4 * p.ihl + 8) <=> ~(p.len < L3Off(p) + 4 * p.ihl + 8)
        BY <1>1
      <4>. QED BY <3>1, <4>1 DEF Whole, UdpTo
    <3>3. CASE UdpTo(p, qs)
      <4>1. ClassifyIp(p, flags, ports, PcpTs(p)) =
              Result(TRUE, IF PcpTs(p) THEN "TS_PCP" ELSE "TS_UDP", L3Off(p))
        BY <1>4, <2>6, <3>2, <3>3 DEF ClassifyIp
      <4>. QED BY <1>1, <2>1, <2>3, <3>1, <3>3, <4>1 DEF Result
    <3>4. CASE ~UdpTo(p, qs)
      <4>1. ClassifyIp(p, flags, ports, PcpTs(p)) = Done(PcpTs(p), L3Off(p))
        BY <1>4, <2>6, <3>2, <3>4 DEF ClassifyIp
      <4>. QED BY <1>1, <2>1, <2>3, <3>1, <3>4, <4>1 DEF Done, Result
    <3>. QED BY <3>3, <3>4
  <2>. QED BY <2>4, <2>5, <2>6
<1>. QED BY <1>5, <1>6, <1>7, <1>8

\* A port that is added can only make frames TS.
LEMMA RuleMonotone ==
    ASSUME NEW p, NEW flags, NEW P, NEW Q, P \subseteq Q, IsTs(p, flags, P)
    PROVE  IsTs(p, flags, Q)
<1>. DEFINE dflt == IF DISABLE_UDP_DEFAULT(flags) THEN {} ELSE {TS_DEFAULT_UDP_PORT}
<1>1. UdpTo(p, P \cup dflt) => UdpTo(p, Q \cup dflt)
  BY DEF UdpTo
<1>. QED BY <1>1, Zenon DEF IsTs

\* The TOS byte mark_dscp() writes has the wanted DSCP and the old ECN bits.
LEMMA NewTosParts ==
    ASSUME NEW cf \in Config, NEW tos \in Byte
    PROVE  /\ NewTos(cf, tos) % 4 = tos % 4
           /\ NewTos(cf, tos) \div 4 = (IF cf.dscp = 0 THEN 46 ELSE cf.dscp) % 64
<1>1. ASSUME NEW a \in 0 .. 63, NEW b \in 0 .. 3
      PROVE  (4 * a + b) % 4 = b /\ (4 * a + b) \div 4 = a
  OBVIOUS
<1>2. TsDscp(cf) \in 0 .. 63 /\ tos % 4 \in 0 .. 3
  BY DEF TsDscp, Config, TS_DEFAULT_DSCP, Byte
<1>3. TsDscp(cf) = (IF cf.dscp = 0 THEN 46 ELSE cf.dscp) % 64
  BY DEF TsDscp, TS_DEFAULT_DSCP
<1>4. /\ (4 * TsDscp(cf) + (tos % 4)) % 4 = tos % 4
      /\ (4 * TsDscp(cf) + (tos % 4)) \div 4 = TsDscp(cf)
  BY <1>1, <1>2
<1>. QED BY <1>3, <1>4 DEF NewTos
\* What the program knows of the maps: the values a field had during the frame
\* include the one it has now and the one that was copied, and ports are only
\* ever added.
CopyInv(c) ==
    pc[c] # "idle" =>
      /\ \A f \in Fields : ts_config[f] \in seen[c][f]
      /\ \A f \in Fields \ toLoad[c] : cfg[c][f] \in seen[c][f]
      /\ ports0[c] \subseteq ts_udp_ports
      /\ pc[c] # "load" => toLoad[c] = {}

\* The class is the rule's for the ports of some moment of the frame: the later
\* ones for a TS frame, the first ones for another.
ClassInv(c) ==
    pc[c] \in Classified =>
      /\ pr[c].ts => IsTs(pkt[c], cfg[c].flags, ts_udp_ports)
      /\ ~pr[c].ts => ~IsTs(pkt[c], cfg[c].flags, ports0[c])
      /\ pr[c].ip_off # 0 <=> Whole(pkt[c])

Marks(c) == pr[c].ts /\ MARK_DSCP(cfg[c].flags) /\ pr[c].ip_off # 0

\* A header is shared only if it was when the frame arrived.
SharedBefore(c) == skb[c].cloned => pkt[c].cloned

\* Where the program is tells what it has written to the frame.
WriteInv(c) ==
    /\ pc[c] \in {"load", "classify", "ts"} =>
         skb[c].priority = pkt[c].priority /\ skb[c].tos = pkt[c].tos /\ SharedBefore(c)
    /\ pc[c] = "ts" => pr[c].ts
    /\ pc[c] \in {"csum", "store", "marked"} =>
         skb[c].priority = TsPriority(cfg[c]) /\ Marks(c)
    /\ pc[c] = "csum" => skb[c].tos = pkt[c].tos /\ SharedBefore(c)
    /\ pc[c] = "store" => skb[c].tos = pkt[c].tos /\ ~skb[c].cloned
    /\ pc[c] = "marked" => skb[c].tos = WantedTos(c)
    /\ pc[c] = "return" =>
         /\ pr[c].ts => skb[c].priority = TsPriority(cfg[c])
         /\ ~pr[c].ts => skb[c].priority = pkt[c].priority
         /\ \/ Marks(c) /\ skb[c].tos = WantedTos(c)
            \/ (~Marks(c) \/ pkt[c].cloned) /\ skb[c].tos = pkt[c].tos

FrameInv == \A c \in Cpus : CopyInv(c) /\ ClassInv(c) /\ WriteInv(c)

\* Taking one field of a configuration from another one.
LEMMA MixField ==
    ASSUME NEW a \in Config, NEW b \in Config, NEW f \in Fields, NEW g \in Fields
    PROVE  Mix(a, b, {f})[g] = IF g = f THEN b[g] ELSE a[g]
<1>1. CASE g = "priority"
  BY <1>1 DEF Mix, Fields
<1>2. CASE g = "dscp"
  BY <1>2 DEF Mix, Fields
<1>3. CASE g = "flags"
  BY <1>3 DEF Mix, Fields
<1>. QED BY <1>1, <1>2, <1>3 DEF Fields

\* What a step of somebody else does to the frame on CPU c: nothing to the
\* frame, and a field that user space writes is noted as seen.
Elsewhere(c) ==
    /\ CpuSame(c)
    /\ toLoad'[c] = toLoad[c] /\ ports0'[c] = ports0[c]
    /\ ts_udp_ports \subseteq ts_udp_ports'
    /\ \A f \in Fields : seen[c][f] \subseteq seen'[c][f]
    /\ pc[c] # "idle" => \A f \in Fields :
         ts_config'[f] = ts_config[f] \/ ts_config'[f] \in seen'[c][f]

\* Every step is one of the program on CPU c or happens elsewhere.
LEMMA OtherSteps ==
    ASSUME TypeOK, [Next]_vars, NEW c \in Cpus
    PROVE  Program(c) \/ Elsewhere(c)
<1>. SUFFICES ASSUME ~Program(c) PROVE Elsewhere(c)
  OBVIOUS
<1>0. CpuSame(c)
  BY Locality
<1>. DEFINE Rest == /\ toLoad'[c] = toLoad[c] /\ ports0'[c] = ports0[c]
                    /\ seen'[c] = seen[c] /\ ts_config' = ts_config
                    /\ ts_udp_ports \subseteq ts_udp_ports'
<1>1. ASSUME NEW v \in Configs, UpdateBegin(v) PROVE Rest
  BY <1>1 DEF UpdateBegin, cpuVars, history
<1>2. ASSUME NEW f \in Fields, UpdateField(f) PROVE Elsewhere(c)
  <2>1. /\ toLoad' = toLoad /\ ports0' = ports0 /\ ts_udp_ports' = ts_udp_ports
        /\ ts_config' = Mix(ts_config, upd.val, {f})
    BY <1>2 DEF UpdateField, cpuVars
  <2>2. ts_config \in Config /\ upd.val \in Config
    BY DEF TypeOK
  <2>3. ASSUME NEW g \in Fields
        PROVE  /\ seen[c][g] \subseteq seen'[c][g]
               /\ pc[c] # "idle" /\ g = f => upd.val[g] \in seen'[c][g]
    BY <1>2 DEF UpdateField
  <2>4. ASSUME NEW g \in Fields
        PROVE  ts_config'[g] = IF g = f THEN upd.val[g] ELSE ts_config[g]
    BY <2>1, <2>2, MixField
  <2>. QED BY <1>0, <2>1, <2>3, <2>4 DEF Elsewhere
<1>3. ASSUME NEW q \in Ports, AddPort(q) PROVE Rest
  BY <1>3 DEF AddPort, cpuVars, history
<1>4. ASSUME NEW d \in Cpus, Program(d) PROVE Rest
  <2>. d # c
    BY <1>4
  <2>. USE DEF TypeOK, mapVars, history
  <2>1. ASSUME NEW p \in Packets, Start(d, p) PROVE Rest
    BY <2>1 DEF Start
  <2>2. ASSUME NEW f \in Fields, LoadField(d, f) PROVE Rest
    BY <2>2 DEF LoadField
  <2>3. CASE Return(d)
    BY <2>3 DEF Return
  <2>4. CASE \/ Classify(d) \/ SetPriority(d) \/ CsumReplace(d) \/ StoreTos(d)
             \/ CountMarked(d)
    BY <2>4 DEF Classify, SetPriority, CsumReplace, StoreTos, CountMarked
  <2>. QED BY <1>4, <2>1, <2>2, <2>3, <2>4 DEF Program, Running
<1>5. ASSUME UNCHANGED vars PROVE Rest
  BY <1>5 DEF vars, mapVars, cpuVars, history
<1>6. Rest => Elsewhere(c)
  BY <1>0 DEF Elsewhere
<1>. QED BY <1>1, <1>2, <1>3, <1>4, <1>5, <1>6 DEF Next

\* Every step keeps the copy of the configuration explained by values that
\* were in the map since the frame came.
LEMMA CopyStep ==
    ASSUME TypeOK, [Next]_vars, NEW c \in Cpus, CopyInv(c)
    PROVE  CopyInv(c)'
<1>. USE DEF CopyInv
<1>1. CASE Elsewhere(c)
  BY <1>1 DEF Elsewhere, CpuSame
<1>2. ASSUME NEW p \in Packets, Start(c, p) PROVE CopyInv(c)'
  <2>1. /\ ts_config' = ts_config /\ ts_udp_ports' = ts_udp_ports
        /\ pc'[c] = "load" /\ toLoad'[c] = Fields /\ ports0'[c] = ts_udp_ports
        /\ seen'[c] = [f \in Fields |-> {ts_config[f]}]
    BY <1>2 DEF Start, mapVars, TypeOK
  <2>. QED BY <2>1
<1>3. ASSUME NEW f \in Fields, LoadField(c, f) PROVE CopyInv(c)'
  <2>1. /\ ts_config' = ts_config /\ ts_udp_ports' = ts_udp_ports /\ pc[c] = "load"
        /\ pc'[c] = (IF toLoad[c] = {f} THEN "classify" ELSE "load")
        /\ toLoad'[c] = toLoad[c] \ {f} /\ ports0' = ports0 /\ seen' = seen
        /\ cfg'[c] = Mix(cfg[c], ts_config, {f})
        /\ cfg[c] \in Config /\ ts_config \in Config
    BY <1>3 DEF LoadField, mapVars, history, TypeOK
  <2>2. ASSUME NEW g \in Fields \ toLoad'[c] PROVE cfg'[c][g] \in seen'[c][g]
    <3>1. cfg'[c][g] = IF g = f THEN ts_config[g] ELSE cfg[c][g]
      BY <2>1, MixField
    <3>. QED BY <2>1, <3>1
  <2>. QED BY <2>1, <2>2
<1>4. CASE \/ Classify(c) \/ SetPriority(c) \/ CsumReplace(c) \/ StoreTos(c)
           \/ CountMarked(c)
  <2>1. /\ ts_config' = ts_config /\ ts_udp_ports' = ts_udp_ports
        /\ cfg' = cfg /\ toLoad' = toLoad /\ ports0' = ports0 /\ seen' = seen
    BY <1>4 DEF Classify, SetPriority, CsumReplace, StoreTos, CountMarked, mapVars,
       history
  <2>2. pc[c] # "idle" /\ pc[c] # "load"
    BY <1>4 DEF Classify, SetPriority, CsumReplace, StoreTos, CountMarked
  <2>. QED BY <2>1, <2>2
<1>5. CASE Return(c)
  BY <1>5 DEF Return, TypeOK
<1>. QED BY <1>1, <1>2, <1>3, <1>4, <1>5, OtherSteps DEF Program, Running

\* Every step keeps the class explained by the rule.
LEMMA ClassStep ==
    ASSUME TypeOK, [Next]_vars, NEW c \in Cpus, CopyInv(c), ClassInv(c)
    PROVE  ClassInv(c)'
<1>1. CASE Elsewhere(c)
  <2>1. /\ pc'[c] = pc[c] /\ pkt'[c] = pkt[c] /\ cfg'[c] = cfg[c] /\ pr'[c] = pr[c]
        /\ ports0'[c] = ports0[c] /\ ts_udp_ports \subseteq ts_udp_ports'
    BY <1>1 DEF Elsewhere, CpuSame
  <2>2. IsTs(pkt[c], cfg[c].flags, ts_udp_ports)
          => IsTs(pkt[c], cfg[c].flags, ts_udp_ports')
    BY <2>1, RuleMonotone
  <2>. QED BY <2>1, <2>2, Zenon DEF ClassInv
<1>2. ASSUME NEW p \in Packets, Start(c, p) PROVE ClassInv(c)'
  BY <1>2 DEF Start, TypeOK, ClassInv, Classified
<1>3. ASSUME NEW f \in Fields, LoadField(c, f) PROVE ClassInv(c)'
  <2>1. pc'[c] \in {"classify", "load"}
    BY <1>3 DEF LoadField, TypeOK
  <2>. QED BY <2>1 DEF ClassInv, Classified
<1>4. CASE Classify(c)
  <2>. DEFINE r == classify(pkt[c], cfg[c].flags, ts_udp_ports)
  <2>1. /\ pr'[c] = r /\ pkt' = pkt /\ cfg' = cfg /\ ts_udp_ports' = ts_udp_ports
        /\ ports0' = ports0 /\ pc[c] = "classify" /\ pkt[c] \in Packet
    BY <1>4 DEF Classify, TypeOK, mapVars, history
  <2>2. /\ r.ts <=> IsTs(pkt[c], cfg[c].flags, ts_udp_ports)
        /\ r.ip_off # 0 <=> Whole(pkt[c])
    BY <2>1, ClassifyIsRule
  <2>3. ports0[c] \subseteq ts_udp_ports
    BY <2>1 DEF CopyInv
  <2>4. IsTs(pkt[c], cfg[c].flags, ports0[c]) => IsTs(pkt[c], cfg[c].flags, ts_udp_ports)
    BY <2>3, RuleMonotone
  <2>. HIDE DEF r
  <2>. QED BY <2>1, <2>2, <2>4, Zenon DEF ClassInv
<1>5. CASE SetPriority(c) \/ CsumReplace(c) \/ StoreTos(c) \/ CountMarked(c)
  <2>1. /\ pr' = pr /\ pkt' = pkt /\ cfg' = cfg /\ ts_udp_ports' = ts_udp_ports
        /\ ports0' = ports0 /\ pc[c] \in Classified
    BY <1>5 DEF SetPriority, CsumReplace, StoreTos, CountMarked, mapVars, history,
       Classified
  <2>. QED BY <2>1, Zenon DEF ClassInv
<1>6. CASE Return(c)
  BY <1>6 DEF Return, TypeOK, ClassInv, Classified
<1>. QED BY <1>1, <1>2, <1>3, <1>4, <1>5, <1>6, OtherSteps DEF Program, Running

\* Every step keeps what was written to the frame as the place in the program
\* says.
LEMMA WriteStep ==
    ASSUME TypeOK, [Next]_vars, NEW c \in Cpus, WriteInv(c)
    PROVE  WriteInv(c)'
<1>. USE DEF WriteInv, Marks, SharedBefore, WantedTos
<1>0. skb[c] \in Skb /\ cfg[c] \in Config /\ pkt[c] \in Packet
  BY DEF TypeOK
<1>1. CASE Elsewhere(c)
  BY <1>1 DEF Elsewhere, CpuSame
<1>2. ASSUME NEW p \in Packets, Start(c, p) PROVE WriteInv(c)'
  BY <1>2 DEF Start, TypeOK, SkbOf
<1>3. ASSUME NEW f \in Fields, LoadField(c, f) PROVE WriteInv(c)'
  <2>1. /\ pc'[c] \in {"classify", "load"} /\ pc[c] = "load"
        /\ skb' = skb /\ pkt' = pkt
    BY <1>3 DEF LoadField, TypeOK
  <2>. QED BY <2>1
<1>4. CASE Classify(c)
  <2>. DEFINE r == classify(pkt[c], cfg[c].flags, ts_udp_ports)
  <2>1. /\ pc[c] = "classify" /\ pr'[c] = r /\ skb' = skb /\ pkt' = pkt /\ cfg' = cfg
        /\ pc'[c] = IF r.ts THEN "ts" ELSE "return"
    <3>. HIDE DEF r
    <3>. QED BY <1>4 DEF Classify, TypeOK, r
  <2>. HIDE DEF r
  <2>2. CASE r.ts
    BY <2>1, <2>2
  <2>3. CASE ~r.ts
    BY <2>1, <2>3
  <2>. QED BY <2>2, <2>3
<1>5. CASE SetPriority(c)
  <2>1. /\ pc[c] = "ts" /\ pr' = pr /\ pkt' = pkt /\ cfg' = cfg
        /\ skb'[c] = WithPriority(skb[c], TsPriority(cfg[c]))
        /\ pc'[c] = IF WantsMark(c) THEN "csum" ELSE "return"
    BY <1>5 DEF SetPriority, TypeOK
  <2>2. TsPriority(cfg[c]) \in Nat
    BY <1>0 DEF TsPriority, Config, TS_DEFAULT_PRIORITY
  <2>3. /\ skb'[c].priority = TsPriority(cfg[c]) /\ skb'[c].tos = skb[c].tos
        /\ skb'[c].cloned = skb[c].cloned
    BY <1>0, <2>1, <2>2, PriorityWrite
  <2>4. CASE WantsMark(c)
    BY <2>1, <2>3, <2>4 DEF WantsMark
  <2>5. CASE ~WantsMark(c)
    <3>1. pc'[c] = "return" /\ pr[c].ts /\ skb[c].tos = pkt[c].tos
      BY <2>1, <2>5
    <3>2. ~Marks(c) \/ skb[c].tos = WantedTos(c)
      BY <2>5, <3>1 DEF WantsMark
    <3>. QED BY <2>1, <2>3, <3>1, <3>2
  <2>. QED BY <2>4, <2>5
<1>6. CASE CsumReplace(c)
  <2>. DEFINE new == CsumReplace2(skb[c].check, FirstWord(pkt[c], skb[c].tos),
                       FirstWord(pkt[c], NewTos(cfg[c], skb[c].tos)))
  <2>1. new \in Word
    BY <1>0, FirstWordWord, NewTosByte, CsumAddWord, CsumNotWord DEF Skb, CsumReplace2
  <2>. HIDE DEF new
  <2>2. pc[c] = "csum" /\ pr' = pr /\ pkt' = pkt /\ cfg' = cfg
    BY <1>6 DEF CsumReplace
  <2>3. \/ pc'[c] = "store" /\ skb'[c] = WithCheck(skb[c], new)
        \/ pc'[c] = "return" /\ skb'[c] = skb[c] /\ skb[c].cloned
    BY <1>6 DEF CsumReplace, AfterCsum, WriteOutcomes, TypeOK, new
  <2>4. CASE pc'[c] = "store" /\ skb'[c] = WithCheck(skb[c], new)
    <3>1. /\ skb'[c].priority = skb[c].priority /\ skb'[c].tos = skb[c].tos
          /\ ~skb'[c].cloned
      BY <1>0, <2>1, <2>4, CheckWrite
    <3>. QED BY <2>2, <2>4, <3>1
  <2>5. CASE pc'[c] = "return" /\ skb'[c] = skb[c] /\ skb[c].cloned
    BY <2>2, <2>5
  <2>. QED BY <2>3, <2>4, <2>5
<1>7. CASE StoreTos(c)
  <2>1. /\ pc[c] = "store" /\ pr' = pr /\ pkt' = pkt /\ cfg' = cfg
        /\ pc'[c] = "marked"
        /\ skb'[c] = WithTos(skb[c], NewTos(cfg[c], skb[c].tos))
    BY <1>7 DEF StoreTos, WriteOutcomes, TypeOK
  <2>2. NewTos(cfg[c], skb[c].tos) \in Byte
    BY <1>0, NewTosByte DEF Skb
  <2>3. skb'[c].priority = skb[c].priority /\ skb'[c].tos = NewTos(cfg[c], skb[c].tos)
    BY <1>0, <2>1, <2>2, TosWrite
  <2>. QED BY <2>1, <2>3
<1>8. CASE CountMarked(c)
  <2>1. /\ pc[c] = "marked" /\ pc'[c] = "return"
        /\ pr' = pr /\ pkt' = pkt /\ cfg' = cfg /\ skb' = skb
    BY <1>8 DEF CountMarked, TypeOK
  <2>. QED BY <2>1
<1>9. CASE Return(c)
  BY <1>9 DEF Return, TypeOK
<1>. QED BY <1>1, <1>2, <1>3, <1>4, <1>5, <1>6, <1>7, <1>8, <1>9, OtherSteps
         DEF Program, Running

\* At the end of the program the frame's fields and the maps explain the frame.
LEMMA FrameExplained == TypeOK /\ FrameInv => OutcomeExplained
<1>. DEFINE
       Explains(c, pri, dscp, flags, qs) ==
         LET p  == pkt[c]
             ts == IsTs(p, flags, qs)
             marks == ts /\ MARK_DSCP(flags) /\ WholeIpv4(p)
         IN  /\ pr[c].ts = ts
             /\ skb[c].priority = IF ~ts THEN p.priority ELSE IF pri = 0 THEN 6 ELSE pri
             /\ skb[c].tos % 4 = p.tos % 4
             /\ \/ marks /\ skb[c].tos \div 4 = (IF dscp = 0 THEN 46 ELSE dscp) % 64
                \/ (~marks \/ p.cloned \/ p.frag # "no") /\ skb[c].tos = p.tos
<1>. SUFFICES ASSUME TypeOK, FrameInv, NEW c \in Cpus, pc[c] = "return"
     PROVE \E pri \in seen[c]["priority"], dscp \in seen[c]["dscp"],
              flags \in seen[c]["flags"], qs \in {ports0[c], ts_udp_ports} :
             Explains(c, pri, dscp, flags, qs)
  BY Zenon DEF OutcomeExplained
<1>. HIDE DEF Explains
<1>. DEFINE ports == IF pr[c].ts THEN ts_udp_ports ELSE ports0[c]
            ts == IsTs(pkt[c], cfg[c].flags, ports)
<1>1. CopyInv(c) /\ ClassInv(c) /\ WriteInv(c)
  BY DEF FrameInv
<1>2. pkt[c] \in Packet /\ cfg[c] \in Config /\ pr[c].ts \in BOOLEAN
  BY DEF TypeOK, Outcome
<1>3. /\ cfg[c].priority \in seen[c]["priority"] /\ cfg[c].dscp \in seen[c]["dscp"]
      /\ cfg[c].flags \in seen[c]["flags"]
  BY <1>1 DEF CopyInv, Fields
<1>4. ports \in {ports0[c], ts_udp_ports}
  OBVIOUS
<1>5. ts <=> pr[c].ts
  <2>1. CASE pr[c].ts
    BY <1>1, <2>1 DEF ClassInv, Classified
  <2>2. CASE ~pr[c].ts
    BY <1>1, <2>2 DEF ClassInv, Classified
  <2>. QED BY <2>1, <2>2
<1>6. pr[c].ip_off # 0 <=> (WholeIpv4(pkt[c]) /\ pkt[c].frag = "no")
  BY <1>1 DEF ClassInv, Classified, Whole
<1>7. /\ ~pr[c].ts => skb[c].priority = pkt[c].priority
      /\ pr[c].ts => skb[c].priority =
                       IF cfg[c].priority = 0 THEN 6 ELSE cfg[c].priority
  BY <1>1 DEF WriteInv, TsPriority, TS_DEFAULT_PRIORITY
<1>8. \/ Marks(c) /\ skb[c].tos = WantedTos(c)
      \/ (~Marks(c) \/ pkt[c].cloned) /\ skb[c].tos = pkt[c].tos
  BY <1>1 DEF WriteInv
<1>9. /\ WantedTos(c) % 4 = pkt[c].tos % 4
      /\ WantedTos(c) \div 4 = (IF cfg[c].dscp = 0 THEN 46 ELSE cfg[c].dscp) % 64
  BY <1>2, NewTosParts DEF WantedTos, Packet
<1>10. ts \in BOOLEAN
  BY DEF IsTs
<1>11. pr[c].ts = ts
  BY <1>2, <1>5, <1>10
<1>. DEFINE marks == ts /\ MARK_DSCP(cfg[c].flags) /\ WholeIpv4(pkt[c])
<1>12. Marks(c) <=> marks /\ pkt[c].frag = "no"
  BY <1>5, <1>6 DEF Marks
<1>. HIDE DEF ts, marks
<1>13. skb[c].priority = IF ~ts THEN pkt[c].priority
                         ELSE IF cfg[c].priority = 0 THEN 6 ELSE cfg[c].priority
  BY <1>5, <1>7
<1>14. skb[c].tos % 4 = pkt[c].tos % 4
  BY <1>8, <1>9
<1>15. \/ /\ marks
          /\ skb[c].tos \div 4 = (IF cfg[c].dscp = 0 THEN 46 ELSE cfg[c].dscp) % 64
       \/ /\ ~marks \/ pkt[c].cloned \/ pkt[c].frag # "no"
          /\ skb[c].tos = pkt[c].tos
  BY <1>8, <1>9, <1>12
<1>. HIDE DEF ports
<1>16. Explains(c, cfg[c].priority, cfg[c].dscp, cfg[c].flags, ports)
  BY <1>11, <1>13, <1>14, <1>15, Zenon DEF ts, marks, Explains
<1>. QED BY <1>3, <1>4, <1>16, Zenon

\* What ts_classifier() does to a frame is what the TS rule and the marking
\* rule say for values the maps held while the frame was in the program.
THEOREM OutcomeExplainedSafe == Spec => []OutcomeExplained
<1>1. Init => FrameInv
  BY DEF Init, FrameInv, CopyInv, ClassInv, WriteInv, Classified
<1>2. TypeOK /\ FrameInv /\ [Next]_vars => FrameInv'
  <2>. SUFFICES ASSUME TypeOK, FrameInv, [Next]_vars, NEW c \in Cpus
                PROVE  CopyInv(c)' /\ ClassInv(c)' /\ WriteInv(c)'
    BY DEF FrameInv
  <2>1. CopyInv(c) /\ ClassInv(c) /\ WriteInv(c)
    BY DEF FrameInv
  <2>. QED BY <2>1, CopyStep, ClassStep, WriteStep
<1>. QED BY <1>1, <1>2, FrameExplained, TypeInit, TypeStep, PTL DEF Spec
=============================================================================
