---------------------------- MODULE TsClassifier ----------------------------
(***************************************************************************)
(* The tc/tcx egress program bpf/src/ts_classifier.c, running on several   *)
(* CPUs at once, each on its own frame, while user space rewrites the      *)
(* ts_config map and adds ports to ts_udp_ports.                           *)
(*                                                                         *)
(* One run of the program is cut where another actor can be seen: at every *)
(* field of `cfg = *p' (a plain struct copy racing with the memcpy of      *)
(* bpftool map update, so the copy may mix two configurations), at the     *)
(* port lookup inside classify(), and between the two helper calls that    *)
(* rewrite the packet.  Egress runs with softirqs off, so a CPU finishes a *)
(* frame before it starts the next one.                                    *)
(***************************************************************************)
EXTENDS Integers, Sequences, FiniteSets, IpChecksum

CONSTANTS
    Cpus,        \* CPUs that transmit
    Packets,     \* the frames offered to the hook
    Configs,     \* values user space writes to ts_config
    Ports,       \* UDP ports user space adds to ts_udp_ports
    MaxPorts,    \* max_entries of ts_udp_ports (64 in the code)
    MaxPkts,     \* bound: frames each CPU transmits
    MaxUpdates   \* bound: updates of ts_config

-----------------------------------------------------------------------------
(* Constants of ts_common.h. *)

TS_DEFAULT_UDP_PORT == 6000
TS_VLAN_PCP_MIN     == 5
TS_DEFAULT_PRIORITY == 6
TS_DEFAULT_DSCP     == 46
MARK_DSCP(flags)           == flags % 2 = 1
DISABLE_UDP_DEFAULT(flags) == (flags \div 2) % 2 = 1

\* struct ts_config without its unused word; 0 means the default.
Fields == {"priority", "dscp", "flags"}
Config == [priority : Nat, dscp : Nat, flags : Nat]

\* Map contents after load: BPF array maps start zeroed.
ZeroConfig == [priority |-> 0, dscp |-> 0, flags |-> 0]

\* Configuration `a' with the fields in S taken from `b'.
Mix(a, b, S) ==
    [priority |-> IF "priority" \in S THEN b.priority ELSE a.priority,
     dscp     |-> IF "dscp"     \in S THEN b.dscp     ELSE a.dscp,
     flags    |-> IF "flags"    \in S THEN b.flags    ELSE a.flags]

\* The reasons a frame is counted under, and the extra DSCP_MARKED.
Reasons  == {"NORMAL", "TS_AVTP", "TS_PCP", "TS_UDP", "PARSE_SHORT"}
TsReasons == {"TS_AVTP", "TS_PCP", "TS_UDP"}
Counters == Reasons \cup {"DSCP_MARKED"}

-----------------------------------------------------------------------------
(* Frames.  meta is the PCP of a tag the driver moved to skb metadata (-1  *)
(* for none), tags the PCPs of the tags left in the packet, outermost      *)
(* first, inner the EtherType after them.  rest is the one's-complement    *)
(* sum of the IPv4 header words other than the first and the checksum.     *)
(* frag: unfragmented, first fragment (MF, offset 0) or a later one.        *)
(* cloned: the header bytes are shared and must be copied before a write.  *)

Packet == [len : Nat, meta : -1 .. 7, tags : Seq(0 .. 7),
           inner : {"AVTP", "IP", "OTHER"},
           version : 0 .. 15, ihl : 0 .. 15, frag : {"no", "first", "later"},
           protocol : {"UDP", "OTHER"}, dport : Nat,
           tos : Byte, rest : Word, check : Word,
           priority : Nat, cloned : BOOLEAN]

ASSUME PacketsAssumption == Packets # {} /\ Packets \subseteq Packet
ASSUME ConfigsAssumption == Configs \subseteq Config
ASSUME PortsAssumption   == Ports \subseteq Nat
ASSUME BoundsAssumption  ==
    MaxPorts \in Nat /\ MaxPkts \in Nat /\ MaxUpdates \in Nat

\* The parser unwraps at most two tags (802.1Q or 802.1ad).
Unwrapped(p) == IF Len(p.tags) > 2 THEN 2 ELSE Len(p.tags)

\* Offset of the L3 header, and the EtherType the parser ends on.
L3Off(p) == 14 + 4 * Unwrapped(p)
Proto(p) == IF Len(p.tags) > 2 THEN "VLAN" ELSE p.inner

\* PCP of the outer tag, metadata first; -1 when there is no tag.
OuterPcp(p) ==
    IF p.meta # -1 THEN p.meta ELSE IF p.tags = <<>> THEN -1 ELSE p.tags[1]

\* The 16-bit word mark_dscp() reads at ip_off, with the given TOS byte.
FirstWord(p, tos) == 16 * p.version + p.ihl + 256 * tos

-----------------------------------------------------------------------------
(* classify() *)

Result(ts, reason, ipOff) == [ts |-> ts, reason |-> reason, ip_off |-> ipOff]

\* The `done' label: TS only if the PCP said so.
Done(pcp, ipOff) ==
    IF pcp THEN Result(TRUE, "TS_PCP", ipOff) ELSE Result(FALSE, "NORMAL", ipOff)

\* Headers whose ip_off and ports are not looked at: not version 4, a length
\* below 20 bytes, any fragment.
SkipsIpOffsetOnly(p) == p.version # 4 \/ p.ihl < 5 \/ p.frag = "later" \* mutant
SkipsIp(p) == p.version # 4 \/ p.ihl < 5 \/ p.frag # "no"

\* The IPv4 branch, pcp telling whether the PCP already made the frame TS.
ClassifyIp(p, flags, ports, pcp) ==
    LET off == L3Off(p)
        udpShort == p.len < off + 4 * p.ihl + 8
        match == \/ ~DISABLE_UDP_DEFAULT(flags) /\ p.dport = TS_DEFAULT_UDP_PORT
                 \/ p.dport \in ports
    IN  IF p.len < off + 20
        THEN IF pcp THEN Done(pcp, 0) ELSE Result(FALSE, "PARSE_SHORT", 0)
        ELSE IF SkipsIp(p) THEN Done(pcp, 0)
        ELSE IF p.protocol # "UDP" \/ udpShort \/ ~match THEN Done(pcp, off)
        ELSE Result(TRUE, IF pcp THEN "TS_PCP" ELSE "TS_UDP", off)

classify(p, flags, ports) ==
    LET pcp == OuterPcp(p) >= TS_VLAN_PCP_MIN
    IN  IF p.len < L3Off(p) THEN Result(FALSE, "PARSE_SHORT", 0)
        ELSE IF Proto(p) = "AVTP" THEN Result(TRUE, "TS_AVTP", 0)
        ELSE IF Proto(p) = "IP" THEN ClassifyIp(p, flags, ports, pcp)
        ELSE Done(pcp, 0)

\* What the configuration makes of a TS frame; (__u8)x & 0x3f is x % 64.
TsPriority(cf) == IF cf.priority # 0 THEN cf.priority ELSE TS_DEFAULT_PRIORITY
\* Mutant: the & 0x3f is missing.
TsDscpUnmasked(cf) == IF cf.dscp # 0 THEN cf.dscp ELSE TS_DEFAULT_DSCP
TsDscp(cf) == (IF cf.dscp # 0 THEN cf.dscp ELSE TS_DEFAULT_DSCP) % 64
NewTos(cf, tos) == 4 * TsDscp(cf) + (tos % 4)

\* Results of a helper that writes packet bytes: it fails only when it has to
\* copy a shared header and the allocation fails (bpf_try_make_writable).
WriteOutcomes(s) == IF s.cloned THEN {TRUE, FALSE} ELSE {TRUE}

-----------------------------------------------------------------------------
VARIABLES
    ts_config,     \* the map value
    upd,           \* bpftool's update in progress: value and fields to write
    nupd,          \* updates started
    ts_udp_ports,  \* keys of the hash map
    ts_counters,   \* per-CPU array
    pc,            \* where each CPU is in the program
    pkt,           \* the frame as it arrived at the hook
    skb,           \* its priority, TOS, checksum and sharing now
    cfg,           \* the program's copy of ts_config
    toLoad,        \* fields of cfg still to copy
    pr,            \* struct parse_result, with classify()'s return value
    \* history, read by properties only
    seen,          \* values each field of ts_config had during this frame
    ports0,        \* ts_udp_ports when the frame started
    sent,          \* frames finished
    changed,       \* finished frames that left with another TOS byte
    log            \* finished frames with their class

mapVars == <<ts_config, upd, nupd, ts_udp_ports>>
cpuVars == <<pc, pkt, skb, cfg, toLoad, pr>>
history == <<seen, ports0, sent, changed, log>>
vars == <<mapVars, ts_counters, cpuVars, history>>

PcValues == {"idle", "load", "classify", "ts", "csum", "store", "marked", "return"}
Skb == [priority : Nat, tos : Byte, check : Word, cloned : BOOLEAN]
Outcome == [ts : BOOLEAN, reason : Reasons, ip_off : Nat]

\* Writes to the frame; the helpers leave it with a private copy of its header.
WithPriority(s, x) == [s EXCEPT !.priority = x]
WithCheck(s, w)    == [s EXCEPT !.check = w, !.cloned = FALSE]
WithTos(s, b)      == [s EXCEPT !.tos = b, !.cloned = FALSE]

NoOutcome == Result(FALSE, "NORMAL", 0)
SkbOf(p) == [priority |-> p.priority, tos |-> p.tos, check |-> p.check,
             cloned |-> p.cloned]

\* The contents of a CPU's locals while it transmits nothing.
AnyPacket == CHOOSE p \in Packets : TRUE
NothingSeen == [f \in Fields |-> {}]

\* The maps hold what user space put there before the filter was attached.
Init ==
    /\ ts_config \in Configs \cup {ZeroConfig}
    /\ upd = [val |-> ZeroConfig, todo |-> {}]
    /\ nupd = 0
    /\ ts_udp_ports \in {P \in SUBSET Ports : Cardinality(P) <= MaxPorts}
    /\ ts_counters = [c \in Cpus |-> [k \in Counters |-> 0]]
    /\ pc = [c \in Cpus |-> "idle"]
    /\ pkt = [c \in Cpus |-> AnyPacket]
    /\ skb = [c \in Cpus |-> SkbOf(AnyPacket)]
    /\ cfg = [c \in Cpus |-> ZeroConfig]
    /\ toLoad = [c \in Cpus |-> {}]
    /\ pr = [c \in Cpus |-> NoOutcome]
    /\ seen = [c \in Cpus |-> NothingSeen]
    /\ ports0 = [c \in Cpus |-> {}]
    /\ sent = [c \in Cpus |-> 0]
    /\ changed = [c \in Cpus |-> 0]
    /\ log = {}

-----------------------------------------------------------------------------
(* User space *)

\* set_ts_config(): bpftool map update starts copying v into the map.
UpdateBegin(v) ==
    /\ upd.todo = {}
    /\ nupd < MaxUpdates
    /\ upd' = [val |-> v, todo |-> Fields]
    /\ nupd' = nupd + 1
    /\ UNCHANGED <<ts_config, ts_udp_ports, ts_counters, cpuVars, history>>

\* The kernel's memcpy stores one field, in no particular order.
UpdateField(f) ==
    /\ f \in upd.todo
    /\ ts_config' = Mix(ts_config, upd.val, {f})
    /\ upd' = [upd EXCEPT !.todo = @ \ {f}]
    /\ seen' = [c \in Cpus |-> [g \in Fields |->
                  IF g = f /\ pc[c] # "idle" THEN seen[c][g] \cup {upd.val[g]}
                                             ELSE seen[c][g]]]
    /\ UNCHANGED <<nupd, ts_udp_ports, ts_counters, cpuVars, ports0, sent,
                   changed, log>>

\* A port is added, unless the hash map is full (the update fails with E2BIG).
AddPort(q) ==
    /\ q \notin ts_udp_ports
    /\ Cardinality(ts_udp_ports) < MaxPorts
    /\ ts_udp_ports' = ts_udp_ports \cup {q}
    /\ UNCHANGED <<ts_config, upd, nupd, ts_counters, cpuVars, history>>

-----------------------------------------------------------------------------
(* ts_classifier() on CPU c *)

\* A frame reaches the hook; cfg = {} and pr = {}.
Start(c, p) ==
    /\ pc[c] = "idle"
    /\ sent[c] < MaxPkts
    /\ pc' = [pc EXCEPT ![c] = "load"]
    /\ pkt' = [pkt EXCEPT ![c] = p]
    /\ skb' = [skb EXCEPT ![c] = SkbOf(p)]
    /\ cfg' = [cfg EXCEPT ![c] = ZeroConfig]
    /\ toLoad' = [toLoad EXCEPT ![c] = Fields]
    /\ pr' = [pr EXCEPT ![c] = NoOutcome]
    /\ seen' = [seen EXCEPT ![c] = [f \in Fields |-> {ts_config[f]}]]
    /\ ports0' = [ports0 EXCEPT ![c] = ts_udp_ports]
    /\ UNCHANGED <<mapVars, ts_counters, sent, changed, log>>

\* One load of cfg = *p.  Key 0 of an array map always exists.
LoadField(c, f) ==
    /\ pc[c] = "load"
    /\ f \in toLoad[c]
    /\ cfg' = [cfg EXCEPT ![c] = Mix(cfg[c], ts_config, {f})]
    /\ toLoad' = [toLoad EXCEPT ![c] = @ \ {f}]
    /\ pc' = [pc EXCEPT ![c] = IF toLoad[c] = {f} THEN "classify" ELSE "load"]
    /\ UNCHANGED <<mapVars, ts_counters, pkt, skb, pr, history>>

\* Mutant: the map has one entry too few, so the lookup of the last index
\* fails and count() silently does nothing.
countSmallMap(c, k) ==
    ts_counters' = IF k = "PARSE_SHORT" THEN ts_counters
                   ELSE [ts_counters EXCEPT ![c][k] = @ + 1]

\* count(): the CPU's own slot, so nobody else writes it.
count(c, k) == ts_counters' = [ts_counters EXCEPT ![c][k] = @ + 1]

\* classify() and, for a frame that is not TS, the rest of the program.
Classify(c) ==
    /\ pc[c] = "classify"
    /\ LET r == classify(pkt[c], cfg[c].flags, ts_udp_ports)
       IN  /\ pr' = [pr EXCEPT ![c] = r]
           /\ IF r.ts
              THEN /\ pc' = [pc EXCEPT ![c] = "ts"]
                   /\ UNCHANGED ts_counters
              ELSE /\ pc' = [pc EXCEPT ![c] = "return"]
                   /\ count(c, r.reason)
    /\ UNCHANGED <<mapVars, pkt, skb, cfg, toLoad, history>>

\* Mutant: no early return for a TOS that is already right.
WantsMarkAlways(c) == MARK_DSCP(cfg[c].flags) /\ pr[c].ip_off # 0

\* Mutant: the flags are read from the map a second time.
WantsMarkRefetch(c) ==
    /\ MARK_DSCP(ts_config.flags)
    /\ pr[c].ip_off # 0
    /\ NewTos(cfg[c], skb[c].tos) # skb[c].tos

\* The program goes on to rewrite the TOS byte.  The two bytes are there:
\* ip_off is only set when the whole IPv4 header is, so the load succeeds.
WantsMark(c) ==
    /\ MARK_DSCP(cfg[c].flags)
    /\ pr[c].ip_off # 0
    /\ NewTos(cfg[c], skb[c].tos) # skb[c].tos

\* A TS frame gets its priority and is counted.
SetPriority(c) ==
    /\ pc[c] = "ts"
    /\ skb' = [skb EXCEPT ![c] = WithPriority(@, TsPriority(cfg[c]))]
    /\ count(c, pr[c].reason)
    /\ pc' = [pc EXCEPT ![c] = IF WantsMark(c) THEN "csum" ELSE "return"]
    /\ UNCHANGED <<mapVars, pkt, cfg, toLoad, pr, history>>

\* mark_dscp() gives up when the checksum helper fails.
AfterCsumUnchecked(ok) == "store"    \* mutant: result of the helper ignored
AfterCsum(ok) == IF ok THEN "store" ELSE "return"

\* bpf_l3_csum_replace() in mark_dscp(); -1 on failure leaves the frame alone.
CsumReplace(c) ==
    /\ pc[c] = "csum"
    /\ \E ok \in WriteOutcomes(skb[c]) :
         /\ pc' = [pc EXCEPT ![c] = AfterCsum(ok)]
         /\ skb' = IF ok
                   THEN [skb EXCEPT ![c] = WithCheck(@, CsumReplace2(@.check,
                               FirstWord(pkt[c], @.tos),
                               FirstWord(pkt[c], NewTos(cfg[c], @.tos))))]
                   ELSE skb
    /\ UNCHANGED <<mapVars, ts_counters, pkt, cfg, toLoad, pr, history>>

\* bpf_skb_store_bytes() of the TOS byte; the checksum is already the new one.
StoreTos(c) ==
    /\ pc[c] = "store"
    /\ \E ok \in WriteOutcomes(skb[c]) :
         /\ pc' = [pc EXCEPT ![c] = IF ok THEN "marked" ELSE "return"]
         /\ skb' = IF ok
                   THEN [skb EXCEPT ![c] = WithTos(@, NewTos(cfg[c], @.tos))]
                   ELSE skb
    /\ UNCHANGED <<mapVars, ts_counters, pkt, cfg, toLoad, pr, history>>

\* mark_dscp() returned 1.
CountMarked(c) ==
    /\ pc[c] = "marked"
    /\ count(c, "DSCP_MARKED")
    /\ pc' = [pc EXCEPT ![c] = "return"]
    /\ UNCHANGED <<mapVars, pkt, skb, cfg, toLoad, pr, history>>

\* TC_ACT_UNSPEC: the frame moves on and the CPU is free.
Return(c) ==
    /\ pc[c] = "return"
    /\ pc' = [pc EXCEPT ![c] = "idle"]
    /\ log' = log \cup {[pkt |-> pkt[c], ts |-> pr[c].ts]}
    /\ sent' = [sent EXCEPT ![c] = @ + 1]
    /\ changed' = [changed EXCEPT ![c] =
                     IF skb[c].tos # pkt[c].tos THEN @ + 1 ELSE @]
    /\ pkt' = [pkt EXCEPT ![c] = AnyPacket]
    /\ skb' = [skb EXCEPT ![c] = SkbOf(AnyPacket)]
    /\ cfg' = [cfg EXCEPT ![c] = ZeroConfig]
    /\ pr' = [pr EXCEPT ![c] = NoOutcome]
    /\ seen' = [seen EXCEPT ![c] = NothingSeen]
    /\ ports0' = [ports0 EXCEPT ![c] = {}]
    /\ UNCHANGED <<mapVars, ts_counters, toLoad>>

Running(c) ==
    \/ \E f \in Fields : LoadField(c, f)
    \/ Classify(c)
    \/ SetPriority(c)
    \/ CsumReplace(c)
    \/ StoreTos(c)
    \/ CountMarked(c)
    \/ Return(c)

Program(c) == (\E p \in Packets : Start(c, p)) \/ Running(c)

Next ==
    \/ \E v \in Configs : UpdateBegin(v)
    \/ \E f \in Fields : UpdateField(f)
    \/ \E q \in Ports : AddPort(q)
    \/ \E c \in Cpus : Program(c)

Spec == Init /\ [][Next]_vars

-----------------------------------------------------------------------------
(* Properties *)

\* Every variable keeps its type; in particular the TOS byte that mark_dscp()
\* computes from a 32-bit configuration word fits a byte, and the updated
\* checksum a 16-bit word.
TypeOK ==
    /\ ts_config \in Config
    /\ upd \in [val : Config, todo : SUBSET Fields]
    /\ nupd \in Nat
    /\ ts_udp_ports \subseteq Ports
    /\ ts_counters \in [Cpus -> [Counters -> Nat]]
    /\ pc \in [Cpus -> PcValues]
    /\ pkt \in [Cpus -> Packet]
    /\ skb \in [Cpus -> Skb]
    /\ cfg \in [Cpus -> Config]
    /\ toLoad \in [Cpus -> SUBSET Fields]
    /\ pr \in [Cpus -> Outcome]
    /\ seen \in [Cpus -> [Fields -> SUBSET Nat]]
    /\ ports0 \in [Cpus -> SUBSET Ports]
    /\ sent \in [Cpus -> Nat]
    /\ changed \in [Cpus -> Nat]
    /\ log \subseteq [pkt : Packet, ts : BOOLEAN]

\* The TS rule as the header comment of ts_classifier.c states it, without the
\* parser's order of tests: a frame whose L2 headers are whole is TS if it is
\* AVTP, if its outer PCP is 5 or more, or if it is an unfragmented IPv4/UDP
\* datagram to port 6000 (unless disabled) or to a configured port.
WholeIpv4(p) ==
    /\ Proto(p) = "IP" /\ p.version = 4 /\ p.ihl >= 5
    /\ p.len >= L3Off(p) + 20

UdpTo(p, qs) ==
    /\ WholeIpv4(p) /\ p.frag = "no" /\ p.protocol = "UDP" /\ p.dport \in qs
    /\ p.len >= L3Off(p) + 4 * p.ihl + 8

IsTs(p, flags, ports) ==
    /\ p.len >= L3Off(p)
    /\ \/ Proto(p) = "AVTP"
       \/ LET all == (IF p.meta = -1 THEN <<>> ELSE <<p.meta>>) \o p.tags
          IN  all # <<>> /\ Head(all) >= 5
       \/ UdpTo(p, ports \cup IF DISABLE_UDP_DEFAULT(flags)
                              THEN {} ELSE {TS_DEFAULT_UDP_PORT})

\* What ts_classifier() does to a frame is what the TS rule, the priority and
\* the DSCP say for field values that ts_config held while the frame was in
\* the program: even when an update tears the copy, no field is stale, made
\* up, or left at the zero of cfg = {}; a frame that is not TS keeps its
\* priority and its TOS, and a marked one its two ECN bits.  Whether a fragment
\* that its PCP made TS is marked is left open here: see MarkedIfIpv4.
OutcomeExplained ==
    \A c \in Cpus : pc[c] = "return" =>
      \E pri \in seen[c]["priority"], dscp \in seen[c]["dscp"],
         flags \in seen[c]["flags"], ports \in {ports0[c], ts_udp_ports} :
        LET p  == pkt[c]
            ts == IsTs(p, flags, ports)
            marks == ts /\ MARK_DSCP(flags) /\ WholeIpv4(p)
        IN  /\ pr[c].ts = ts
            /\ skb[c].priority = IF ~ts THEN p.priority ELSE IF pri = 0 THEN 6 ELSE pri
            /\ skb[c].tos % 4 = p.tos % 4
            /\ \/ marks /\ skb[c].tos \div 4 = (IF dscp = 0 THEN 46 ELSE dscp) % 64
               \/ (~marks \/ p.cloned \/ p.frag # "no") /\ skb[c].tos = p.tos

\* The documented rule without an exception: "if it is IPv4" a TS frame leaves
\* with its DSCP (item 3 of the repository README, and the comment in front of
\* the PCP test of classify()), unless a helper may have failed.
MarkedIfIpv4 ==
    \A c \in Cpus :
        pc[c] = "return" /\ pr[c].ts /\ WholeIpv4(pkt[c]) /\ ~pkt[c].cloned /\ MARK_DSCP(cfg[c].flags)
          => skb[c].tos \div 4 = TsDscp(cfg[c])

\* The incremental update neither damages a good header checksum nor hides a
\* bad one.  It is off only between the two helper calls of mark_dscp(), and
\* no exit of the program, the failing ones included, leaves it there.
ChecksumPreserved ==
    \A c \in Cpus : pc[c] # "store" =>
        (CsumOk(FirstWord(pkt[c], skb[c].tos), pkt[c].rest, skb[c].check)
           <=> CsumOk(FirstWord(pkt[c], pkt[c].tos), pkt[c].rest, pkt[c].check))

\* Two fragments of one IPv4 datagram (same L2 headers) get the same class,
\* whether or not they carry the UDP header and whatever happens to the
\* configuration and the port table between them: the comment at the fragment
\* test of classify().
SameDatagram(p, q) ==
    /\ p.frag # "no" /\ q.frag # "no" /\ WholeIpv4(p) /\ WholeIpv4(q)
    /\ p.meta = q.meta /\ p.tags = q.tags

FragmentsTogether ==
    \A a, b \in log : SameDatagram(a.pkt, b.pkt) => a.ts = b.ts

\* Every frame is counted under exactly one reason, before the program ends.
CountedPcs == {"csum", "store", "marked", "return"}

FramesCounted ==
    \A c \in Cpus :
        ts_counters[c]["NORMAL"] + ts_counters[c]["TS_AVTP"]
          + ts_counters[c]["TS_PCP"] + ts_counters[c]["TS_UDP"]
          + ts_counters[c]["PARSE_SHORT"]
        = sent[c] + (IF pc[c] \in CountedPcs THEN 1 ELSE 0)

\* DSCP_MARKED counts exactly the frames whose TOS byte really changed (not
\* those that already had the DSCP, nor those a helper failed on), and never
\* runs ahead of the TS frames that may carry an IPv4 header.
MarksCounted ==
    \A c \in Cpus :
        /\ ts_counters[c]["DSCP_MARKED"] = changed[c] +
             (IF pc[c] = "return" /\ skb[c].tos # pkt[c].tos THEN 1 ELSE 0)
        /\ ts_counters[c]["DSCP_MARKED"]
             <= ts_counters[c]["TS_PCP"] + ts_counters[c]["TS_UDP"]
=============================================================================
