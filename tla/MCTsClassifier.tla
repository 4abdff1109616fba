--------------------------- MODULE MCTsClassifier ---------------------------
(***************************************************************************)
(* TLC instance of TsClassifier.  A behaviour is either a sweep, one frame *)
(* at a length boundary of the parser or a checksum corner while nothing   *)
(* else happens, or a race of two CPUs and a configuration update, for a   *)
(* small set of frames.                                                    *)
(***************************************************************************)
EXTENDS TsClassifier, TLC

\* A plain 60-byte-payload UDP frame to port 6000; the checksum is whatever
\* makes the header valid.
ValidCheck(version, ihl, tos, rest) ==
    CsumNot(CsumAdd(16 * version + ihl + 256 * tos, rest))

Base == [len |-> 102, meta |-> -1, tags |-> <<>>, inner |-> "IP",
         version |-> 4, ihl |-> 5, frag |-> "no", protocol |-> "UDP",
         dport |-> 6000, tos |-> 1, rest |-> 4660,
         check |-> ValidCheck(4, 5, 1, 4660), priority |-> 2, cloned |-> FALSE]

\* Lengths just below and at each bound the parser tests.
Boundary(n, ihl) ==
    LET off == 14 + 4 * n
    IN  {13, off - 1, off, off + 19, off + 20, off + 4 * ihl + 7, off + 4 * ihl + 8}

ParseFrames ==
    UNION {{[Base EXCEPT !.len = l, !.tags = t, !.meta = m, !.frag = fr]
              : l \in Boundary(IF Len(t) > 2 THEN 2 ELSE Len(t), 5)}
           : t \in {<<>>, <<4>>, <<5>>, <<7, 0>>, <<0, 7>>, <<5, 0, 0>>},
             m \in {-1, 4, 5}, fr \in {"no", "first", "later"}}

OtherFrames ==
    {[Base EXCEPT !.inner = i, !.tags = t, !.len = l] :
        i \in {"AVTP", "OTHER"}, t \in {<<>>, <<4>>, <<6>>, <<0, 6, 6>>}, l \in {17, 60}}
    \cup {[Base EXCEPT !.version = v, !.ihl = h, !.protocol = u, !.dport = d, !.len = 34 + x] :
        v \in {4, 6}, h \in {4, 6, 15}, u \in {"UDP", "OTHER"},
        d \in {6000, 7000, 8000}, x \in {11, 12, 47, 48}}

\* Checksums at the ends of the one's-complement range, good and bad.
ChecksumFrames ==
    UNION {{[Base EXCEPT !.tos = t, !.rest = r, !.check = k, !.cloned = cl]
              : k \in {ValidCheck(4, 5, t, r), 0, 1, 65535}}
           : t \in {0, 3, 184, 185, 255}, cl \in BOOLEAN,
             r \in {0, 1, 65535 - 69, 65535 - 69 - 256 * 184, 65535}}

SweepPackets ==
    ParseFrames \cup OtherFrames \cup ChecksumFrames

SweepConfigs == {[priority |-> 0, dscp |-> 0,  flags |-> 1],
                 [priority |-> 7, dscp |-> 64, flags |-> 3]}

\* Frames whose fate depends on the configuration and on the port table, and two
\* fragments of a datagram, the first one with its UDP header.
RacePackets ==
    {Base, [Base EXCEPT !.dport = 7000, !.cloned = TRUE]}
    \cup {[Base EXCEPT !.frag = fr] : fr \in {"first", "later"}}

\* The CPUs run the same program on the same set of frames.
CpuSymmetry == Permutations(Cpus)

\* Every field changes, both flags included.
RaceConfigs == {[priority |-> 7, dscp |-> 10, flags |-> 3]}

MCPackets == SweepPackets \cup RacePackets
MCConfigs == SweepConfigs \cup RaceConfigs

VARIABLE racing

MCInit ==
    /\ Init
    /\ \/ racing = TRUE /\ ts_config \in RaceConfigs \cup {ZeroConfig}
       \/ racing = FALSE /\ ts_config \in SweepConfigs \cup {ZeroConfig}

\* No frame was offered to another CPU.
Alone(c) == \A d \in Cpus \ {c} : pc[d] = "idle" /\ sent[d] = 0

MCNext ==
    \/ racing /\ (\E v \in RaceConfigs : UpdateBegin(v)) /\ UNCHANGED racing
    \/ racing /\ (\E f \in Fields : UpdateField(f)) /\ UNCHANGED racing
    \/ (\E q \in Ports : AddPort(q)) /\ UNCHANGED racing
    \/ racing /\ (\E c \in Cpus, p \in RacePackets : Start(c, p)) /\ UNCHANGED racing
    \/ ~racing /\ (\E c \in Cpus : Alone(c) /\ \E p \in SweepPackets : Start(c, p)) /\ UNCHANGED racing
    \/ (\E c \in Cpus, f \in Fields : LoadField(c, f)) /\ UNCHANGED racing
    \/ (\E c \in Cpus : Classify(c)) /\ UNCHANGED racing
    \/ (\E c \in Cpus : SetPriority(c)) /\ UNCHANGED racing
    \/ (\E c \in Cpus : CsumReplace(c)) /\ UNCHANGED racing
    \/ (\E c \in Cpus : StoreTos(c)) /\ UNCHANGED racing
    \/ (\E c \in Cpus : CountMarked(c)) /\ UNCHANGED racing
    \/ (\E c \in Cpus : Return(c)) /\ UNCHANGED racing

MCSpec == MCInit /\ [][MCNext]_<<vars, racing>>
=============================================================================
