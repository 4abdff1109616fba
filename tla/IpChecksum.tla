----------------------------- MODULE IpChecksum -----------------------------
(***************************************************************************)
(* The IPv4 header checksum in one's-complement arithmetic on 16-bit       *)
(* words, and the incremental update (RFC 1624) that mark_dscp() of        *)
(* bpf/src/ts_classifier.c asks the kernel for.                            *)
(*                                                                         *)
(* Words are read the way the BPF object reads them (bpf/Makefile builds   *)
(* it for a little-endian target): the byte at the lower address is the    *)
(* low byte, so the first header word is version/IHL + 256 * TOS.  The     *)
(* other words of the header, the checksum excepted, are abstracted to     *)
(* their one's-complement sum.                                             *)
(***************************************************************************)
EXTENDS Naturals

Byte == 0 .. 255
\* A word of ones, 0xFFFF.
Ones == 256 * 256 - 1
Word == 0 .. Ones

\* One's-complement addition with end-around carry: the fold loop of
\* ip_checksum() in the test harness, csum16_add() in the kernel.
CsumAdd(a, b) == IF a + b > Ones THEN a + b - Ones ELSE a + b

\* Bitwise complement of a word.
CsumNot(a) == Ones - a

\* A receiver accepts a header when all its words add up to 0xFFFF:
\* first is the version/IHL/TOS word, rest the sum of the other words.
CsumOk(first, rest, check) == CsumAdd(CsumAdd(first, rest), check) = Ones

\* bpf_l3_csum_replace(skb, off, from, to, 2): the checksum field after the
\* word `from' of the header was replaced by `to'.
CsumReplace2(check, from, to) ==
    CsumNot(CsumAdd(CsumAdd(CsumNot(check), CsumNot(from)), to))

=============================================================================
