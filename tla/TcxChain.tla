------------------------------ MODULE TcxChain ------------------------------
(***************************************************************************)
(* The egress hook of one interface: its tcx chain, the legacy tc filters  *)
(* behind it, the bpffs pins that keep tcx links alive, and concurrent     *)
(* invocations of bpf/tools/tcx_attach.c that may be killed at any point.  *)
(*                                                                         *)
(* The kernel side (link reference counts, what a verdict does to the      *)
(* chain) is external and modelled from how the tool, the programs and     *)
(* bpf/tests/test_tcx_chain.sh use it: a link stays in the chain as long   *)
(* as a pin or a process refers to it and nobody detached it.              *)
(***************************************************************************)
EXTENDS Naturals, Sequences, FiniteSets, SequencesExt

CONSTANTS
    Tools,      \* invocations of tcx_attach, each runs once
    Paths,      \* pin paths on bpffs
    Progs,      \* programs the tool attaches
    Legacy      \* legacy tc filters behind the chain, in pref order

Programs == {"ts_classifier", "prio_probe", "tcx_dummy_ok"}

ASSUME ProgsAssumption ==
    /\ Progs # {} /\ Progs \subseteq Programs /\ Legacy \in Seq(Programs)
    /\ Paths # {}

\* Every tool creates at most one link, so a link is named by its tool.
None == "none"
ASSUME NoneAssumption == None \notin Tools

\* ts_classifier() and prio_probe() return TC_ACT_UNSPEC, which is TCX_NEXT;
\* tcx_dummy_ok() stands for a program that ends the chain.
VerdictOf(p) == IF p = "tcx_dummy_ok" THEN "OK" ELSE "UNSPEC"

VARIABLES
    chain,   \* links in the order the kernel runs them
    pins,    \* link each path is pinned to, or None
    pc,      \* where each tool is
    arg,     \* its arguments, once it runs
    fd,      \* the link a live tool holds open, or None
    order,   \* history: links in the order they were attached
    got,     \* history: the link a detach opened
    hit      \* history: links a detach or an unlink has reached

vars == <<chain, pins, pc, arg, fd, order, got, hit>>

Args == [prog : Progs, path : Paths, before : BOOLEAN]
AnyArgs == CHOOSE a \in Args : TRUE
Ended == {"ok_attach", "ok_detach", "failed", "killed"}
PcValues == {"new", "pin", "detach", "unlink"} \cup Ended

Init ==
    /\ chain = <<>>
    /\ pins = [p \in Paths |-> None]
    /\ pc = [t \in Tools |-> "new"]
    /\ arg = [t \in Tools |-> AnyArgs]
    /\ fd = [t \in Tools |-> None]
    /\ order = <<>>
    /\ got = [t \in Tools |-> None]
    /\ hit = {}

-----------------------------------------------------------------------------
(* Kernel *)

\* A link is released when no pin and no open descriptor refers to it.
Referenced(l, ps, fs) == (\E p \in Paths : ps[p] = l) \/ (\E t \in Tools : fs[t] = l)

IndexIn(s, l) == CHOOSE i \in DOMAIN s : s[i] = l

\* A link is in the chain at most once.
Without(c, l) == IF l \in ToSet(c) THEN RemoveAt(c, IndexIn(c, l)) ELSE c

\* One reference to l is gone, with which it may have lost its last.
Put(c, l, ps, fs) == IF Referenced(l, ps, fs) THEN c ELSE Without(c, l)

\* The process ends or closes its descriptor.
Close(t, ps) ==
    /\ pins' = ps
    /\ fd' = [fd EXCEPT ![t] = None]
    /\ chain' = Put(chain, fd[t], ps, fd')

\* The programs that see a frame: up to the first whose verdict is not UNSPEC.
Prefix(ps) ==
    LET stops == {i \in DOMAIN ps : VerdictOf(ps[i]) # "UNSPEC"}
    IN  IF stops = {} THEN ps
        ELSE SubSeq(ps, 1, CHOOSE i \in stops : \A j \in stops : i <= j)

\* Legacy filters only run when every tcx program said UNSPEC.
Ran(tcx) ==
    Prefix(tcx) \o (IF \A i \in DOMAIN tcx : VerdictOf(tcx[i]) = "UNSPEC"
                    THEN Prefix(Legacy) ELSE <<>>)

ProgsOf(c) == [i \in DOMAIN c |-> arg[c[i]].prog]

-----------------------------------------------------------------------------
(* do_attach() *)

\* Mutant: the position argument is lost, so the link always goes to the tail.
AttachAtTail(t, a) ==
    /\ pc[t] = "new"
    /\ arg' = [arg EXCEPT ![t] = a]
    /\ chain' = Append(chain, t)
    /\ fd' = [fd EXCEPT ![t] = t]
    /\ order' = Append(order, t)
    /\ pc' = [pc EXCEPT ![t] = "pin"]
    /\ UNCHANGED <<pins, got, hit>>

\* bpf_program__attach_tcx(): BEFORE without a relative link goes to the head
\* of the chain, AFTER to its tail.
Attach(t, a) ==
    /\ pc[t] = "new"
    /\ arg' = [arg EXCEPT ![t] = a]
    /\ chain' = IF a.before THEN <<t>> \o chain ELSE Append(chain, t)
    /\ fd' = [fd EXCEPT ![t] = t]
    /\ order' = Append(order, t)
    /\ pc' = [pc EXCEPT ![t] = "pin"]
    /\ UNCHANGED <<pins, got, hit>>

\* No such interface, no object, load or attach refused: nothing was created.
AttachFails(t) ==
    /\ pc[t] = "new"
    /\ pc' = [pc EXCEPT ![t] = "failed"]
    /\ UNCHANGED <<chain, pins, arg, fd, order, got, hit>>

\* Mutant: the tool forgets the pin and ends, so its descriptor goes with it.
PinForgotten(t) ==
    /\ pc[t] = "pin"
    /\ pc' = [pc EXCEPT ![t] = "ok_attach"]
    /\ Close(t, pins)
    /\ UNCHANGED <<arg, order, got, hit>>

\* bpf_link__pin() and the end of the process.  A path that exists fails the
\* pin; bpf_link__destroy() then closes the link.
Pin(t) ==
    /\ pc[t] = "pin"
    /\ LET free == pins[arg[t].path] = None
       IN  /\ pc' = [pc EXCEPT ![t] = IF free THEN "ok_attach" ELSE "failed"]
           /\ Close(t, IF free THEN [pins EXCEPT ![arg[t].path] = t] ELSE pins)
    /\ UNCHANGED <<arg, order, got, hit>>

-----------------------------------------------------------------------------
(* do_detach() *)

\* Mutant: the result of bpf_obj_get() is not tested.
OpenUnchecked(t, p) ==
    /\ pc[t] = "new"
    /\ arg' = [arg EXCEPT ![t].path = p]
    /\ pc' = [pc EXCEPT ![t] = "detach"]
    /\ fd' = [fd EXCEPT ![t] = pins[p]]
    /\ got' = [got EXCEPT ![t] = pins[p]]
    /\ UNCHANGED <<chain, pins, order, hit>>

\* bpf_obj_get(); a path without a pin ends the tool with status 1.
Open(t, p) ==
    /\ pc[t] = "new"
    /\ arg' = [arg EXCEPT ![t].path = p]
    /\ pc' = [pc EXCEPT ![t] = IF pins[p] = None THEN "failed" ELSE "detach"]
    /\ fd' = [fd EXCEPT ![t] = pins[p]]
    /\ got' = [got EXCEPT ![t] = pins[p]]
    /\ UNCHANGED <<chain, pins, order, hit>>

\* bpf_link_detach(): the link leaves the chain though its pin remains.  An
\* error is printed and the tool goes on.
DetachLink(t) ==
    /\ pc[t] = "detach"
    /\ \E ok \in BOOLEAN :
         chain' = IF ok THEN Without(chain, fd[t]) ELSE chain
    /\ hit' = hit \cup {fd[t]}
    /\ pc' = [pc EXCEPT ![t] = "unlink"]
    /\ UNCHANGED <<pins, arg, fd, order, got>>

\* Mutant: the tool stops after bpf_link_detach(), even when that failed.
UnlinkSkipped(t) ==
    /\ pc[t] = "unlink"
    /\ pc' = [pc EXCEPT ![t] = "ok_detach"]
    /\ Close(t, pins)
    /\ UNCHANGED <<arg, order, got, hit>>

\* close() and unlink() of the path, whatever is pinned there by now.
Unlink(t) ==
    /\ pc[t] = "unlink"
    /\ pins' = [pins EXCEPT ![arg[t].path] = None]
    /\ fd' = [fd EXCEPT ![t] = None]
    /\ LET l == pins[arg[t].path]
       IN  /\ pc' = [pc EXCEPT ![t] = IF l = None THEN "failed" ELSE "ok_detach"]
           /\ hit' = IF l = None THEN hit ELSE hit \cup {l}
           /\ chain' = Put(Put(chain, fd[t], pins, fd'), l, pins', fd')
    /\ UNCHANGED <<arg, order, got>>

-----------------------------------------------------------------------------
(* The environment *)

\* The process is killed; the kernel closes its descriptors.
Kill(t) ==
    /\ pc[t] \notin Ended
    /\ pc' = [pc EXCEPT ![t] = "killed"]
    /\ Close(t, pins)
    /\ UNCHANGED <<arg, order, got, hit>>

\* rm -f of a pin, as the cleanup of test_tcx_chain.sh does.
RemovePin(p) ==
    /\ pins[p] # None
    /\ hit' = hit \cup {pins[p]}
    /\ pins' = [pins EXCEPT ![p] = None]
    /\ chain' = Put(chain, pins[p], pins', fd)
    /\ UNCHANGED <<pc, arg, fd, order, got>>

Next ==
    \/ \E t \in Tools : \/ \E a \in Args : Attach(t, a)
                        \/ AttachFails(t)
                        \/ Pin(t)
                        \/ \E p \in Paths : Open(t, p)
                        \/ DetachLink(t)
                        \/ Unlink(t)
                        \/ Kill(t)
    \/ \E p \in Paths : RemovePin(p)

Spec == Init /\ [][Next]_vars

-----------------------------------------------------------------------------
(* Properties *)

\* Types; in particular, no link is in the chain twice.
TypeOK ==
    /\ chain \in Seq(Tools) /\ IsInjective(chain)
    /\ pins \in [Paths -> Tools \cup {None}]
    /\ pc \in [Tools -> PcValues]
    /\ arg \in [Tools -> Args]
    /\ fd \in [Tools -> Tools \cup {None}]
    /\ order \in Seq(Tools)
    /\ got \in [Tools -> Tools \cup {None}]
    /\ hit \subseteq Tools

\* The tool's promise ("stays attached after the process ends"): once attach
\* exits 0 the program is in the chain and its pin is at the path, whatever
\* other tools do, fail at or are killed in, until a detach or an unlink
\* reaches that very link.
AttachHolds ==
    \A t \in Tools : pc[t] = "ok_attach" /\ t \notin hit =>
        t \in ToSet(chain) /\ pins[arg[t].path] = t

\* A detach that exits 0 has taken the link it opened off the hook, even if
\* bpf_link_detach() failed or the path was pinned again meanwhile; only
\* another tool that still holds the link open can keep it there.
DetachWorks ==
    \A t \in Tools : pc[t] = "ok_detach" =>
        got[t] \notin ToSet(chain) \/ \E u \in Tools : fd[u] = got[t]

\* The programs of ps other than the classifier, in their order.
OthersUpTo(ps) ==
    LET kept[n \in 0 .. Len(ps)] ==
          IF n = 0 THEN <<>>
          ELSE IF ps[n] = "ts_classifier" THEN kept[n - 1]
          ELSE Append(kept[n - 1], ps[n])
    IN  kept

Others(ps) == OthersUpTo(ps)[Len(ps)]

\* An attached classifier never changes which other programs see a frame, in
\* the chain or among the legacy filters: it returns TC_ACT_UNSPEC on every
\* path (README, design item 4).
Transparent == Others(Ran(ProgsOf(chain))) = Others(Ran(Others(ProgsOf(chain))))

\* A classifier attached with BEFORE sees every frame, whatever the programs
\* that were there first return; only one put before it later can hide frames
\* from it.
ClassifierSees ==
    \A i \in DOMAIN chain :
        arg[chain[i]].prog = "ts_classifier" /\ arg[chain[i]].before =>
            \/ i <= Len(Prefix(ProgsOf(chain)))
            \/ \E j \in 1 .. (i - 1) :
                 /\ VerdictOf(arg[chain[j]].prog) = "OK"
                 /\ arg[chain[j]].before
                 /\ IndexIn(order, chain[j]) > IndexIn(order, chain[i])

\* Attaching never hides frames: the classifier from no other program, and no
\* program that was there first from the classifier.
NobodyHidden == Transparent /\ ClassifierSees
=============================================================================
