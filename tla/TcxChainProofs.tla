--------------------------- MODULE TcxChainProofs ---------------------------
(***************************************************************************)
(* Proofs about TcxChain, for any number of concurrent invocations of      *)
(* tcx_attach and any set of pin paths.                                    *)
(***************************************************************************)
EXTENDS TcxChain, SequenceTheorems, WellFoundedInduction, NaturalsInduction, TLAPS

-----------------------------------------------------------------------------
(* The inductive invariant *)

\* A live tool holds open the link it created or the one it opened, a tool
\* that ended holds none.
Holds ==
    \A t \in Tools :
        /\ pc[t] \in {"new"} \cup Ended => fd[t] = None
        /\ pc[t] = "pin" => fd[t] = t
        /\ pc[t] \in {"detach", "unlink"} => fd[t] = got[t] /\ got[t] # None

\* A pin is at the path its tool was given, and its tool exited with 0.
Pinned ==
    \A p \in Paths : pins[p] # None =>
        pc[pins[p]] = "ok_attach" /\ arg[pins[p]].path = p

\* A detach has opened a link that was pinned at the path it was given.
Opened ==
    \A t \in Tools :
        /\ pc[t] \in {"new", "pin"} => got[t] = None
        /\ got[t] # None => pc[got[t]] = "ok_attach" /\ arg[got[t]].path = arg[t].path

\* Every link of the chain is held by a pin or a descriptor.
InUse == \A l \in ToSet(chain) : Referenced(l, pins, fd)

\* A link that waits for its pin is in the chain, unless somebody hit it.
Waiting == \A t \in Tools : pc[t] = "pin" /\ t \notin hit => t \in ToSet(chain)

\* The link that a finished detach opened is pinned nowhere.
Unpinned ==
    \A t \in Tools : pc[t] = "ok_detach" =>
        got[t] # None /\ \A p \in Paths : pins[p] # got[t]

Inv ==
    TypeOK /\ Holds /\ Pinned /\ Opened /\ InUse /\ Waiting /\ AttachHolds /\ Unpinned

-----------------------------------------------------------------------------
(* What taking a link out of a chain does *)

\* Link x runs before link y.
Precedes(c, x, y) == \E i, j \in DOMAIN c : i < j /\ c[i] = x /\ c[j] = y

\* The links of d run in the order they have in c.
InOrder(c, d) == \A x, y : Precedes(d, x, y) => Precedes(c, x, y)

\* Without(c, l) loses l and nothing else, and keeps every other link once and
\* in its place.
LEMMA WithoutFacts ==
    ASSUME NEW S, NEW c \in Seq(S), IsInjective(c), NEW l
    PROVE  /\ Without(c, l) \in Seq(S) /\ IsInjective(Without(c, l))
           /\ ToSet(Without(c, l)) = ToSet(c) \ {l}
           /\ InOrder(c, Without(c, l))
  <1>1. DOMAIN c = 1 .. Len(c) /\ Len(c) \in Nat
    OBVIOUS
  <1>2. CASE l \notin ToSet(c)
    <2>1. Without(c, l) = c /\ ToSet(c) = ToSet(c) \ {l}
      BY <1>2 DEF Without
    <2>2. QED
      BY <2>1 DEF InOrder
  <1>3. CASE l \in ToSet(c)
    <2> DEFINE i == IndexIn(c, l)
               d == [j \in 1 .. (Len(c) - 1) |-> IF j < i THEN c[j] ELSE c[j + 1]]
    <2>1. i \in 1 .. Len(c) /\ c[i] = l
      BY <1>1, <1>3 DEF IndexIn, ToSet
    <2>2. Without(c, l) = SubSeq(c, 1, i - 1) \o SubSeq(c, i + 1, Len(c))
      BY <1>3 DEF Without, RemoveAt
    <2> HIDE DEF i
    <2>3. d \in Seq(S)
      BY <1>1, <2>1
    <2>4. SubSeq(c, 1, i - 1) \o SubSeq(c, i + 1, Len(c)) = d
      <3> DEFINE u == SubSeq(c, 1, i - 1)
                 v == SubSeq(c, i + 1, Len(c))
      <3>1. u \in Seq(S) /\ Len(u) = i - 1 /\ \A j \in 1 .. (i - 1) : u[j] = c[j]
        BY <1>1, <2>1
      <3>2. v \in Seq(S) /\ Len(v) = Len(c) - i
        <4>1. i + 1 \in Int /\ Len(c) \in Int /\ \A j \in (i + 1) .. Len(c) : c[j] \in S
          <5>1. i + 1 \in Int /\ Len(c) \in Int /\ (i + 1) .. Len(c) \subseteq 1 .. Len(c)
            BY <1>1, <2>1
          <5>2. QED
            BY <5>1
        <4>2. v \in Seq(S) /\ Len(v) = IF i + 1 <= Len(c) THEN Len(c) - (i + 1) + 1 ELSE 0
          <5>1. PICK a \in Int, b \in Int : a = i + 1 /\ b = Len(c)
            BY <4>1
          <5>2. \A j \in a .. b : c[j] \in S
            BY <4>1, <5>1
          <5>3. /\ SubSeq(c, a, b) \in Seq(S)
                /\ Len(SubSeq(c, a, b)) = IF a <= b THEN b - a + 1 ELSE 0
            BY <5>2, SubSeqProperties, Zenon
          <5>4. QED
            BY <5>1, <5>3, Zenon
        <4>3. CASE i + 1 <= Len(c)
          <5>1. Len(c) - (i + 1) + 1 = Len(c) - i
            BY <1>1, <2>1
          <5>2. QED
            BY <4>2, <4>3, <5>1, Zenon
        <4>4. CASE ~(i + 1 <= Len(c))
          <5>1. i \in Int /\ Len(c) \in Int /\ i <= Len(c)
            BY <1>1, <2>1
          <5>2. i = Len(c)
            BY <4>4, <5>1
          <5>3. Len(c) - i = 0
            BY <5>1, <5>2
          <5>4. QED
            BY <4>2, <4>4, <5>3, Zenon
        <4>5. QED
          BY <4>3, <4>4
      <3>3. \A j \in 1 .. (Len(c) - i) : v[j] = c[j + i]
        BY <1>1, <2>1
      <3> HIDE DEF u, v
      <3>4. u \o v \in Seq(S) /\ Len(u \o v) = Len(c) - 1
        <4>1. u \o v \in Seq(S) /\ Len(u \o v) = Len(u) + Len(v)
          BY <3>1, <3>2, ConcatProperties, Zenon
        <4>2. Len(u) + Len(v) = Len(c) - 1
          BY <1>1, <2>1, <3>1, <3>2
        <4>3. QED
          BY <4>1, <4>2, Zenon
      <3>5. ASSUME NEW j \in 1 .. (Len(c) - 1) PROVE (u \o v)[j] = d[j]
        <4>1. CASE j < i
          <5>1. j \in 1 .. Len(u) /\ (u \o v)[j] = u[j]
            BY <1>1, <2>1, <3>1, <3>2, <4>1
          <5>2. QED
            BY <3>1, <4>1, <5>1
        <4>2. CASE ~(j < i)
          <5>1. /\ j - (i - 1) \in 1 .. (Len(c) - i)
                /\ (j - (i - 1)) + i = j + 1
                /\ j \in (Len(u) + 1) .. (Len(u) + Len(v))
            BY <1>1, <2>1, <3>1, <3>2, <4>2
          <5>2. (u \o v)[j] = v[j - (i - 1)]
            BY <1>1, <2>1, <3>1, <3>2, <5>1
          <5>3. QED
            BY <3>3, <4>2, <5>1, <5>2
        <4>3. QED
          BY <4>1, <4>2
      <3>6. Len(d) = Len(c) - 1
        BY <1>1, <2>1
      <3> HIDE DEF d
      <3>7. u \o v = d
        BY <2>3, <3>4, <3>5, <3>6, SeqEqual, Zenon
      <3>8. QED
        BY <3>7 DEF u, v
    <2>5. Without(c, l) = d
      BY <2>2, <2>4
    <2>6. DOMAIN d = 1 .. (Len(c) - 1)
      OBVIOUS
    <2>7. \A j \in 1 .. (Len(c) - 1) : d[j] = IF j < i THEN c[j] ELSE c[j + 1]
      OBVIOUS
    <2> HIDE DEF d
    <2>8. IsInjective(d)
      <3> SUFFICES ASSUME NEW x \in 1 .. (Len(c) - 1), NEW y \in 1 .. (Len(c) - 1),
                          d[x] = d[y]
                   PROVE  x = y
        BY <2>6 DEF IsInjective
      <3> DEFINE at(j) == IF j < i THEN j ELSE j + 1
      <3>1. at(x) \in 1 .. Len(c) /\ at(y) \in 1 .. Len(c)
        BY <1>1, <2>1
      <3>2. d[x] = c[at(x)] /\ d[y] = c[at(y)]
        BY <2>7
      <3>3. at(x) = at(y)
        <4> HIDE DEF at
        <4>1. QED
          BY <1>1, <3>1, <3>2 DEF IsInjective
      <3>4. QED
        BY <2>1, <3>3
    <2>9. ToSet(d) = ToSet(c) \ {l}
      <3>1. ASSUME NEW x \in ToSet(d) PROVE x \in ToSet(c) /\ x # l
        BY <1>1, <2>1, <2>6, <2>7 DEF ToSet, IsInjective
      <3>2. ASSUME NEW x \in ToSet(c), x # l PROVE x \in ToSet(d)
        <4>1. PICK k \in 1 .. Len(c) : c[k] = x
          BY <1>1 DEF ToSet
        <4>2. k # i
          BY <2>1, <3>2, <4>1
        <4>3. CASE k < i
          <5>1. k \in 1 .. (Len(c) - 1) /\ d[k] = x
            BY <1>1, <2>1, <2>7, <4>1, <4>3
          <5>2. QED
            BY <2>6, <5>1 DEF ToSet
        <4>4. CASE k > i
          <5>1. k - 1 \in 1 .. (Len(c) - 1) /\ ~(k - 1 < i) /\ (k - 1) + 1 = k
            BY <1>1, <2>1, <4>4
          <5>2. d[k - 1] = x
            BY <2>7, <4>1, <5>1
          <5>3. QED
            BY <2>6, <5>1, <5>2 DEF ToSet
        <4>5. QED
          BY <2>1, <4>2, <4>3, <4>4
      <3>3. QED
        BY <3>1, <3>2
    <2>10. InOrder(c, d)
      <3> SUFFICES ASSUME NEW x \in 1 .. (Len(c) - 1), NEW y \in 1 .. (Len(c) - 1), x < y
                   PROVE  Precedes(c, d[x], d[y])
        BY <2>6 DEF InOrder, Precedes
      <3> DEFINE at(j) == IF j < i THEN j ELSE j + 1
      <3>1. at(x) \in 1 .. Len(c) /\ at(y) \in 1 .. Len(c) /\ at(x) < at(y)
        BY <1>1, <2>1
      <3>2. d[x] = c[at(x)] /\ d[y] = c[at(y)]
        BY <2>7
      <3> HIDE DEF at
      <3>3. QED
        BY <1>1, <3>1, <3>2 DEF Precedes
    <2>11. QED
      BY <2>3, <2>5, <2>8, <2>9, <2>10
  <1>4. QED
    BY <1>2, <1>3

\* Dropping a reference to l takes l out of the chain exactly when none is left.
LEMMA PutFacts ==
    ASSUME NEW S, NEW c \in Seq(S), IsInjective(c), NEW l, NEW ps, NEW fs
    PROVE  /\ Put(c, l, ps, fs) \in Seq(S) /\ IsInjective(Put(c, l, ps, fs))
           /\ ToSet(Put(c, l, ps, fs)) =
                {x \in ToSet(c) : x # l \/ Referenced(x, ps, fs)}
           /\ InOrder(c, Put(c, l, ps, fs))
  <1>1. CASE Referenced(l, ps, fs)
    <2>1. Put(c, l, ps, fs) = c
      BY <1>1 DEF Put
    <2>2. ToSet(c) = {x \in ToSet(c) : x # l \/ Referenced(x, ps, fs)}
      BY <1>1, Zenon
    <2>3. InOrder(c, c)
      BY DEF InOrder
    <2>4. QED
      BY <2>1, <2>2, <2>3, Zenon
  <1>2. CASE ~Referenced(l, ps, fs)
    <2>1. Put(c, l, ps, fs) = Without(c, l)
      BY <1>2 DEF Put
    <2>2. ToSet(c) \ {l} = {x \in ToSet(c) : x # l \/ Referenced(x, ps, fs)}
      BY <1>2, Zenon
    <2>3. QED
      BY <2>1, <2>2, WithoutFacts, Zenon
  <1>3. QED
    BY <1>1, <1>2

\* A chain d that is the chain c and one more link.
Chain(c) == c \in Seq(Tools) /\ IsInjective(c)
Inserted(c, d, l) ==
    d \in Seq(Tools) /\ IsInjective(d) /\ ToSet(d) = ToSet(c) \cup {l}

\* A new link at either end is in the chain once, the others stay.
LEMMA InsertFacts ==
    ASSUME NEW c, Chain(c), NEW l \in Tools, l \notin ToSet(c)
    PROVE  Inserted(c, Append(c, l), l) /\ Inserted(c, <<l>> \o c, l)
  <1> DEFINE S == Tools
  <1>0. c \in Seq(S) /\ IsInjective(c) /\ l \in S
    BY DEF Chain
  <1> HIDE DEF S
  <1>1. DOMAIN c = 1 .. Len(c) /\ Len(c) \in Nat
    BY <1>0
  <1> DEFINE a == Append(c, l)
             b == <<l>> \o c
  <1>2. /\ a \in Seq(S) /\ DOMAIN a = 1 .. (Len(c) + 1)
        /\ \A j \in 1 .. Len(c) : a[j] = c[j]
        /\ a[Len(c) + 1] = l
    BY <1>0
  <1>3. /\ b \in Seq(S) /\ DOMAIN b = 1 .. (Len(c) + 1)
        /\ b[1] = l
        /\ \A j \in 2 .. (Len(c) + 1) : b[j] = c[j - 1]
    BY <1>0
  <1>4. \A j \in 1 .. Len(c) : c[j] # l
    BY <1>1 DEF ToSet
  <1>5. \A j \in 1 .. Len(c) : b[j + 1] = c[j] /\ j + 1 \in 1 .. (Len(c) + 1)
    <2> HIDE DEF b
    <2>1. ASSUME NEW j \in 1 .. Len(c)
          PROVE  j + 1 \in 2 .. (Len(c) + 1) /\ (j + 1) - 1 = j /\ j + 1 \in 1 .. (Len(c) + 1)
      BY <1>1
    <2>2. QED
      BY <1>3, <2>1
  <1> HIDE DEF a, b
  <1>6. \A j \in 1 .. (Len(c) + 1) :
           /\ j = Len(c) + 1 \/ j \in 1 .. Len(c)
           /\ j = 1 \/ (j \in 2 .. (Len(c) + 1) /\ j - 1 \in 1 .. Len(c))
    BY <1>1
  <1>7. IsInjective(a)
    BY <1>0, <1>1, <1>2, <1>4, <1>6 DEF IsInjective
  <1>8. IsInjective(b)
    <2> SUFFICES ASSUME NEW x \in 1 .. (Len(c) + 1), NEW y \in 1 .. (Len(c) + 1),
                        b[x] = b[y]
                 PROVE  x = y
      BY <1>3 DEF IsInjective
    <2>1. CASE x = 1 \/ y = 1
      BY <1>3, <1>4, <1>6, <2>1
    <2>2. CASE x # 1 /\ y # 1
      <3>1. x - 1 \in DOMAIN c /\ y - 1 \in DOMAIN c /\ c[x - 1] = c[y - 1]
        BY <1>1, <1>3, <1>6, <2>2
      <3>2. x - 1 = y - 1
        BY <1>0, <3>1 DEF IsInjective
      <3>3. QED
        BY <1>1, <3>2
    <2>3. QED
      BY <2>1, <2>2
  <1>9. ToSet(a) = ToSet(c) \cup {l}
    BY <1>1, <1>2, <1>6 DEF ToSet
  <1>10. ToSet(b) = ToSet(c) \cup {l}
    <2>1. ASSUME NEW x \in ToSet(b) PROVE x \in ToSet(c) \cup {l}
      <3>1. PICK j \in 1 .. (Len(c) + 1) : b[j] = x
        BY <1>3 DEF ToSet
      <3>2. j = 1 \/ (j - 1 \in DOMAIN c /\ b[j] = c[j - 1])
        BY <1>1, <1>3, <1>6
      <3>3. QED
        BY <1>3, <3>1, <3>2 DEF ToSet
    <2>2. ASSUME NEW x \in ToSet(c) PROVE x \in ToSet(b)
      <3>1. PICK j \in 1 .. Len(c) : c[j] = x
        BY <1>1 DEF ToSet
      <3>2. j + 1 \in DOMAIN b /\ b[j + 1] = x
        BY <1>3, <1>5, <3>1
      <3>3. QED
        BY <3>2 DEF ToSet
    <2>3. l \in ToSet(b)
      <3>1. 1 \in DOMAIN b
        BY <1>1, <1>3
      <3>2. QED
        BY <1>3, <3>1 DEF ToSet
    <2>4. QED
      BY <2>1, <2>2, <2>3
  <1>11. QED
    BY <1>2, <1>3, <1>7, <1>8, <1>9, <1>10, Zenon DEF a, b, S, Inserted

-----------------------------------------------------------------------------
(* Every step keeps the invariant *)

\* What TypeOK says, without the order of the chain.
LEMMA TypeFacts ==
    ASSUME TypeOK
    PROVE  /\ chain \in Seq(Tools) /\ IsInjective(chain)
           /\ \A p \in Paths : pins[p] \in Tools \cup {None}
           /\ \A t \in Tools : pc[t] \in PcValues
           /\ \A t \in Tools : arg[t] \in Args
           /\ \A t \in Tools : arg[t].path \in Paths
           /\ \A t \in Tools : fd[t] \in Tools \cup {None}
           /\ \A t \in Tools : got[t] \in Tools \cup {None}
           /\ ToSet(chain) \subseteq Tools /\ None \notin Tools
  BY NoneAssumption DEF TypeOK, Args, ToSet

\* The program starts in the invariant.
LEMMA InitInv == Init => Inv
  <1> SUFFICES ASSUME Init PROVE Inv
    OBVIOUS
  <1>1. AnyArgs \in Args
    <2>1. PICK g \in Progs, p \in Paths : TRUE
      BY ProgsAssumption
    <2>2. [prog |-> g, path |-> p, before |-> TRUE] \in Args
      BY DEF Args
    <2>3. QED
      BY <2>2, Zenon DEF AnyArgs
  <1>2. ToSet(chain) = {}
    BY DEF Init, ToSet
  <1>3. TypeOK
    <2>1. chain \in Seq(Tools) /\ order \in Seq(Tools) /\ IsInjective(chain)
      BY DEF Init, IsInjective
    <2>2. arg \in [Tools -> Args] /\ pc \in [Tools -> PcValues]
      BY <1>1 DEF Init, PcValues
    <2>3. /\ pins \in [Paths -> Tools \cup {None}] /\ fd \in [Tools -> Tools \cup {None}]
          /\ got \in [Tools -> Tools \cup {None}] /\ hit \subseteq Tools
      BY DEF Init
    <2>4. QED
      BY <2>1, <2>2, <2>3 DEF TypeOK
  <1>4. Holds /\ Pinned /\ Opened
    BY DEF Init, Holds, Pinned, Opened
  <1>5. InUse /\ Waiting /\ AttachHolds /\ Unpinned
    BY <1>2 DEF Init, InUse, Waiting, AttachHolds, Unpinned
  <1>6. QED
    BY <1>3, <1>4, <1>5 DEF Inv

\* A tool that has not started has no link in the chain, and nobody holds one
\* of it.
LEMMA NewIsUnknown ==
    ASSUME Inv, NEW t \in Tools, pc[t] = "new"
    PROVE  ~Referenced(t, pins, fd) /\ t \notin ToSet(chain)
  <1>1. t # None
    BY NoneAssumption
  <1>2. \A p \in Paths : pins[p] # t
    BY <1>1 DEF Inv, Pinned
  <1>3. \A u \in Tools : fd[u] # t
    <2> SUFFICES ASSUME NEW u \in Tools, fd[u] = t PROVE FALSE
      OBVIOUS
    <2>1. pc[u] \in PcValues
      BY TypeFacts DEF Inv
    <2>2. CASE pc[u] \in {"new"} \cup Ended
      BY <1>1, <2>2 DEF Inv, Holds
    <2>3. CASE pc[u] = "pin"
      BY <2>3 DEF Inv, Holds
    <2>4. CASE pc[u] \in {"detach", "unlink"}
      <3>1. got[u] = t
        BY <2>4 DEF Inv, Holds
      <3>2. pc[t] = "ok_attach"
        BY <1>1, <3>1 DEF Inv, Opened
      <3>3. QED
        BY <3>2
    <2>5. QED
      BY <2>1, <2>2, <2>3, <2>4 DEF PcValues
  <1>4. ~Referenced(t, pins, fd)
    BY <1>2, <1>3 DEF Referenced
  <1>5. QED
    BY <1>4 DEF Inv, InUse

\* What is left, d, of a chain c when references are dropped: the links that are
\* still referenced, each once.
Rest(c, d, ps, fs) ==
    /\ d \in Seq(Tools) /\ IsInjective(d)
    /\ ToSet(d) = {x \in ToSet(c) : Referenced(x, ps, fs)}

OthersUsed(c, l, ps, fs) == \A x \in ToSet(c) : x # l => Referenced(x, ps, fs)
Released == Rest(chain, chain', pins', fd')

\* When only l can have lost its last reference, dropping it leaves exactly the
\* links that are still referenced.
LEMMA ReleaseOne ==
    ASSUME NEW c, Chain(c), NEW l, NEW ps, NEW fs, OthersUsed(c, l, ps, fs)
    PROVE  Rest(c, Put(c, l, ps, fs), ps, fs)
  <1>1. {x \in ToSet(c) : x # l \/ Referenced(x, ps, fs)} =
            {x \in ToSet(c) : Referenced(x, ps, fs)}
    BY DEF OthersUsed
  <1>2. /\ Put(c, l, ps, fs) \in Seq(Tools) /\ IsInjective(Put(c, l, ps, fs))
        /\ ToSet(Put(c, l, ps, fs)) = {x \in ToSet(c) : x # l \/ Referenced(x, ps, fs)}
    BY PutFacts DEF Chain
  <1>3. QED
    BY <1>1, <1>2, Zenon DEF Rest

\* A tool that closes its descriptor takes at most the link it held away.
LEMMA CloseReleases ==
    ASSUME Inv, NEW t \in Tools, NEW ps, Close(t, ps),
           \A p \in Paths : pins[p] # None => ps[p] = pins[p]
    PROVE  Released
  <1>1. /\ Chain(chain) /\ fd \in [Tools -> Tools \cup {None}]
        /\ ToSet(chain) \subseteq Tools /\ None \notin Tools
    BY TypeFacts DEF Inv, TypeOK, Chain
  <1>2. pins' = ps /\ fd' = [fd EXCEPT ![t] = None] /\ chain' = Put(chain, fd[t], ps, fd')
    BY DEF Close
  <1>3. OthersUsed(chain, fd[t], ps, fd')
    BY <1>1, <1>2 DEF OthersUsed, Referenced, Inv, InUse
  <1>4. QED
    BY <1>1, <1>2, <1>3, ReleaseOne, Zenon DEF Released

\* Pin, Kill, Unlink and RemovePin leave exactly the links that are still
\* referenced.
LEMMA PinReleases ==
    ASSUME Inv, NEW t \in Tools, Pin(t) PROVE Released
  <1> DEFINE free == pins[arg[t].path] = None
             ps == IF free THEN [pins EXCEPT ![arg[t].path] = t] ELSE pins
  <1>1. Close(t, ps)
    BY DEF Pin
  <1>2. pins \in [Paths -> Tools \cup {None}] /\ arg[t].path \in Paths
    BY TypeFacts DEF Inv, TypeOK
  <1>3. \A p \in Paths : pins[p] # None => ps[p] = pins[p]
    BY <1>2
  <1> HIDE DEF ps
  <1>4. QED
    BY <1>1, <1>3, CloseReleases

\* See PinReleases.
LEMMA KillReleases ==
    ASSUME Inv, NEW t \in Tools, Kill(t) PROVE Released
  <1>1. Close(t, pins)
    BY DEF Kill
  <1>2. QED
    BY <1>1, CloseReleases

\* See PinReleases; here the descriptor and the pin go one after the other.
LEMMA UnlinkReleases ==
    ASSUME Inv, NEW t \in Tools, Unlink(t) PROVE Released
  <1> DEFINE p == arg[t].path
             c == Put(chain, fd[t], pins, fd')
  <1>1. /\ Chain(chain) /\ fd \in [Tools -> Tools \cup {None}]
        /\ pins \in [Paths -> Tools \cup {None}] /\ p \in Paths
        /\ ToSet(chain) \subseteq Tools /\ None \notin Tools
    BY TypeFacts DEF Inv, TypeOK, Chain
  <1>2. /\ pins' = [pins EXCEPT ![p] = None] /\ fd' = [fd EXCEPT ![t] = None]
        /\ chain' = Put(c, pins[p], pins', fd')
    BY DEF Unlink
  <1> HIDE DEF p
  <1>3. OthersUsed(chain, fd[t], pins, fd')
    BY <1>1, <1>2 DEF OthersUsed, Referenced, Inv, InUse
  <1>4. Rest(chain, c, pins, fd')
    BY <1>1, <1>3, ReleaseOne, Zenon
  <1> HIDE DEF c
  <1>5. Chain(c) /\ ToSet(c) = {x \in ToSet(chain) : Referenced(x, pins, fd')}
    BY <1>4, Zenon DEF Rest, Chain
  <1>6. OthersUsed(c, pins[p], pins', fd')
    BY <1>1, <1>2, <1>5 DEF OthersUsed, Referenced
  <1>7. Rest(c, chain', pins', fd')
    BY <1>2, <1>5, <1>6, ReleaseOne, Zenon
  <1>8. ASSUME NEW x \in Tools, Referenced(x, pins', fd') PROVE Referenced(x, pins, fd')
    BY <1>1, <1>2, <1>8 DEF Referenced
  <1>9. ToSet(chain') = {x \in ToSet(chain) : Referenced(x, pins', fd')}
    <2>1. ToSet(chain') = {x \in ToSet(c) : Referenced(x, pins', fd')}
      BY <1>7, Zenon DEF Rest
    <2>2. QED
      BY <1>1, <1>5, <1>8, <2>1
  <1>10. QED
    BY <1>7, <1>9, Zenon DEF Rest, Released

\* See PinReleases.
LEMMA RemovePinReleases ==
    ASSUME Inv, NEW p \in Paths, RemovePin(p) PROVE Released
  <1>1. /\ Chain(chain) /\ pins \in [Paths -> Tools \cup {None}]
        /\ ToSet(chain) \subseteq Tools /\ None \notin Tools
    BY TypeFacts DEF Inv, TypeOK, Chain
  <1>2. /\ pins' = [pins EXCEPT ![p] = None] /\ fd' = fd
        /\ chain' = Put(chain, pins[p], pins', fd')
    BY DEF RemovePin
  <1>3. OthersUsed(chain, pins[p], pins', fd')
    BY <1>1, <1>2 DEF OthersUsed, Referenced, Inv, InUse
  <1>4. QED
    BY <1>1, <1>2, <1>3, ReleaseOne, Zenon DEF Released

\* Attaching puts a link nobody knew into the chain.
LEMMA AttachInv ==
    ASSUME Inv, NEW t \in Tools, NEW a \in Args, Attach(t, a) PROVE Inv'
  <1> USE DEF Ended
  <1>1. /\ pc \in [Tools -> PcValues] /\ arg \in [Tools -> Args]
        /\ fd \in [Tools -> Tools \cup {None}] /\ order \in Seq(Tools)
        /\ pins \in [Paths -> Tools \cup {None}] /\ got \in [Tools -> Tools \cup {None}]
        /\ chain \in Seq(Tools) /\ IsInjective(chain) /\ hit \subseteq Tools
        /\ None \notin Tools /\ ToSet(chain) \subseteq Tools
    BY TypeFacts DEF Inv, TypeOK
  <1>2. /\ pc[t] = "new" /\ pc' = [pc EXCEPT ![t] = "pin"]
        /\ arg' = [arg EXCEPT ![t] = a] /\ fd' = [fd EXCEPT ![t] = t]
        /\ pins' = pins /\ got' = got /\ hit' = hit /\ order' = Append(order, t)
        /\ chain' = IF a.before THEN <<t>> \o chain ELSE Append(chain, t)
    BY DEF Attach
  <1>3. ~Referenced(t, pins, fd) /\ t \notin ToSet(chain)
    BY <1>2, NewIsUnknown
  <1>4. chain' \in Seq(Tools) /\ IsInjective(chain') /\ ToSet(chain') = ToSet(chain) \cup {t}
    <2>1. Chain(chain)
      BY <1>1, Zenon DEF Chain
    <2>2. Inserted(chain, Append(chain, t), t) /\ Inserted(chain, <<t>> \o chain, t)
      BY <1>3, <2>1, InsertFacts, Zenon
    <2>3. chain' = <<t>> \o chain \/ chain' = Append(chain, t)
      BY <1>2
    <2>4. QED
      BY <2>2, <2>3, Zenon DEF Inserted
  <1>5. \A p \in Paths : pins[p] # t
    BY <1>3 DEF Referenced
  <1>6. TypeOK'
    <2>1. pc' \in [Tools -> PcValues] /\ arg' \in [Tools -> Args]
      BY <1>1, <1>2 DEF PcValues
    <2>2. fd' \in [Tools -> Tools \cup {None}] /\ order' \in Seq(Tools)
      BY <1>1, <1>2
    <2>3. QED
      BY <1>1, <1>2, <1>4, <2>1, <2>2, Zenon DEF TypeOK, PcValues, Args
  <1>7. Holds'
    BY <1>1, <1>2 DEF Inv, Holds
  <1>8. Pinned'
    BY <1>1, <1>2, <1>5 DEF Inv, Pinned
  <1>9. \A u \in Tools : got[u] # t
    BY <1>1, <1>2 DEF Inv, Opened
  <1>10. Opened'
    BY <1>1, <1>2, <1>9 DEF Inv, Opened
  <1>11. InUse'
    <2>1. fd[t] = None
      BY <1>2 DEF Inv, Holds
    <2>2. fd'[t] = t /\ \A u \in Tools : u # t => fd'[u] = fd[u]
      BY <1>1, <1>2
    <2>3. ASSUME NEW x \in ToSet(chain) PROVE Referenced(x, pins', fd')
      <3>1. Referenced(x, pins, fd) /\ x # None
        BY <1>1 DEF Inv, InUse
      <3>2. QED
        BY <1>2, <2>1, <2>2, <3>1 DEF Referenced
    <2>4. Referenced(t, pins', fd')
      BY <2>2 DEF Referenced
    <2>5. QED
      BY <1>4, <2>3, <2>4, Zenon DEF InUse, Referenced
  <1>12. Waiting' /\ AttachHolds' /\ Unpinned'
    BY <1>1, <1>2, <1>4 DEF Inv, Waiting, AttachHolds, Unpinned
  <1>13. QED
    BY <1>6, <1>7, <1>8, <1>10, <1>11, <1>12 DEF Inv

\* An attach that fails changes nothing but the tool.
LEMMA AttachFailsInv ==
    ASSUME Inv, NEW t \in Tools, AttachFails(t) PROVE Inv'
  <1> USE DEF Ended
  <1>1. /\ pc \in [Tools -> PcValues] /\ None \notin Tools
        /\ pins \in [Paths -> Tools \cup {None}] /\ got \in [Tools -> Tools \cup {None}]
    BY TypeFacts DEF Inv, TypeOK
  <1>2. /\ pc[t] = "new" /\ pc' = [pc EXCEPT ![t] = "failed"]
        /\ UNCHANGED <<chain, pins, arg, fd, order, got, hit>>
    BY DEF AttachFails
  <1>3. pc' \in [Tools -> PcValues]
    BY <1>1, <1>2 DEF PcValues
  <1>4. TypeOK'
    BY <1>2, <1>3, Zenon DEF Inv, TypeOK, PcValues, Args
  <1>5. Holds' /\ Pinned' /\ Opened'
    BY <1>1, <1>2 DEF Inv, Holds, Pinned, Opened
  <1>6. InUse'
    BY <1>2, Zenon DEF Inv, InUse, Referenced
  <1>7. Waiting' /\ AttachHolds' /\ Unpinned'
    BY <1>1, <1>2 DEF Inv, Waiting, AttachHolds, Unpinned
  <1>8. QED
    BY <1>4, <1>5, <1>6, <1>7 DEF Inv

\* A pin is put where there is none, or the link goes away with its tool.
LEMMA PinInv ==
    ASSUME Inv, NEW t \in Tools, Pin(t) PROVE Inv'
  <1> USE DEF Ended
  <1> DEFINE p == arg[t].path
             free == pins[p] = None
  <1>1. /\ pc \in [Tools -> PcValues] /\ arg \in [Tools -> Args] /\ p \in Paths
        /\ fd \in [Tools -> Tools \cup {None}] /\ order \in Seq(Tools)
        /\ pins \in [Paths -> Tools \cup {None}] /\ got \in [Tools -> Tools \cup {None}]
        /\ hit \subseteq Tools /\ None \notin Tools /\ ToSet(chain) \subseteq Tools
    BY TypeFacts DEF Inv, TypeOK
  <1>2. /\ pc[t] = "pin" /\ pc' = [pc EXCEPT ![t] = IF free THEN "ok_attach" ELSE "failed"]
        /\ fd' = [fd EXCEPT ![t] = None]
        /\ pins' = IF free THEN [pins EXCEPT ![p] = t] ELSE pins
        /\ arg' = arg /\ got' = got /\ hit' = hit /\ order' = order
    BY DEF Pin, Close
  <1>3. /\ chain' \in Seq(Tools) /\ IsInjective(chain')
        /\ ToSet(chain') = {x \in ToSet(chain) : Referenced(x, pins', fd')}
    BY PinReleases, Zenon DEF Released, Rest
  <1> HIDE DEF p
  <1>4. \A u \in Tools : got[u] # t
    BY <1>1, <1>2 DEF Inv, Opened
  <1>5. \A q \in Paths : pins[q] # t
    BY <1>1, <1>2 DEF Inv, Pinned
  <1>6. TypeOK'
    <2>1. pc' \in [Tools -> PcValues] /\ pins' \in [Paths -> Tools \cup {None}]
      BY <1>1, <1>2 DEF PcValues
    <2>2. fd' \in [Tools -> Tools \cup {None}]
      BY <1>1, <1>2
    <2>3. QED
      BY <1>1, <1>2, <1>3, <2>1, <2>2, Zenon DEF TypeOK, PcValues, Args
  <1>7. Holds'
    BY <1>1, <1>2 DEF Inv, Holds
  <1>8. Pinned'
    BY <1>1, <1>2, <1>5 DEF Inv, Pinned, p
  <1>9. Opened'
    BY <1>1, <1>2, <1>4 DEF Inv, Opened
  <1>10. InUse'
    BY <1>3, Zenon DEF InUse, Referenced
  <1>11. Waiting'
    <2> SUFFICES ASSUME NEW u \in Tools, pc'[u] = "pin", u \notin hit'
                 PROVE  u \in ToSet(chain')
      BY DEF Waiting
    <2>1. u # t /\ pc[u] = "pin" /\ u \in ToSet(chain) /\ fd'[u] = u
      BY <1>1, <1>2 DEF Inv, Waiting, Holds
    <2>2. QED
      BY <1>3, <2>1 DEF Referenced
  <1>12. AttachHolds'
    <2> SUFFICES ASSUME NEW u \in Tools, pc'[u] = "ok_attach", u \notin hit'
                 PROVE  u \in ToSet(chain') /\ pins'[arg[u].path] = u
      BY <1>2 DEF AttachHolds
    <2>1. u \in ToSet(chain) /\ pins'[arg[u].path] = u /\ arg[u].path \in Paths
      <3>1. CASE u = t
        BY <1>1, <1>2, <3>1 DEF Inv, Waiting, p
      <3>2. CASE u # t
        <4>1. u \in ToSet(chain) /\ pins[arg[u].path] = u /\ u # None
          BY <1>1, <1>2, <3>2 DEF Inv, AttachHolds
        <4>2. arg[u].path \in Paths
          BY TypeFacts DEF Inv
        <4>3. QED
          BY <1>1, <1>2, <4>1, <4>2
      <3>3. QED
        BY <3>1, <3>2
    <2>2. QED
      BY <1>3, <2>1 DEF Referenced
  <1>13. Unpinned'
    BY <1>1, <1>2, <1>4 DEF Inv, Unpinned
  <1>14. QED
    BY <1>6, <1>7, <1>8, <1>9, <1>10, <1>11, <1>12, <1>13 DEF Inv

\* A detach opens the link that is pinned at its path.
LEMMA OpenInv ==
    ASSUME Inv, NEW t \in Tools, NEW p \in Paths, Open(t, p) PROVE Inv'
  <1> USE DEF Ended
  <1>1. /\ pc \in [Tools -> PcValues] /\ arg \in [Tools -> Args]
        /\ fd \in [Tools -> Tools \cup {None}]
        /\ pins \in [Paths -> Tools \cup {None}] /\ got \in [Tools -> Tools \cup {None}]
        /\ None \notin Tools /\ ToSet(chain) \subseteq Tools
    BY TypeFacts DEF Inv, TypeOK
  <1>2. /\ pc[t] = "new"
        /\ pc' = [pc EXCEPT ![t] = IF pins[p] = None THEN "failed" ELSE "detach"]
        /\ arg' = [arg EXCEPT ![t].path = p]
        /\ fd' = [fd EXCEPT ![t] = pins[p]] /\ got' = [got EXCEPT ![t] = pins[p]]
        /\ UNCHANGED <<chain, pins, order, hit>>
    BY DEF Open
  <1>3. /\ arg' \in [Tools -> Args] /\ arg'[t].path = p
        /\ \A u \in Tools : u # t => arg'[u] = arg[u]
    BY <1>1, <1>2 DEF Args
  <1>4. ~Referenced(t, pins, fd) /\ t \notin ToSet(chain)
    BY <1>2, NewIsUnknown
  <1>5. (\A q \in Paths : pins[q] # t) /\ \A u \in Tools : got[u] # t
    BY <1>1, <1>2, <1>4 DEF Inv, Opened, Referenced
  <1>6. pins[p] # None => /\ pc[pins[p]] = "ok_attach" /\ arg[pins[p]].path = p
                          /\ pins[p] # t /\ pins[p] \in Tools
    BY <1>1, <1>5 DEF Inv, Pinned
  <1>7. TypeOK'
    <2>1. /\ pc' \in [Tools -> PcValues] /\ fd' \in [Tools -> Tools \cup {None}]
          /\ got' \in [Tools -> Tools \cup {None}]
      BY <1>1, <1>2 DEF PcValues
    <2>2. QED
      BY <1>2, <1>3, <2>1, Zenon DEF Inv, TypeOK, PcValues, Args
  <1>8. Holds'
    BY <1>1, <1>2 DEF Inv, Holds
  <1>9. Pinned'
    BY <1>1, <1>2, <1>3, <1>5 DEF Inv, Pinned
  <1>10. Opened'
    BY <1>1, <1>2, <1>3, <1>5, <1>6 DEF Inv, Opened
  <1>11. fd[t] = None
    BY <1>2 DEF Inv, Holds
  <1>12. InUse'
    BY <1>1, <1>2, <1>11 DEF Inv, InUse, Referenced
  <1>13. Waiting' /\ AttachHolds'
    BY <1>1, <1>2, <1>3 DEF Inv, Waiting, AttachHolds
  <1>14. Unpinned'
    BY <1>1, <1>2 DEF Inv, Unpinned
  <1>15. QED
    BY <1>7, <1>8, <1>9, <1>10, <1>12, <1>13, <1>14 DEF Inv

\* bpf_link_detach() takes the opened link, and no other, out of the chain.
LEMMA DetachLinkInv ==
    ASSUME Inv, NEW t \in Tools, DetachLink(t) PROVE Inv'
  <1> USE DEF Ended
  <1>1. /\ pc \in [Tools -> PcValues] /\ arg \in [Tools -> Args]
        /\ fd \in [Tools -> Tools \cup {None}] /\ order \in Seq(Tools)
        /\ pins \in [Paths -> Tools \cup {None}] /\ got \in [Tools -> Tools \cup {None}]
        /\ hit \subseteq Tools /\ None \notin Tools /\ ToSet(chain) \subseteq Tools
        /\ \A u \in Tools : arg[u].path \in Paths
    BY TypeFacts DEF Inv, TypeOK
  <1>2. /\ pc[t] = "detach" /\ pc' = [pc EXCEPT ![t] = "unlink"]
        /\ hit' = hit \cup {fd[t]}
        /\ UNCHANGED <<pins, arg, fd, order, got>>
    BY DEF DetachLink
  <1>3. fd[t] = got[t] /\ got[t] # None /\ fd[t] \in Tools
    BY <1>1, <1>2 DEF Inv, Holds
  <1>4. /\ chain' \in Seq(Tools) /\ IsInjective(chain')
        /\ ToSet(chain') \subseteq ToSet(chain)
        /\ ToSet(chain) \subseteq ToSet(chain') \cup {fd[t]}
    <2>1. chain \in Seq(Tools) /\ IsInjective(chain)
      BY TypeFacts DEF Inv
    <2>2. /\ Without(chain, fd[t]) \in Seq(Tools) /\ IsInjective(Without(chain, fd[t]))
          /\ ToSet(Without(chain, fd[t])) = ToSet(chain) \ {fd[t]}
      BY <2>1, WithoutFacts, Zenon
    <2>3. chain' = chain \/ chain' = Without(chain, fd[t])
      BY DEF DetachLink
    <2>4. QED
      BY <2>1, <2>2, <2>3, Zenon
  <1>5. TypeOK'
    <2>1. pc' \in [Tools -> PcValues] /\ hit' \subseteq Tools
      BY <1>1, <1>2, <1>3 DEF PcValues
    <2>2. QED
      BY <1>1, <1>2, <1>4, <2>1, Zenon DEF TypeOK, PcValues, Args
  <1>6. Holds' /\ Pinned' /\ Opened'
    BY <1>1, <1>2 DEF Inv, Holds, Pinned, Opened
  <1>7. InUse'
    BY <1>2, <1>4, Zenon DEF Inv, InUse, Referenced
  <1>8. Waiting' /\ AttachHolds'
    BY <1>1, <1>2, <1>4 DEF Inv, Waiting, AttachHolds
  <1>9. Unpinned'
    BY <1>1, <1>2 DEF Inv, Unpinned
  <1>10. QED
    BY <1>5, <1>6, <1>7, <1>8, <1>9 DEF Inv

\* The end of a detach: the link it opened is pinned nowhere any more, and the
\* link whose pin it removed counts as reached.
LEMMA UnlinkInv ==
    ASSUME Inv, NEW t \in Tools, Unlink(t) PROVE Inv'
  <1> USE DEF Ended
  <1>1. /\ pc \in [Tools -> PcValues] /\ arg \in [Tools -> Args]
        /\ fd \in [Tools -> Tools \cup {None}] /\ order \in Seq(Tools)
        /\ pins \in [Paths -> Tools \cup {None}] /\ got \in [Tools -> Tools \cup {None}]
        /\ hit \subseteq Tools /\ None \notin Tools /\ ToSet(chain) \subseteq Tools
        /\ \A u \in Tools : arg[u].path \in Paths
    BY TypeFacts DEF Inv, TypeOK
  <1> DEFINE p == arg[t].path
             l == pins[p]
  <1>2. /\ pc[t] = "unlink"
        /\ pc' = [pc EXCEPT ![t] = IF l = None THEN "failed" ELSE "ok_detach"]
        /\ fd' = [fd EXCEPT ![t] = None] /\ pins' = [pins EXCEPT ![p] = None]
        /\ hit' = IF l = None THEN hit ELSE hit \cup {l}
        /\ arg' = arg /\ got' = got /\ order' = order
    BY DEF Unlink
  <1>3. /\ chain' \in Seq(Tools) /\ IsInjective(chain')
        /\ ToSet(chain') = {x \in ToSet(chain) : Referenced(x, pins', fd')}
    BY UnlinkReleases, Zenon DEF Released, Rest
  <1>4. p \in Paths /\ (l # None => l \in Tools /\ l \in hit') /\ hit \subseteq hit'
    BY <1>1, <1>2
  <1>5. TypeOK'
    <2>1. pc' \in [Tools -> PcValues] /\ pins' \in [Paths -> Tools \cup {None}]
      BY <1>1, <1>2 DEF PcValues
    <2>2. fd' \in [Tools -> Tools \cup {None}] /\ hit' \subseteq Tools
      BY <1>1, <1>2, <1>4
    <2>3. QED
      BY <1>1, <1>2, <1>3, <2>1, <2>2, Zenon DEF TypeOK, PcValues, Args
  <1>6. Holds'
    BY <1>1, <1>2 DEF Inv, Holds
  <1>7. Pinned'
    BY <1>1, <1>2 DEF Inv, Pinned
  <1>8. Opened'
    BY <1>1, <1>2 DEF Inv, Opened
  <1>9. InUse'
    BY <1>3, Zenon DEF InUse, Referenced
  <1>10. Waiting'
    <2> SUFFICES ASSUME NEW u \in Tools, pc'[u] = "pin", u \notin hit'
                 PROVE  u \in ToSet(chain')
      BY DEF Waiting
    <2>1. u # t /\ pc[u] = "pin" /\ u \in ToSet(chain) /\ fd'[u] = u
      BY <1>1, <1>2, <1>4 DEF Inv, Waiting, Holds
    <2>2. QED
      BY <1>3, <2>1 DEF Referenced
  <1>11. AttachHolds'
    <2> SUFFICES ASSUME NEW u \in Tools, pc'[u] = "ok_attach", u \notin hit'
                 PROVE  u \in ToSet(chain') /\ pins'[arg[u].path] = u
      BY <1>2 DEF AttachHolds
    <2>1. pc[u] = "ok_attach" /\ u \notin hit
      BY <1>1, <1>2, <1>4
    <2>2. u \in ToSet(chain) /\ pins[arg[u].path] = u /\ u # None
      BY <1>1, <2>1 DEF Inv, AttachHolds
    <2>3. arg[u].path # p
      BY <1>4, <2>2
    <2>4. pins'[arg[u].path] = u
      BY <1>1, <1>2, <2>2, <2>3
    <2>5. QED
      BY <1>1, <1>3, <2>2, <2>4 DEF Referenced
  <1>12. Unpinned'
    <2> SUFFICES ASSUME NEW u \in Tools, pc'[u] = "ok_detach"
                 PROVE  got[u] # None /\ \A q \in Paths : pins'[q] # got[u]
      BY <1>2 DEF Unpinned
    <2>1. CASE u = t
      <3>1. got[t] # None
        BY <1>2 DEF Inv, Holds
      <3>2. arg[got[t]].path = p
        BY <3>1 DEF Inv, Opened
      <3>3. ASSUME NEW q \in Paths PROVE pins'[q] # got[t]
        <4>1. CASE q = p
          BY <1>1, <1>2, <3>1, <4>1
        <4>2. CASE q # p
          <5>1. pins'[q] = pins[q]
            BY <1>1, <1>2, <4>2
          <5>2. pins[q] # None => arg[pins[q]].path = q
            BY DEF Inv, Pinned
          <5>3. QED
            BY <3>1, <3>2, <4>2, <5>1, <5>2
        <4>3. QED
          BY <4>1, <4>2
      <3>4. QED
        BY <2>1, <3>1, <3>3
    <2>2. CASE u # t
      <3>1. pc[u] = "ok_detach"
        BY <1>1, <1>2, <2>2
      <3>2. got[u] # None /\ \A q \in Paths : pins[q] # got[u]
        BY <3>1 DEF Inv, Unpinned
      <3>3. QED
        BY <1>1, <1>2, <3>2
    <2>3. QED
      BY <2>1, <2>2
  <1>13. QED
    BY <1>5, <1>6, <1>7, <1>8, <1>9, <1>10, <1>11, <1>12 DEF Inv

\* A tool that is killed takes no link with it but one it had not pinned.
LEMMA KillInv ==
    ASSUME Inv, NEW t \in Tools, Kill(t) PROVE Inv'
  <1> USE DEF Ended
  <1>1. /\ pc \in [Tools -> PcValues] /\ arg \in [Tools -> Args]
        /\ fd \in [Tools -> Tools \cup {None}] /\ order \in Seq(Tools)
        /\ pins \in [Paths -> Tools \cup {None}] /\ got \in [Tools -> Tools \cup {None}]
        /\ hit \subseteq Tools /\ None \notin Tools /\ ToSet(chain) \subseteq Tools
        /\ \A u \in Tools : arg[u].path \in Paths
    BY TypeFacts DEF Inv, TypeOK
  <1>2. /\ pc[t] \notin Ended /\ pc' = [pc EXCEPT ![t] = "killed"]
        /\ fd' = [fd EXCEPT ![t] = None] /\ pins' = pins
        /\ arg' = arg /\ got' = got /\ order' = order /\ hit' = hit
    BY DEF Kill, Close
  <1>3. /\ chain' \in Seq(Tools) /\ IsInjective(chain')
        /\ ToSet(chain') = {x \in ToSet(chain) : Referenced(x, pins', fd')}
    BY KillReleases, Zenon DEF Released, Rest
  <1>4. (\A q \in Paths : pins[q] # t) /\ \A u \in Tools : got[u] # t
    BY <1>1, <1>2 DEF Inv, Pinned, Opened
  <1>5. TypeOK'
    <2>1. pc' \in [Tools -> PcValues] /\ fd' \in [Tools -> Tools \cup {None}]
      BY <1>1, <1>2 DEF PcValues
    <2>2. QED
      BY <1>1, <1>2, <1>3, <2>1, Zenon DEF TypeOK, PcValues, Args
  <1>6. Holds' /\ Pinned' /\ Opened'
    BY <1>1, <1>2, <1>4 DEF Inv, Holds, Pinned, Opened
  <1>7. InUse'
    BY <1>3, Zenon DEF InUse, Referenced
  <1>8. Waiting'
    <2> SUFFICES ASSUME NEW u \in Tools, pc'[u] = "pin", u \notin hit'
                 PROVE  u \in ToSet(chain')
      BY DEF Waiting
    <2>1. u # t /\ pc[u] = "pin" /\ u \in ToSet(chain) /\ fd'[u] = u
      BY <1>1, <1>2 DEF Inv, Waiting, Holds
    <2>2. QED
      BY <1>3, <2>1 DEF Referenced
  <1>9. AttachHolds'
    <2> SUFFICES ASSUME NEW u \in Tools, pc'[u] = "ok_attach", u \notin hit'
                 PROVE  u \in ToSet(chain') /\ pins'[arg[u].path] = u
      BY <1>2 DEF AttachHolds
    <2>1. u \in ToSet(chain) /\ pins[arg[u].path] = u
      BY <1>1, <1>2 DEF Inv, AttachHolds
    <2>2. QED
      BY <1>1, <1>2, <1>3, <2>1 DEF Referenced
  <1>10. Unpinned'
    BY <1>1, <1>2 DEF Inv, Unpinned
  <1>11. QED
    BY <1>5, <1>6, <1>7, <1>8, <1>9, <1>10 DEF Inv

\* Removing a pin by hand counts as reaching its link.
LEMMA RemovePinInv ==
    ASSUME Inv, NEW p \in Paths, RemovePin(p) PROVE Inv'
  <1> USE DEF Ended
  <1>1. /\ pc \in [Tools -> PcValues] /\ arg \in [Tools -> Args]
        /\ fd \in [Tools -> Tools \cup {None}] /\ order \in Seq(Tools)
        /\ pins \in [Paths -> Tools \cup {None}] /\ got \in [Tools -> Tools \cup {None}]
        /\ hit \subseteq Tools /\ None \notin Tools /\ ToSet(chain) \subseteq Tools
        /\ \A u \in Tools : arg[u].path \in Paths
    BY TypeFacts DEF Inv, TypeOK
  <1>2. /\ pins[p] # None /\ hit' = hit \cup {pins[p]}
        /\ pins' = [pins EXCEPT ![p] = None]
        /\ UNCHANGED <<pc, arg, fd, order, got>>
    BY DEF RemovePin
  <1>3. /\ chain' \in Seq(Tools) /\ IsInjective(chain')
        /\ ToSet(chain') = {x \in ToSet(chain) : Referenced(x, pins', fd')}
    BY RemovePinReleases, Zenon DEF Released, Rest
  <1>4. TypeOK'
    <2>1. pins' \in [Paths -> Tools \cup {None}] /\ hit' \subseteq Tools
      BY <1>1, <1>2
    <2>2. QED
      BY <1>1, <1>2, <1>3, <2>1, Zenon DEF TypeOK, PcValues, Args
  <1>5. Holds' /\ Pinned' /\ Opened'
    BY <1>1, <1>2 DEF Inv, Holds, Pinned, Opened
  <1>6. InUse'
    BY <1>3, Zenon DEF InUse, Referenced
  <1>7. Waiting'
    <2> SUFFICES ASSUME NEW u \in Tools, pc'[u] = "pin", u \notin hit'
                 PROVE  u \in ToSet(chain')
      BY DEF Waiting
    <2>1. u \in ToSet(chain) /\ fd'[u] = u
      BY <1>1, <1>2 DEF Inv, Waiting, Holds
    <2>2. QED
      BY <1>3, <2>1 DEF Referenced
  <1>8. AttachHolds'
    <2> SUFFICES ASSUME NEW u \in Tools, pc'[u] = "ok_attach", u \notin hit'
                 PROVE  u \in ToSet(chain') /\ pins'[arg[u].path] = u
      BY <1>2 DEF AttachHolds
    <2>1. u \in ToSet(chain) /\ pins[arg[u].path] = u /\ u # pins[p]
      BY <1>1, <1>2 DEF Inv, AttachHolds
    <2>2. pins'[arg[u].path] = u
      BY <1>1, <1>2, <2>1
    <2>3. QED
      BY <1>1, <1>3, <2>1, <2>2 DEF Referenced
  <1>9. Unpinned'
    BY <1>1, <1>2 DEF Inv, Unpinned
  <1>10. QED
    BY <1>4, <1>5, <1>6, <1>7, <1>8, <1>9 DEF Inv

\* Every step keeps the invariant.
LEMMA NextInv == Inv /\ [Next]_vars => Inv'
  <1> SUFFICES ASSUME Inv, [Next]_vars PROVE Inv'
    OBVIOUS
  <1>1. CASE UNCHANGED vars
    <2>1. UNCHANGED <<chain, pins, pc, arg, fd, order, got, hit>>
      BY <1>1 DEF vars
    <2>2. TypeOK'
      BY <2>1, Zenon DEF Inv, TypeOK, PcValues, Args, Ended
    <2>3. Holds' /\ Pinned' /\ Opened' /\ Waiting' /\ AttachHolds' /\ Unpinned'
      BY <2>1, Zenon DEF Inv, Holds, Pinned, Opened, Waiting, AttachHolds, Unpinned, Ended
    <2>4. InUse'
      BY <2>1, Zenon DEF Inv, InUse, Referenced
    <2>5. QED
      BY <2>2, <2>3, <2>4 DEF Inv
  <1>2. ASSUME NEW t \in Tools, NEW a \in Args, Attach(t, a) PROVE Inv'
    BY <1>2, AttachInv
  <1>3. ASSUME NEW t \in Tools, NEW p \in Paths, Open(t, p) PROVE Inv'
    BY <1>3, OpenInv
  <1>4. ASSUME NEW t \in Tools, AttachFails(t) \/ Pin(t) PROVE Inv'
    BY <1>4, AttachFailsInv, PinInv
  <1>5. ASSUME NEW t \in Tools, DetachLink(t) \/ Unlink(t) \/ Kill(t) PROVE Inv'
    BY <1>5, DetachLinkInv, UnlinkInv, KillInv
  <1>6. ASSUME NEW p \in Paths, RemovePin(p) PROVE Inv'
    BY <1>6, RemovePinInv
  <1>7. QED
    BY <1>1, <1>2, <1>3, <1>4, <1>5, <1>6, Zenon DEF Next

\* The invariant holds in every state of every behaviour.
LEMMA InvSafe == Spec => []Inv
  BY InitInv, NextInv, PTL DEF Spec

\* No interleaving of attaches, detaches, kills and removed pins puts a link
\* into the chain twice or makes a detach work on a link it has not opened
\* (the early return of do_detach() after bpf_obj_get()).
THEOREM TypeSafe == Spec => []TypeOK
  <1>1. Inv => TypeOK
    BY DEF Inv
  <1>2. QED
    BY <1>1, InvSafe, PTL

\* An attach that exited with 0 stays: for any number of other invocations, and
\* wherever they fail or are killed, the link is in the chain and its pin at
\* its path until a detach or an unlink reaches that very link (do_attach()).
THEOREM AttachHoldsSafe == Spec => []AttachHolds
  <1>1. Inv => AttachHolds
    BY DEF Inv
  <1>2. QED
    BY <1>1, InvSafe, PTL

\* A detach that exited with 0 has taken the link it opened off the hook, also
\* when bpf_link_detach() failed or the path was pinned again in between: that
\* link has no pin left, and only another tool's descriptor can hold it
\* (do_detach()).
THEOREM DetachWorksSafe == Spec => []DetachWorks
  <1>1. Inv => DetachWorks
    <2> SUFFICES ASSUME Inv, NEW t \in Tools, pc[t] = "ok_detach", got[t] \in ToSet(chain)
                 PROVE  \E u \in Tools : fd[u] = got[t]
      BY DEF DetachWorks
    <2>1. \A p \in Paths : pins[p] # got[t]
      BY DEF Inv, Unpinned
    <2>2. Referenced(got[t], pins, fd)
      BY DEF Inv, InUse
    <2>3. QED
      BY <2>1, <2>2 DEF Referenced
  <1>2. QED
    BY <1>1, InvSafe, PTL
-----------------------------------------------------------------------------
(* The programs other than the classifier *)

\* A set with 0 and every successor holds all natural numbers.
LEMMA SetInduction ==
    ASSUME NEW S, 0 \in S, \A n \in Nat : n \in S => n + 1 \in S
    PROVE  \A n \in Nat : n \in S
  <1> DEFINE T == {n \in Nat : n \notin S}
  <1> SUFFICES ASSUME T # {} PROVE FALSE
    OBVIOUS
  <1>1. IsWellFoundedOn(OpToRel(<, Nat), Nat)
    BY NatLessThanWellFounded, Zenon
  <1>2. T \subseteq Nat
    OBVIOUS
  <1> HIDE DEF T
  <1>3. PICK x \in T : \A y \in T : ~(<<y, x>> \in OpToRel(<, Nat))
    BY <1>1, <1>2, WFMin, Zenon
  <1> USE DEF T
  <1>4. \A y \in T : ~(y < x)
    BY <1>3 DEF OpToRel
  <1>5. x \in Nat /\ x # 0 /\ x \notin S
    OBVIOUS
  <1>6. x - 1 \in Nat /\ (x - 1) + 1 = x /\ x - 1 < x
    BY <1>5
  <1>7. x - 1 \in S
    BY <1>4, <1>6
  <1>8. QED
    BY <1>5, <1>6, <1>7

\* One step of the filter, from what g kept of the programs before.
Keep(g, ps, n) ==
    IF n = 0 THEN <<>>
    ELSE IF ps[n] = "ts_classifier" THEN g[n - 1] ELSE Append(g[n - 1], ps[n])

\* g is what the filter keeps of the first m programs, for every m up to n.
Filters(g, ps, n) ==
    /\ g \in [0 .. n -> Seq(Programs)]
    /\ \A m \in 0 .. n : g[m] = Keep(g, ps, m)

\* The filter is defined for every sequence of programs.
LEMMA FilterExists ==
    ASSUME NEW ps \in Seq(Programs)
    PROVE  \E g : Filters(g, ps, Len(ps))
  <1> DEFINE S == {n \in Nat : n <= Len(ps) => \E g : Filters(g, ps, n)}
  <1>0. Len(ps) \in Nat
    OBVIOUS
  <1>1. 0 \in S
    <2> DEFINE g == [m \in 0 .. 0 |-> <<>>]
    <2>1. g \in [0 .. 0 -> Seq(Programs)] /\ \A m \in 0 .. 0 : m = 0 /\ g[m] = <<>>
      OBVIOUS
    <2> HIDE DEF g
    <2>2. Filters(g, ps, 0)
      BY <2>1 DEF Filters, Keep
    <2>3. QED
      BY <2>2
  <1>2. ASSUME NEW n \in Nat, n \in S PROVE n + 1 \in S
    <2> SUFFICES ASSUME n + 1 <= Len(ps) PROVE \E g : Filters(g, ps, n + 1)
      OBVIOUS
    <2>1. PICK g : Filters(g, ps, n)
      BY <1>0, <1>2
    <2>2. g[n] \in Seq(Programs) /\ ps[n + 1] \in Programs
      BY <1>0, <2>1 DEF Filters
    <2> DEFINE v == IF ps[n + 1] = "ts_classifier" THEN g[n] ELSE Append(g[n], ps[n + 1])
    <2>3. v \in Seq(Programs)
      BY <2>2
    <2> HIDE DEF v
    <2> DEFINE h == [m \in 0 .. (n + 1) |-> IF m <= n THEN g[m] ELSE v]
    <2>4. h \in [0 .. (n + 1) -> Seq(Programs)]
      BY <2>1, <2>3 DEF Filters
    <2>5. ASSUME NEW m \in 0 .. (n + 1) PROVE h[m] = Keep(h, ps, m)
      <3>1. CASE m <= n
        <4>1. m \in 0 .. n /\ h[m] = g[m] /\ (m # 0 => h[m - 1] = g[m - 1])
          BY <3>1
        <4>2. g[m] = Keep(g, ps, m)
          BY <2>1, <4>1 DEF Filters
        <4> HIDE DEF h
        <4>3. QED
          BY <4>1, <4>2 DEF Keep
      <3>2. CASE ~(m <= n)
        <4>1. m = n + 1 /\ m # 0 /\ m - 1 = n /\ h[m] = v /\ h[m - 1] = g[n]
          BY <3>2
        <4> HIDE DEF h
        <4>2. QED
          BY <4>1 DEF Keep, v
      <3>3. QED
        BY <3>1, <3>2
    <2> HIDE DEF h
    <2>6. Filters(h, ps, n + 1)
      BY <2>4, <2>5 DEF Filters
    <2>7. QED
      BY <2>6
  <1> HIDE DEF S
  <1>3. \A n \in Nat : n \in S
    BY <1>1, <1>2, SetInduction
  <1>4. QED
    BY <1>0, <1>3 DEF S

\* OthersUpTo is that filter.
LEMMA FilterDef ==
    ASSUME NEW ps \in Seq(Programs)
    PROVE  Filters(OthersUpTo(ps), ps, Len(ps))
  <1> DEFINE n == Len(ps)
             f == CHOOSE h : h = [m \in 0 .. n |-> Keep(h, ps, m)]
  <1>1. PICK g : Filters(g, ps, n)
    BY FilterExists
  <1>2. g = [m \in 0 .. n |-> Keep(g, ps, m)]
    BY <1>1 DEF Filters
  <1>3. f = [m \in 0 .. n |-> Keep(f, ps, m)]
    BY <1>2
  <1>4. OthersUpTo(ps) = f
    BY DEF OthersUpTo, Keep
  <1> HIDE DEF f
  <1>5. \A m \in 0 .. n : f[m] = Keep(f, ps, m)
    BY <1>3
  <1> DEFINE S == {m \in Nat : m <= n => f[m] \in Seq(Programs)}
  <1>6. n \in Nat
    OBVIOUS
  <1>7. 0 \in S
    <2>1. f[0] = <<>>
      BY <1>5, <1>6 DEF Keep
    <2>2. f[0] \in Seq(Programs)
      BY <2>1
    <2>3. QED
      BY <2>2
  <1>8. ASSUME NEW m \in Nat, m \in S PROVE m + 1 \in S
    <2> SUFFICES ASSUME m + 1 <= n PROVE f[m + 1] \in Seq(Programs)
      OBVIOUS
    <2>1. f[m] \in Seq(Programs) /\ ps[m + 1] \in Programs
      BY <1>6, <1>8
    <2>2. m + 1 \in 0 .. n /\ m + 1 # 0 /\ (m + 1) - 1 = m
      BY <1>6
    <2>3. f[m + 1] = IF ps[m + 1] = "ts_classifier" THEN f[m] ELSE Append(f[m], ps[m + 1])
      BY <1>5, <2>2 DEF Keep
    <2>4. QED
      BY <2>1, <2>3
  <1> HIDE DEF S
  <1>9. \A m \in Nat : m \in S
    BY <1>7, <1>8, SetInduction
  <1>10. \A m \in 0 .. n : f[m] \in Seq(Programs)
    BY <1>6, <1>9 DEF S
  <1>11. f \in [0 .. n -> Seq(Programs)]
    BY <1>3, <1>10
  <1>12. QED
    BY <1>4, <1>5, <1>11 DEF Filters

\* The filter program by program.
LEMMA FilterSteps ==
    ASSUME NEW ps \in Seq(Programs)
    PROVE  /\ OthersUpTo(ps)[0] = <<>>
           /\ \A n \in 0 .. Len(ps) : OthersUpTo(ps)[n] \in Seq(Programs)
           /\ \A n \in 1 .. Len(ps) :
                OthersUpTo(ps)[n] =
                  IF ps[n] = "ts_classifier" THEN OthersUpTo(ps)[n - 1]
                  ELSE Append(OthersUpTo(ps)[n - 1], ps[n])
           /\ Others(ps) \in Seq(Programs)
  <1> DEFINE f == OthersUpTo(ps)
  <1>1. Filters(f, ps, Len(ps)) /\ Len(ps) \in Nat
    BY FilterDef
  <1> HIDE DEF f
  <1>2. /\ f \in [0 .. Len(ps) -> Seq(Programs)]
        /\ \A m \in 0 .. Len(ps) : f[m] = Keep(f, ps, m)
    BY <1>1 DEF Filters
  <1>3. /\ 0 \in 0 .. Len(ps) /\ Len(ps) \in 0 .. Len(ps)
        /\ \A n \in 1 .. Len(ps) : n \in 0 .. Len(ps) /\ n # 0
    BY <1>1
  <1>4. f[0] = <<>>
    BY <1>2, <1>3 DEF Keep
  <1>5. \A n \in 1 .. Len(ps) :
          f[n] = IF ps[n] = "ts_classifier" THEN f[n - 1] ELSE Append(f[n - 1], ps[n])
    BY <1>2, <1>3 DEF Keep
  <1>6. f[Len(ps)] \in Seq(Programs) /\ \A n \in 0 .. Len(ps) : f[n] \in Seq(Programs)
    BY <1>2, <1>3
  <1>7. QED
    BY <1>4, <1>5, <1>6 DEF f, Others

\* What is left of the first n programs depends on nothing but them.
LEMMA FilterLocal ==
    ASSUME NEW ps \in Seq(Programs), NEW qs \in Seq(Programs), NEW n \in Nat,
           n <= Len(ps), n <= Len(qs), \A i \in 1 .. n : ps[i] = qs[i]
    PROVE  OthersUpTo(ps)[n] = OthersUpTo(qs)[n]
  <1> DEFINE f == OthersUpTo(ps)
             g == OthersUpTo(qs)
             S == {m \in Nat : m <= n => f[m] = g[m]}
  <1>1. /\ f[0] = <<>> /\ g[0] = <<>> /\ Len(ps) \in Nat /\ Len(qs) \in Nat
        /\ \A i \in 1 .. Len(ps) :
             f[i] = IF ps[i] = "ts_classifier" THEN f[i - 1] ELSE Append(f[i - 1], ps[i])
        /\ \A i \in 1 .. Len(qs) :
             g[i] = IF qs[i] = "ts_classifier" THEN g[i - 1] ELSE Append(g[i - 1], qs[i])
    BY FilterSteps
  <1> HIDE DEF f, g
  <1>2. 0 \in S
    BY <1>1
  <1>3. ASSUME NEW m \in Nat, m \in S PROVE m + 1 \in S
    <2> SUFFICES ASSUME m + 1 <= n PROVE f[m + 1] = g[m + 1]
      OBVIOUS
    <2>1. /\ m + 1 \in 1 .. n /\ m + 1 \in 1 .. Len(ps) /\ m + 1 \in 1 .. Len(qs)
          /\ (m + 1) - 1 = m /\ f[m] = g[m]
      BY <1>1, <1>3
    <2>2. QED
      BY <1>1, <2>1
  <1> HIDE DEF S
  <1>4. n \in S
    BY <1>2, <1>3, SetInduction
  <1>5. QED
    BY <1>4 DEF S, f, g

\* What is left of the first n programs are programs among them, none of them
\* the classifier.
LEMMA FilterSound ==
    ASSUME NEW ps \in Seq(Programs), NEW n \in 0 .. Len(ps)
    PROVE  \A j \in 1 .. Len(OthersUpTo(ps)[n]) :
              /\ OthersUpTo(ps)[n][j] # "ts_classifier"
              /\ \E i \in 1 .. n : ps[i] = OthersUpTo(ps)[n][j]
  <1> DEFINE f == OthersUpTo(ps)
             P(m) == \A j \in 1 .. Len(f[m]) :
                        f[m][j] # "ts_classifier" /\ \E i \in 1 .. m : ps[i] = f[m][j]
             S == {m \in Nat : m <= Len(ps) => P(m)}
  <1>1. /\ f[0] = <<>> /\ Len(ps) \in Nat
        /\ \A i \in 0 .. Len(ps) : f[i] \in Seq(Programs)
        /\ \A i \in 1 .. Len(ps) :
             f[i] = IF ps[i] = "ts_classifier" THEN f[i - 1] ELSE Append(f[i - 1], ps[i])
    BY FilterSteps
  <1> HIDE DEF f
  <1>2. 0 \in S
    <2>1. 1 .. Len(f[0]) = {}
      BY <1>1
    <2>2. QED
      BY <2>1
  <1>3. ASSUME NEW m \in Nat, m \in S PROVE m + 1 \in S
    <2> SUFFICES ASSUME m + 1 <= Len(ps) PROVE P(m + 1)
      OBVIOUS
    <2>1. P(m) /\ m + 1 \in 1 .. Len(ps) /\ (m + 1) - 1 = m /\ m \in 0 .. Len(ps)
      BY <1>1, <1>3
    <2>2. f[m + 1] = IF ps[m + 1] = "ts_classifier" THEN f[m] ELSE Append(f[m], ps[m + 1])
      BY <1>1, <2>1
    <2>3. f[m] \in Seq(Programs) /\ ps[m + 1] \in Programs
      BY <1>1, <2>1
    <2>4. \A i \in 1 .. m : i \in 1 .. (m + 1)
      OBVIOUS
    <2>5. CASE ps[m + 1] = "ts_classifier"
      BY <2>1, <2>2, <2>4, <2>5
    <2>6. CASE ps[m + 1] # "ts_classifier"
      <3> SUFFICES ASSUME NEW j \in 1 .. Len(f[m + 1])
                   PROVE  /\ f[m + 1][j] # "ts_classifier"
                          /\ \E i \in 1 .. (m + 1) : ps[i] = f[m + 1][j]
        OBVIOUS
      <3>1. f[m + 1] = Append(f[m], ps[m + 1])
        BY <2>2, <2>6
      <3>2. \/ j \in 1 .. Len(f[m]) /\ f[m + 1][j] = f[m][j]
            \/ f[m + 1][j] = ps[m + 1]
        BY <2>3, <3>1
      <3>3. m + 1 \in 1 .. (m + 1)
        OBVIOUS
      <3>4. QED
        BY <2>1, <2>4, <2>6, <3>2, <3>3
    <2>7. QED
      BY <2>5, <2>6
  <1> HIDE DEF S
  <1>4. n \in S
    <2>1. \A m \in Nat : m \in S => m + 1 \in S
      BY <1>3
    <2>2. \A m \in Nat : m \in S
      BY <1>2, <2>1, SetInduction, Zenon
    <2>3. QED
      BY <1>1, <2>2
  <1>5. QED
    BY <1>1, <1>4 DEF S, f

\* Nothing is taken out of a sequence without the classifier.
LEMMA OthersOfOthers ==
    ASSUME NEW ps \in Seq(Programs), \A i \in 1 .. Len(ps) : ps[i] # "ts_classifier"
    PROVE  Others(ps) = ps
  <1> DEFINE f == OthersUpTo(ps)
             S == {m \in Nat : m <= Len(ps) =>
                      Len(f[m]) = m /\ \A i \in 1 .. m : f[m][i] = ps[i]}
  <1>1. /\ f[0] = <<>> /\ Len(ps) \in Nat
        /\ \A i \in 0 .. Len(ps) : f[i] \in Seq(Programs)
        /\ \A i \in 1 .. Len(ps) :
             f[i] = IF ps[i] = "ts_classifier" THEN f[i - 1] ELSE Append(f[i - 1], ps[i])
    BY FilterSteps
  <1> HIDE DEF f
  <1>2. 0 \in S
    <2>1. Len(f[0]) = 0 /\ 1 .. 0 = {}
      BY <1>1
    <2>2. QED
      BY <2>1
  <1>3. ASSUME NEW m \in Nat, m \in S PROVE m + 1 \in S
    <2> SUFFICES ASSUME m + 1 <= Len(ps)
                 PROVE  /\ Len(f[m + 1]) = m + 1
                        /\ \A i \in 1 .. (m + 1) : f[m + 1][i] = ps[i]
      OBVIOUS
    <2>1. /\ m + 1 \in 1 .. Len(ps) /\ (m + 1) - 1 = m /\ m \in 0 .. Len(ps)
          /\ Len(f[m]) = m /\ \A i \in 1 .. m : f[m][i] = ps[i]
      BY <1>1, <1>3
    <2>2. f[m + 1] = Append(f[m], ps[m + 1])
      BY <1>1, <2>1
    <2>3. f[m] \in Seq(Programs) /\ ps[m + 1] \in Programs
      BY <1>1, <2>1
    <2>4. QED
      BY <2>1, <2>2, <2>3
  <1> HIDE DEF S
  <1>4. Len(ps) \in S
    BY <1>1, <1>2, <1>3, SetInduction
  <1>5. /\ Len(f[Len(ps)]) = Len(ps) /\ f[Len(ps)] \in Seq(Programs)
        /\ \A i \in 1 .. Len(ps) : f[Len(ps)][i] = ps[i]
    BY <1>1, <1>4 DEF S
  <1>6. f[Len(ps)] = ps
    BY <1>5, SeqEqual
  <1>7. QED
    BY <1>6 DEF f, Others

\* What is left of the first programs stays where it is when more follow.
LEMMA FilterGrows ==
    ASSUME NEW ps \in Seq(Programs), NEW i \in 0 .. Len(ps)
    PROVE  /\ Len(OthersUpTo(ps)[i]) <= Len(Others(ps))
           /\ \A j \in 1 .. Len(OthersUpTo(ps)[i]) :
                Others(ps)[j] = OthersUpTo(ps)[i][j]
  <1> DEFINE f == OthersUpTo(ps)
             S == {m \in Nat : i <= m /\ m <= Len(ps) =>
                      /\ Len(f[i]) <= Len(f[m])
                      /\ \A j \in 1 .. Len(f[i]) : f[m][j] = f[i][j]}
  <1>1. /\ Len(ps) \in Nat
        /\ \A n \in 0 .. Len(ps) : f[n] \in Seq(Programs)
        /\ \A n \in 1 .. Len(ps) :
             f[n] = IF ps[n] = "ts_classifier" THEN f[n - 1] ELSE Append(f[n - 1], ps[n])
    BY FilterSteps
  <1> HIDE DEF f
  <1>2. Len(f[i]) \in Nat
    BY <1>1
  <1>3. 0 \in S
    <2>1. i <= 0 => i = 0
      BY <1>1
    <2>2. QED
      BY <1>2, <2>1
  <1>4. ASSUME NEW m \in Nat, m \in S PROVE m + 1 \in S
    <2> SUFFICES ASSUME i <= m + 1, m + 1 <= Len(ps)
                 PROVE  /\ Len(f[i]) <= Len(f[m + 1])
                        /\ \A j \in 1 .. Len(f[i]) : f[m + 1][j] = f[i][j]
      OBVIOUS
    <2>1. CASE i = m + 1
      BY <1>2, <2>1
    <2>2. CASE i # m + 1
      <3>1. /\ m + 1 \in 1 .. Len(ps) /\ (m + 1) - 1 = m /\ m \in 0 .. Len(ps)
            /\ Len(f[i]) <= Len(f[m]) /\ \A j \in 1 .. Len(f[i]) : f[m][j] = f[i][j]
        BY <1>1, <1>4, <2>2
      <3>2. f[m] \in Seq(Programs) /\ ps[m + 1] \in Programs
        BY <1>1, <3>1
      <3>3. f[m + 1] = IF ps[m + 1] = "ts_classifier" THEN f[m] ELSE Append(f[m], ps[m + 1])
        BY <1>1, <3>1
      <3>4. CASE ps[m + 1] = "ts_classifier"
        BY <3>1, <3>3, <3>4
      <3>5. CASE ps[m + 1] # "ts_classifier"
        <4>1. /\ f[m + 1] = Append(f[m], ps[m + 1]) /\ Len(f[m + 1]) = Len(f[m]) + 1
              /\ Len(f[m]) \in Nat /\ \A j \in 1 .. Len(f[m]) : f[m + 1][j] = f[m][j]
          BY <3>2, <3>3, <3>5
        <4>2. \A j \in 1 .. Len(f[i]) : j \in 1 .. Len(f[m])
          BY <1>2, <3>1, <4>1
        <4>3. QED
          BY <1>2, <3>1, <4>1, <4>2
      <3>6. QED
        BY <3>4, <3>5
    <2>3. QED
      BY <2>1, <2>2
  <1> HIDE DEF S
  <1>5. Len(ps) \in S
    BY <1>1, <1>3, <1>4, SetInduction
  <1>6. QED
    BY <1>1, <1>5 DEF S, f, Others

\* Appending to the second of two joined sequences appends to the whole.
LEMMA JoinAppend ==
    ASSUME NEW u \in Seq(Programs), NEW v \in Seq(Programs), NEW x \in Programs
    PROVE  u \o Append(v, x) = Append(u \o v, x)
  <1> DEFINE a == u \o Append(v, x)
             b == Append(u \o v, x)
             n == Len(u) + Len(v) + 1
  <1>1. Append(v, x) \in Seq(Programs) /\ u \o v \in Seq(Programs)
    OBVIOUS
  <1>2. a \in Seq(Programs) /\ b \in Seq(Programs) /\ Len(a) = n /\ Len(b) = n
    BY <1>1
  <1>3. ASSUME NEW i \in 1 .. n PROVE a[i] = b[i]
    <2>1. CASE i <= Len(u)
      BY <2>1
    <2>2. CASE i > Len(u) /\ i <= Len(u) + Len(v)
      BY <2>2
    <2>3. CASE i = n
      BY <2>3
    <2>4. QED
      BY <2>1, <2>2, <2>3
  <1> HIDE DEF a, b, n
  <1>4. a = b
    BY <1>2, <1>3, SeqEqual, Zenon
  <1>5. QED
    BY <1>4 DEF a, b

\* The others of two joined sequences are the others of each.
LEMMA OthersJoin ==
    ASSUME NEW a \in Seq(Programs), NEW b \in Seq(Programs)
    PROVE  Others(a \o b) = Others(a) \o Others(b)
  <1> DEFINE c == a \o b
             k == Len(a)
             f == OthersUpTo(c)
             g == OthersUpTo(b)
             u == Others(a)
             S == {m \in Nat : m <= Len(b) => f[k + m] = u \o g[m]}
  <1>1. /\ c \in Seq(Programs) /\ Len(c) = k + Len(b) /\ k \in Nat /\ Len(b) \in Nat
        /\ \A i \in 1 .. k : c[i] = a[i]
        /\ \A i \in 1 .. Len(b) : c[k + i] = b[i]
    OBVIOUS
  <1>2. f[k] = u
    <2> HIDE DEF c
    <2>1. k <= Len(c) /\ k <= Len(a)
      BY <1>1
    <2>2. OthersUpTo(c)[Len(a)] = OthersUpTo(a)[Len(a)]
      BY <1>1, <2>1, FilterLocal
    <2>3. QED
      BY <2>2 DEF Others
  <1>3. /\ \A i \in 1 .. Len(c) :
             f[i] = IF c[i] = "ts_classifier" THEN f[i - 1] ELSE Append(f[i - 1], c[i])
        /\ g[0] = <<>> /\ u \in Seq(Programs)
        /\ \A i \in 0 .. Len(b) : g[i] \in Seq(Programs)
        /\ \A i \in 1 .. Len(b) :
             g[i] = IF b[i] = "ts_classifier" THEN g[i - 1] ELSE Append(g[i - 1], b[i])
    <2> HIDE DEF c
    <2>1. QED
      BY <1>1, FilterSteps
  <1> HIDE DEF c, f, g, u, k
  <1>4. 0 \in S
    <2>1. u \o g[0] = u
      BY <1>3
    <2>2. k + 0 = k
      BY <1>1
    <2>3. QED
      BY <1>2, <2>1, <2>2
  <1>5. ASSUME NEW m \in Nat, m \in S PROVE m + 1 \in S
    <2> SUFFICES ASSUME m + 1 <= Len(b) PROVE f[k + (m + 1)] = u \o g[m + 1]
      OBVIOUS
    <2>1. /\ m + 1 \in 1 .. Len(b) /\ (m + 1) - 1 = m /\ m \in 0 .. Len(b)
          /\ k + (m + 1) \in 1 .. Len(c) /\ (k + (m + 1)) - 1 = k + m
      BY <1>1
    <2>2. f[k + m] = u \o g[m]
      BY <1>1, <1>5
    <2>3. /\ c[k + (m + 1)] = b[m + 1] /\ b[m + 1] \in Programs
          /\ g[m] \in Seq(Programs)
      BY <1>1, <1>3, <2>1
    <2>4. CASE b[m + 1] = "ts_classifier"
      <3>1. f[k + (m + 1)] = f[k + m] /\ g[m + 1] = g[m]
        BY <1>3, <2>1, <2>3, <2>4
      <3>2. QED
        BY <2>2, <3>1
    <2>5. CASE b[m + 1] # "ts_classifier"
      <3>1. /\ f[k + (m + 1)] = Append(f[k + m], b[m + 1])
            /\ g[m + 1] = Append(g[m], b[m + 1])
        BY <1>3, <2>1, <2>3, <2>5
      <3>2. u \o Append(g[m], b[m + 1]) = Append(u \o g[m], b[m + 1])
        BY <1>3, <2>3, JoinAppend, Zenon
      <3>3. QED
        BY <2>2, <3>1, <3>2, Zenon
    <2>6. QED
      BY <2>4, <2>5
  <1> HIDE DEF S
  <1>6. Len(b) \in S
    BY <1>1, <1>4, <1>5, SetInduction
  <1>7. f[Len(c)] = u \o g[Len(b)]
    BY <1>1, <1>6 DEF S
  <1>8. QED
    BY <1>7, Zenon DEF c, f, g, u, Others

\* No program of s ends the chain.
Passes(s) == \A i \in DOMAIN s : VerdictOf(s[i]) = "UNSPEC"

\* Program i of s is the first that ends the chain.
FirstStop(s, i) ==
    /\ i \in 1 .. Len(s) /\ VerdictOf(s[i]) # "UNSPEC"
    /\ \A j \in 1 .. (i - 1) : VerdictOf(s[j]) = "UNSPEC"

\* A frame passes all programs or one of them is the first to end the chain.
LEMMA PassesOrStops ==
    ASSUME NEW s \in Seq(Programs), ~Passes(s)
    PROVE  \E i : FirstStop(s, i)
  <1> DEFINE S == {n \in Nat : n <= Len(s) =>
                     \/ \A i \in 1 .. n : VerdictOf(s[i]) = "UNSPEC"
                     \/ \E i : FirstStop(s, i)}
  <1>1. Len(s) \in Nat /\ DOMAIN s = 1 .. Len(s)
    OBVIOUS
  <1>2. 0 \in S
    OBVIOUS
  <1>3. ASSUME NEW n \in Nat, n \in S PROVE n + 1 \in S
    <2> SUFFICES ASSUME n + 1 <= Len(s), ~\E i : FirstStop(s, i)
                 PROVE  \A i \in 1 .. (n + 1) : VerdictOf(s[i]) = "UNSPEC"
      OBVIOUS
    <2>1. \A i \in 1 .. n : VerdictOf(s[i]) = "UNSPEC"
      BY <1>1, <1>3
    <2>2. n + 1 \in 1 .. Len(s) /\ (n + 1) - 1 = n
      BY <1>1
    <2>3. VerdictOf(s[n + 1]) = "UNSPEC"
      BY <2>1, <2>2 DEF FirstStop
    <2>4. \A i \in 1 .. (n + 1) : i \in 1 .. n \/ i = n + 1
      OBVIOUS
    <2>5. QED
      BY <2>1, <2>3, <2>4
  <1> HIDE DEF S
  <1>4. Len(s) \in S
    BY <1>1, <1>2, <1>3, SetInduction
  <1>5. QED
    BY <1>1, <1>4 DEF S, Passes

\* What Prefix gives: everything, or the programs up to the first that ends
\* the chain.
LEMMA PrefixFacts ==
    ASSUME NEW s \in Seq(Programs)
    PROVE  /\ Passes(s) => Prefix(s) = s
           /\ \A i : FirstStop(s, i) => Prefix(s) = SubSeq(s, 1, i)
           /\ Prefix(s) \in Seq(Programs)
  <1> DEFINE stops == {i \in DOMAIN s : VerdictOf(s[i]) # "UNSPEC"}
  <1>0. Len(s) \in Nat /\ DOMAIN s = 1 .. Len(s)
    OBVIOUS
  <1>1. Passes(s) => Prefix(s) = s
    BY DEF Passes, Prefix
  <1>2. ASSUME NEW i, FirstStop(s, i) PROVE Prefix(s) = SubSeq(s, 1, i)
    <2>1. i \in stops /\ \A j \in stops : i <= j
      BY <1>0, <1>2 DEF FirstStop
    <2>2. \A h \in stops : (\A j \in stops : h <= j) => h = i
      BY <1>0, <2>1
    <2>3. (CHOOSE h \in stops : \A j \in stops : h <= j) = i
      <3> HIDE DEF stops
      <3>1. QED
        BY <2>1, <2>2
    <2>4. QED
      BY <2>1, <2>3 DEF Prefix
  <1>3. Prefix(s) \in Seq(Programs)
    <2>1. CASE Passes(s)
      BY <1>1, <2>1
    <2>2. CASE ~Passes(s)
      <3>1. PICK i : FirstStop(s, i)
        BY <2>2, PassesOrStops
      <3>2. i \in 1 .. Len(s)
        BY <3>1 DEF FirstStop
      <3>3. SubSeq(s, 1, i) \in Seq(Programs)
        BY <1>0, <3>2
      <3>4. QED
        BY <1>2, <3>1, <3>3
    <2>3. QED
      BY <2>1, <2>2
  <1>4. QED
    BY <1>1, <1>2, <1>3

\* The others end the chain where the whole chain does.
LEMMA OthersStop ==
    ASSUME NEW s \in Seq(Programs)
    PROVE  /\ Prefix(Others(s)) = Others(Prefix(s))
           /\ Passes(Others(s)) <=> Passes(s)
  <1> DEFINE f == OthersUpTo(s)
             o == Others(s)
             n == Len(s)
  <1>1. /\ n \in Nat /\ DOMAIN s = 1 .. n /\ o \in Seq(Programs) /\ o = f[n]
        /\ \A i \in 0 .. n : f[i] \in Seq(Programs)
        /\ \A i \in 1 .. n :
             f[i] = IF s[i] = "ts_classifier" THEN f[i - 1] ELSE Append(f[i - 1], s[i])
    <2>1. n \in Nat /\ DOMAIN s = 1 .. n
      OBVIOUS
    <2>2. o = f[n]
      BY DEF Others
    <2>3. QED
      BY <2>1, <2>2, FilterSteps
  <1>2. ASSUME NEW m \in 0 .. n, NEW j \in 1 .. Len(f[m])
        PROVE  \E i \in 1 .. m : s[i] = f[m][j]
    BY <1>2, FilterSound
  <1>3. ASSUME NEW i \in 0 .. n
        PROVE  Len(f[i]) <= Len(o) /\ \A j \in 1 .. Len(f[i]) : o[j] = f[i][j]
    BY <1>3, FilterGrows
  <1>4. ASSUME NEW i \in 1 .. n PROVE Others(SubSeq(s, 1, i)) = f[i]
    <2> DEFINE p == SubSeq(s, 1, i)
    <2>1. p \in Seq(Programs) /\ Len(p) = i /\ \A j \in 1 .. i : p[j] = s[j]
      BY <1>1
    <2> HIDE DEF p
    <2>2. i \in Nat /\ i <= Len(p) /\ i <= Len(s)
      BY <1>1, <2>1
    <2>3. OthersUpTo(p)[i] = OthersUpTo(s)[i]
      BY <2>1, <2>2, FilterLocal
    <2>4. QED
      BY <2>1, <2>3 DEF p, Others
  <1>5. CASE Passes(s)
    <2>1. Passes(o)
      <3>1. n \in 0 .. n /\ DOMAIN o = 1 .. Len(o)
        BY <1>1
      <3>2. \A j \in 1 .. Len(o) : \E i \in 1 .. n : s[i] = o[j]
        BY <1>1, <1>2, <3>1
      <3> HIDE DEF o, n
      <3>3. QED
        BY <1>1, <1>5, <3>1, <3>2 DEF Passes
    <2>2. Prefix(s) = s /\ Prefix(o) = o
      <3> HIDE DEF o
      <3>1. QED
        BY <1>1, <1>5, <2>1, PrefixFacts
    <2>3. QED
      BY <1>5, <2>1, <2>2
  <1>6. CASE ~Passes(s)
    <2>1. PICK i : FirstStop(s, i)
      BY <1>6, PassesOrStops
    <2>2. i \in 1 .. n /\ VerdictOf(s[i]) # "UNSPEC" /\ i \in 0 .. n /\ i - 1 \in 0 .. n
      BY <1>1, <2>1 DEF FirstStop
    <2>3. s[i] # "ts_classifier" /\ s[i] \in Programs
      BY <1>1, <2>2 DEF VerdictOf
    <2> DEFINE u == f[i]
               v == f[i - 1]
    <2>4. u = Append(v, s[i]) /\ v \in Seq(Programs)
      BY <1>1, <2>2, <2>3
    <2>5. \A j \in 1 .. Len(v) : VerdictOf(v[j]) = "UNSPEC"
      <3>1. \A j \in 1 .. Len(v) : \E h \in 1 .. (i - 1) : s[h] = v[j]
        BY <1>2, <2>2
      <3> HIDE DEF v
      <3>2. QED
        BY <2>1, <3>1 DEF FirstStop
    <2>6. Len(u) <= Len(o) /\ \A j \in 1 .. Len(u) : o[j] = u[j]
      BY <1>3, <2>2
    <2> HIDE DEF u, v, o
    <2>7. /\ u \in Seq(Programs) /\ Len(u) = Len(v) + 1 /\ Len(v) \in Nat
          /\ u[Len(u)] = s[i] /\ \A j \in 1 .. Len(v) : u[j] = v[j]
      BY <2>3, <2>4
    <2>8. FirstStop(o, Len(u))
      <3>1. Len(u) \in 1 .. Len(o) /\ Len(u) \in 1 .. Len(u) /\ Len(u) - 1 = Len(v)
        BY <1>1, <2>6, <2>7
      <3>2. o[Len(u)] = s[i] /\ \A j \in 1 .. Len(v) : o[j] = v[j]
        <4>1. \A j \in 1 .. Len(v) : j \in 1 .. Len(u)
          BY <2>7
        <4>2. QED
          BY <2>6, <2>7, <3>1, <4>1
      <3>3. QED
        BY <2>2, <2>5, <3>1, <3>2 DEF FirstStop
    <2>9. SubSeq(o, 1, Len(u)) = u
      <3>1. Len(u) \in Nat /\ Len(o) \in Nat
        BY <1>1, <2>7
      <3>2. /\ SubSeq(o, 1, Len(u)) \in Seq(Programs) /\ Len(SubSeq(o, 1, Len(u))) = Len(u)
            /\ \A j \in 1 .. Len(u) : SubSeq(o, 1, Len(u))[j] = o[j]
        BY <1>1, <2>6, <3>1
      <3> DEFINE w == SubSeq(o, 1, Len(u))
      <3>3. w \in Seq(Programs) /\ Len(w) = Len(u) /\ \A j \in 1 .. Len(w) : w[j] = u[j]
        BY <2>6, <3>2
      <3> HIDE DEF w
      <3>4. w = u
        BY <2>7, <3>3, SeqEqual, Zenon
      <3>5. QED
        BY <3>4 DEF w
    <2>10. Prefix(o) = u
      BY <1>1, <2>8, <2>9, PrefixFacts
    <2>11. Others(Prefix(s)) = u
      <3>1. Prefix(s) = SubSeq(s, 1, i)
        BY <2>1, PrefixFacts
      <3>2. QED
        BY <1>4, <2>2, <3>1, Zenon DEF u
    <2>12. ~Passes(o)
      <3>1. Len(u) \in DOMAIN o
        BY <1>1, <2>8 DEF FirstStop
      <3>2. QED
        BY <2>8, <3>1 DEF FirstStop, Passes
    <2>13. QED
      BY <1>6, <2>10, <2>11, <2>12 DEF o
  <1>7. QED
    BY <1>5, <1>6

\* The others of a chain see what they would without the classifier.
LEMMA OthersRun ==
    ASSUME NEW s \in Seq(Programs)
    PROVE  Others(Ran(s)) = Others(Ran(Others(s)))
  <1> DEFINE o == Others(s)
             R(q) == IF Passes(q) THEN Prefix(Legacy) ELSE <<>>
  <1>1. \A q : Ran(q) = Prefix(q) \o R(q)
    BY DEF Ran, Passes
  <1>2. o \in Seq(Programs) /\ Prefix(s) \in Seq(Programs)
    BY FilterSteps, PrefixFacts
  <1>3. R(s) \in Seq(Programs) /\ R(o) = R(s)
    <2>1. Prefix(Legacy) \in Seq(Programs)
      BY ProgsAssumption, PrefixFacts
    <2>2. <<>> \in Seq(Programs)
      OBVIOUS
    <2>3. QED
      BY <2>1, <2>2, OthersStop
  <1> HIDE DEF R
  <1>4. Prefix(o) = Others(Prefix(s))
    BY OthersStop
  <1>5. Others(Prefix(s)) \in Seq(Programs)
    BY <1>2, FilterSteps
  <1>6. Others(Others(Prefix(s))) = Others(Prefix(s))
    <2> DEFINE q == Prefix(s)
    <2>1. q \in Seq(Programs) /\ Len(q) \in 0 .. Len(q)
      BY <1>2
    <2> HIDE DEF q
    <2>2. \A j \in 1 .. Len(Others(q)) : Others(q)[j] # "ts_classifier"
      BY <2>1, FilterSound DEF Others
    <2>3. Others(q) \in Seq(Programs)
      BY <2>1, FilterSteps
    <2>4. QED
      BY <2>2, <2>3, OthersOfOthers DEF q
  <1>7. Others(Ran(s)) = Others(Prefix(s)) \o Others(R(s))
    BY <1>1, <1>2, <1>3, OthersJoin, Zenon
  <1>8. Others(Ran(o)) = Others(Prefix(o)) \o Others(R(o))
    <2>1. Prefix(o) \in Seq(Programs) /\ R(o) \in Seq(Programs)
      BY <1>3, <1>4, <1>5
    <2>2. QED
      BY <1>1, <2>1, OthersJoin, Zenon
  <1>9. QED
    BY <1>3, <1>4, <1>6, <1>7, <1>8

-----------------------------------------------------------------------------
(* The order of the chain *)

\* Links attached with BEFORE come first, the latest of them at the head; and
\* a link that is in the chain was attached once.
BeforeFirst ==
    \A x, y \in ToSet(chain) : Precedes(chain, x, y) /\ arg[y].before =>
        arg[x].before /\ IndexIn(order, y) < IndexIn(order, x)

OrderInv ==
    /\ IsInjective(order)
    /\ ToSet(chain) \subseteq ToSet(order)
    /\ \A t \in Tools : pc[t] = "new" => t \notin ToSet(order)
    /\ BeforeFirst

\* Where a link is in the history once another one is appended.
LEMMA IndexAppend ==
    ASSUME NEW o \in Seq(Tools), IsInjective(o), NEW t \in Tools, t \notin ToSet(o)
    PROVE  /\ IsInjective(Append(o, t)) /\ ToSet(Append(o, t)) = ToSet(o) \cup {t}
           /\ \A x \in ToSet(o) :
                IndexIn(Append(o, t), x) = IndexIn(o, x) /\ IndexIn(o, x) \in 1 .. Len(o)
           /\ IndexIn(Append(o, t), t) = Len(o) + 1
  <1> DEFINE a == Append(o, t)
  <1>1. IsInjective(a) /\ ToSet(a) = ToSet(o) \cup {t}
    <2>1. Chain(o)
      BY Zenon DEF Chain
    <2>2. Inserted(o, Append(o, t), t)
      BY <2>1, InsertFacts, Zenon
    <2>3. QED
      BY <2>2, Zenon DEF Inserted
  <1>2. /\ DOMAIN o = 1 .. Len(o) /\ Len(o) \in Nat
        /\ DOMAIN a = 1 .. (Len(o) + 1) /\ a[Len(o) + 1] = t
        /\ \A i \in 1 .. Len(o) : a[i] = o[i]
    OBVIOUS
  <1> HIDE DEF a
  <1>3. \A i, j \in DOMAIN a : a[i] = a[j] => i = j
    BY <1>1, Zenon DEF IsInjective
  <1>4. Len(o) + 1 \in DOMAIN a /\ \A i \in 1 .. Len(o) : i \in DOMAIN a
    BY <1>2
  <1>5. ASSUME NEW k \in DOMAIN a PROVE IndexIn(a, a[k]) = k
    BY <1>3 DEF IndexIn
  <1>6. IndexIn(a, t) = Len(o) + 1
    BY <1>2, <1>4, <1>5
  <1>7. ASSUME NEW x \in ToSet(o)
        PROVE  IndexIn(a, x) = IndexIn(o, x) /\ IndexIn(o, x) \in 1 .. Len(o)
    <2>1. \E i \in DOMAIN o : o[i] = x
      BY DEF ToSet
    <2>2. IndexIn(o, x) \in DOMAIN o /\ o[IndexIn(o, x)] = x
      BY <2>1, Zenon DEF IndexIn
    <2>3. a[IndexIn(o, x)] = x /\ IndexIn(o, x) \in DOMAIN a
      BY <1>2, <1>4, <2>2
    <2>4. IndexIn(a, x) = IndexIn(o, x)
      BY <1>5, <2>3, Zenon
    <2>5. QED
      BY <1>2, <2>2, <2>4
  <1>8. QED
    BY <1>1, <1>6, <1>7 DEF a

\* Who runs before whom once a link is put at either end.
LEMMA InsertOrder ==
    ASSUME NEW c \in Seq(Tools), NEW l \in Tools, NEW x, NEW y
    PROVE  /\ Precedes(Append(c, l), x, y) => Precedes(c, x, y) \/ y = l
           /\ Precedes(<<l>> \o c, x, y) => Precedes(c, x, y) \/ (x = l /\ y \in ToSet(c))
  <1> DEFINE n == Len(c)
             a == Append(c, l)
             b == <<l>> \o c
  <1>1. /\ n \in Nat /\ DOMAIN c = 1 .. n
        /\ DOMAIN a = 1 .. (n + 1) /\ a[n + 1] = l /\ \A i \in 1 .. n : a[i] = c[i]
    OBVIOUS
  <1>2. /\ DOMAIN b = 1 .. (n + 1) /\ b[1] = l
        /\ \A i \in 2 .. (n + 1) : b[i] = c[i - 1]
    OBVIOUS
  <1> HIDE DEF a, b, n
  <1>3. ASSUME Precedes(a, x, y), y # l PROVE Precedes(c, x, y)
    <2>1. PICK i \in DOMAIN a, j \in DOMAIN a : i < j /\ a[i] = x /\ a[j] = y
      BY <1>3 DEF Precedes
    <2>2. j # n + 1
      BY <1>1, <1>3, <2>1
    <2>3. i \in 1 .. n /\ j \in 1 .. n
      BY <1>1, <2>1, <2>2
    <2>4. QED
      BY <1>1, <2>1, <2>3 DEF Precedes
  <1>4. ASSUME Precedes(b, x, y) PROVE Precedes(c, x, y) \/ (x = l /\ y \in ToSet(c))
    <2>1. PICK i \in DOMAIN b, j \in DOMAIN b : i < j /\ b[i] = x /\ b[j] = y
      BY <1>4 DEF Precedes
    <2>2. j \in 2 .. (n + 1) /\ j - 1 \in 1 .. n
      BY <1>1, <1>2, <2>1
    <2>3. c[j - 1] = y
      BY <1>2, <2>1, <2>2
    <2>4. CASE i = 1
      BY <1>1, <1>2, <2>1, <2>2, <2>3, <2>4 DEF ToSet
    <2>5. CASE i # 1
      <3>1. i \in 2 .. (n + 1) /\ i - 1 \in 1 .. n /\ i - 1 < j - 1
        BY <1>1, <1>2, <2>1, <2>5
      <3>2. c[i - 1] = x
        BY <1>2, <2>1, <3>1
      <3>3. QED
        BY <1>1, <2>2, <2>3, <3>1, <3>2 DEF Precedes
    <2>6. QED
      BY <2>4, <2>5
  <1>5. QED
    BY <1>3, <1>4 DEF a, b

\* Links that precede each other are in the chain.
LEMMA PrecedesIn ==
    ASSUME NEW c, NEW x, NEW y, Precedes(c, x, y)
    PROVE  x \in ToSet(c) /\ y \in ToSet(c)
  BY DEF Precedes, ToSet

\* Attaching keeps the order: BEFORE puts the newest link at the head.
LEMMA AttachOrder ==
    ASSUME Inv, OrderInv, NEW t \in Tools, NEW a \in Args, Attach(t, a)
    PROVE  OrderInv'
  <1>1. /\ pc[t] = "new" /\ pc' = [pc EXCEPT ![t] = "pin"]
        /\ arg' = [arg EXCEPT ![t] = a] /\ order' = Append(order, t)
        /\ chain' = IF a.before THEN <<t>> \o chain ELSE Append(chain, t)
    BY DEF Attach
  <1>2. /\ pc \in [Tools -> PcValues] /\ arg \in [Tools -> Args] /\ order \in Seq(Tools)
        /\ chain \in Seq(Tools) /\ ToSet(chain) \subseteq Tools
    BY TypeFacts DEF Inv, TypeOK
  <1>3. t \notin ToSet(chain)
    BY <1>1, NewIsUnknown
  <1>4. /\ IsInjective(order) /\ ToSet(chain) \subseteq ToSet(order)
        /\ t \notin ToSet(order) /\ BeforeFirst
        /\ \A u \in Tools : pc[u] = "new" => u \notin ToSet(order)
    BY <1>1 DEF OrderInv
  <1>5. /\ IsInjective(order') /\ ToSet(order') = ToSet(order) \cup {t}
        /\ \A x \in ToSet(order) :
             IndexIn(order', x) = IndexIn(order, x) /\ IndexIn(order, x) \in 1 .. Len(order)
        /\ IndexIn(order', t) = Len(order) + 1
    <2>1. order \in Seq(Tools) /\ IsInjective(order) /\ t \notin ToSet(order)
      BY <1>2, <1>4, Zenon
    <2>2. PICK o : o = Append(order, t)
      OBVIOUS
    <2>3. /\ IsInjective(o) /\ ToSet(o) = ToSet(order) \cup {t}
          /\ \A x \in ToSet(order) :
               IndexIn(o, x) = IndexIn(order, x) /\ IndexIn(order, x) \in 1 .. Len(order)
          /\ IndexIn(o, t) = Len(order) + 1
      BY <2>1, <2>2, IndexAppend, Zenon
    <2>4. order' = o
      BY <1>1, <2>2, Zenon
    <2>5. QED
      BY <2>3, <2>4, Zenon
  <1>6. ToSet(chain') = ToSet(chain) \cup {t}
    <2>1. Chain(chain)
      BY Zenon DEF Chain, Inv, TypeOK
    <2>2. Inserted(chain, Append(chain, t), t) /\ Inserted(chain, <<t>> \o chain, t)
      BY <1>3, <2>1, InsertFacts, Zenon
    <2>3. chain' = <<t>> \o chain \/ chain' = Append(chain, t)
      BY <1>1
    <2>4. QED
      BY <2>2, <2>3, Zenon DEF Inserted
  <1>7. \A u \in Tools : pc'[u] = "new" => u \notin ToSet(order')
    BY <1>1, <1>2, <1>4, <1>5
  <1>8. arg'[t] = a /\ \A u \in Tools : u # t => arg'[u] = arg[u]
    BY <1>1, <1>2
  <1>9. ASSUME NEW x, NEW y, Precedes(chain, x, y), arg'[y].before
        PROVE  arg'[x].before /\ IndexIn(order', y) < IndexIn(order', x)
    <2>1. x \in ToSet(chain) /\ y \in ToSet(chain)
      BY <1>9, PrecedesIn
    <2>2. arg'[x] = arg[x] /\ arg'[y] = arg[y]
      BY <1>2, <1>3, <1>8, <2>1
    <2>3. arg[x].before /\ IndexIn(order, y) < IndexIn(order, x)
      BY <1>4, <1>9, <2>1, <2>2 DEF BeforeFirst
    <2>4. QED
      BY <1>4, <1>5, <2>1, <2>2, <2>3
  <1>10. BeforeFirst'
    <2> SUFFICES ASSUME NEW x, NEW y, Precedes(chain', x, y), arg'[y].before
                 PROVE  arg'[x].before /\ IndexIn(order', y) < IndexIn(order', x)
      BY DEF BeforeFirst
    <2>1. CASE a.before
      <3>1. chain' = <<t>> \o chain
        BY <1>1, <2>1
      <3>2. Precedes(chain, x, y) \/ (x = t /\ y \in ToSet(chain))
        BY <1>2, <3>1, InsertOrder
      <3>3. CASE Precedes(chain, x, y)
        BY <1>9, <3>3
      <3>4. CASE x = t /\ y \in ToSet(chain)
        <4>1. /\ IndexIn(order', y) \in 1 .. Len(order) /\ Len(order) \in Nat
              /\ IndexIn(order', x) = Len(order) + 1
          BY <1>2, <1>4, <1>5, <3>4
        <4>2. QED
          BY <1>8, <2>1, <3>4, <4>1
      <3>5. QED
        BY <3>2, <3>3, <3>4
    <2>2. CASE ~a.before
      <3>1. chain' = Append(chain, t)
        BY <1>1, <2>2
      <3>2. Precedes(chain, x, y) \/ y = t
        BY <1>2, <3>1, InsertOrder
      <3>3. y # t
        BY <1>8, <2>2
      <3>4. QED
        BY <1>9, <3>2, <3>3
    <2>3. QED
      BY <2>1, <2>2
  <1>11. ToSet(chain') \subseteq ToSet(order')
    BY <1>4, <1>5, <1>6
  <1>12. QED
    BY <1>5, <1>7, <1>10, <1>11 DEF OrderInv

\* A step that attaches nothing takes links out and leaves the others in order.
Shrinks ==
    /\ ToSet(chain') \subseteq ToSet(chain) /\ InOrder(chain, chain')
    /\ order' = order
    /\ \A u \in Tools : arg'[u].before = arg[u].before
    /\ \A u \in Tools : pc'[u] = "new" => pc[u] = "new"

\* Such a step keeps what is known of the order of the chain.
LEMMA ShrinksOrder ==
    ASSUME Inv, OrderInv, Shrinks PROVE OrderInv'
  <1>1. ToSet(chain) \subseteq Tools
    BY TypeFacts DEF Inv
  <1>2. BeforeFirst'
    <2> SUFFICES ASSUME NEW x, NEW y, Precedes(chain', x, y), arg'[y].before
                 PROVE  arg'[x].before /\ IndexIn(order', y) < IndexIn(order', x)
      BY DEF BeforeFirst
    <2>1. Precedes(chain, x, y)
      BY DEF Shrinks, InOrder
    <2>2. x \in ToSet(chain) /\ y \in ToSet(chain)
      BY <2>1, PrecedesIn
    <2>3. arg'[x].before = arg[x].before /\ arg'[y].before = arg[y].before /\ order' = order
      BY <1>1, <2>2 DEF Shrinks
    <2>4. arg[x].before /\ IndexIn(order, y) < IndexIn(order, x)
      BY <2>1, <2>2, <2>3 DEF OrderInv, BeforeFirst
    <2>5. QED
      BY <2>3, <2>4
  <1>3. QED
    BY <1>2 DEF OrderInv, Shrinks

\* Putting a link takes it out or leaves the chain.
LEMMA PutShrinks ==
    ASSUME NEW c, Chain(c), NEW l, NEW ps, NEW fs
    PROVE  /\ Chain(Put(c, l, ps, fs)) /\ InOrder(c, Put(c, l, ps, fs))
           /\ ToSet(Put(c, l, ps, fs)) \subseteq ToSet(c)
  <1> DEFINE d == Put(c, l, ps, fs)
  <1>1. /\ d \in Seq(Tools) /\ IsInjective(d) /\ InOrder(c, d)
        /\ ToSet(d) = {x \in ToSet(c) : x # l \/ Referenced(x, ps, fs)}
    BY PutFacts DEF Chain
  <1> HIDE DEF d
  <1>2. ToSet(d) \subseteq ToSet(c)
    BY <1>1, Zenon
  <1>3. QED
    BY <1>1, <1>2, Zenon DEF d, Chain

\* Every step that is not an attach shrinks the chain or leaves it.
LEMMA OtherStepsShrink ==
    ASSUME Inv, [Next]_vars, ~\E t \in Tools, a \in Args : Attach(t, a)
    PROVE  Shrinks
  <1>1. /\ Chain(chain) /\ pc \in [Tools -> PcValues] /\ arg \in [Tools -> Args]
    BY Zenon DEF Inv, TypeOK, Chain, Args, PcValues
  <1>2. ASSUME chain' = chain
        PROVE  ToSet(chain') \subseteq ToSet(chain) /\ InOrder(chain, chain')
    BY <1>2 DEF InOrder
  <1>3. ASSUME NEW t \in Tools, NEW ps, Close(t, ps)
        PROVE  ToSet(chain') \subseteq ToSet(chain) /\ InOrder(chain, chain')
    <2>1. chain' = Put(chain, fd[t], ps, fd')
      BY <1>3 DEF Close
    <2>2. QED
      BY <1>1, <2>1, PutShrinks, Zenon
  <1>4. ASSUME NEW t \in Tools, AttachFails(t) PROVE Shrinks
    BY <1>1, <1>2, <1>4 DEF AttachFails, Shrinks
  <1>5. ASSUME NEW t \in Tools, Pin(t) PROVE Shrinks
    <2>1. ToSet(chain') \subseteq ToSet(chain) /\ InOrder(chain, chain')
      BY <1>3, <1>5 DEF Pin
    <2>2. /\ order' = order /\ arg' = arg
          /\ \A u \in Tools : pc'[u] = "new" => pc[u] = "new"
      BY <1>1, <1>5 DEF Pin
    <2>3. QED
      BY <2>1, <2>2 DEF Shrinks
  <1>6. ASSUME NEW t \in Tools, Kill(t) PROVE Shrinks
    <2>1. ToSet(chain') \subseteq ToSet(chain) /\ InOrder(chain, chain')
      BY <1>3, <1>6 DEF Kill
    <2>2. /\ order' = order /\ arg' = arg
          /\ \A u \in Tools : pc'[u] = "new" => pc[u] = "new"
      BY <1>1, <1>6 DEF Kill
    <2>3. QED
      BY <2>1, <2>2 DEF Shrinks
  <1>7. ASSUME NEW t \in Tools, NEW p \in Paths, Open(t, p) PROVE Shrinks
    <2>1. /\ chain' = chain /\ order' = order /\ pc[t] = "new"
          /\ arg' = [arg EXCEPT ![t].path = p]
          /\ pc' = [pc EXCEPT ![t] = IF pins[p] = None THEN "failed" ELSE "detach"]
      BY <1>7 DEF Open
    <2>2. \A u \in Tools : arg'[u].before = arg[u].before
      BY <1>1, <2>1 DEF Args
    <2>3. \A u \in Tools : pc'[u] = "new" => pc[u] = "new"
      BY <1>1, <2>1
    <2>4. QED
      BY <1>2, <2>1, <2>2, <2>3 DEF Shrinks
  <1>8. ASSUME NEW t \in Tools, DetachLink(t) PROVE Shrinks
    <2>1. /\ order' = order /\ arg' = arg
          /\ \A u \in Tools : pc'[u] = "new" => pc[u] = "new"
      BY <1>1, <1>8 DEF DetachLink
    <2>2. chain' = chain \/ chain' = Without(chain, fd[t])
      BY <1>8 DEF DetachLink
    <2>3. /\ ToSet(Without(chain, fd[t])) = ToSet(chain) \ {fd[t]}
          /\ InOrder(chain, Without(chain, fd[t]))
      BY <1>1, WithoutFacts, Zenon DEF Chain
    <2>4. ToSet(chain') \subseteq ToSet(chain) /\ InOrder(chain, chain')
      BY <1>2, <2>2, <2>3
    <2>5. QED
      BY <2>1, <2>4 DEF Shrinks
  <1>9. ASSUME NEW t \in Tools, Unlink(t) PROVE Shrinks
    <2>1. /\ order' = order /\ arg' = arg
          /\ \A u \in Tools : pc'[u] = "new" => pc[u] = "new"
      BY <1>1, <1>9 DEF Unlink
    <2> DEFINE c == Put(chain, fd[t], pins, fd')
    <2>2. chain' = Put(c, pins[arg[t].path], pins', fd')
      BY <1>9 DEF Unlink
    <2>3. Chain(c) /\ InOrder(chain, c) /\ ToSet(c) \subseteq ToSet(chain)
      BY <1>1, PutShrinks, Zenon
    <2> HIDE DEF c
    <2>4. InOrder(c, chain') /\ ToSet(chain') \subseteq ToSet(c)
      BY <2>2, <2>3, PutShrinks, Zenon
    <2>5. InOrder(chain, chain') /\ ToSet(chain') \subseteq ToSet(chain)
      BY <2>3, <2>4 DEF InOrder
    <2>6. QED
      BY <2>1, <2>5 DEF Shrinks
  <1>10. ASSUME NEW p \in Paths, RemovePin(p) PROVE Shrinks
    <2>1. /\ order' = order /\ arg' = arg /\ pc' = pc
          /\ chain' = Put(chain, pins[p], pins', fd)
      BY <1>10 DEF RemovePin
    <2>2. ToSet(chain') \subseteq ToSet(chain) /\ InOrder(chain, chain')
      BY <1>1, <2>1, PutShrinks, Zenon
    <2>3. QED
      BY <2>1, <2>2 DEF Shrinks
  <1>11. CASE UNCHANGED vars
    <2>1. order' = order /\ arg' = arg /\ pc' = pc /\ chain' = chain
      BY <1>11 DEF vars
    <2>2. QED
      BY <1>2, <2>1 DEF Shrinks
  <1>12. QED
    BY <1>4, <1>5, <1>6, <1>7, <1>8, <1>9, <1>10, <1>11, Zenon DEF Next

\* With the order of the chain, only a program that was put before a classifier
\* later can end the chain before it.
LEMMA OrderSees == Inv /\ OrderInv => ClassifierSees
  <1> SUFFICES ASSUME Inv, OrderInv, NEW i \in DOMAIN chain,
                      arg[chain[i]].before, ~(i <= Len(Prefix(ProgsOf(chain))))
               PROVE  \E j \in 1 .. (i - 1) :
                         /\ VerdictOf(arg[chain[j]].prog) = "OK"
                         /\ arg[chain[j]].before
                         /\ IndexIn(order, chain[j]) > IndexIn(order, chain[i])
    BY DEF ClassifierSees
  <1> DEFINE s == ProgsOf(chain)
  <1>1. /\ chain \in Seq(Tools) /\ \A t \in Tools : arg[t].prog \in Programs
    BY ProgsAssumption DEF Inv, TypeOK, Args
  <1>2. s \in Seq(Programs) /\ Len(s) = Len(chain) /\ DOMAIN chain = 1 .. Len(chain)
        /\ \A k \in DOMAIN chain : s[k] = arg[chain[k]].prog
    BY <1>1 DEF ProgsOf
  <1> HIDE DEF s
  <1>3. Len(chain) \in Nat /\ i \in 1 .. Len(chain)
    BY <1>1, <1>2
  <1>4. ~Passes(s)
    <2> SUFFICES ASSUME Passes(s) PROVE FALSE
      OBVIOUS
    <2>1. Prefix(s) = s
      BY <1>2, PrefixFacts
    <2>2. QED
      BY <1>2, <1>3, <2>1 DEF s
  <1>5. PICK j : FirstStop(s, j)
    BY <1>2, <1>4, PassesOrStops
  <1>6. j \in 1 .. Len(chain) /\ VerdictOf(s[j]) # "UNSPEC" /\ Prefix(s) = SubSeq(s, 1, j)
    BY <1>2, <1>5, PrefixFacts DEF FirstStop
  <1>7. Len(SubSeq(s, 1, j)) = j
    BY <1>2, <1>3, <1>6
  <1>8. ~(i <= j)
    BY <1>6, <1>7 DEF s
  <1>9. j \in 1 .. (i - 1) /\ j < i /\ j \in DOMAIN chain
    BY <1>2, <1>3, <1>6, <1>8
  <1>10. VerdictOf(arg[chain[j]].prog) = "OK"
    BY <1>2, <1>6, <1>9 DEF VerdictOf
  <1>11. Precedes(chain, chain[j], chain[i])
    BY <1>9 DEF Precedes
  <1>12. chain[i] \in ToSet(chain) /\ chain[j] \in ToSet(chain)
    BY <1>9 DEF ToSet
  <1>13. arg[chain[j]].before /\ IndexIn(order, chain[i]) < IndexIn(order, chain[j])
    BY <1>11, <1>12, Zenon DEF OrderInv, BeforeFirst
  <1>14. IndexIn(order, chain[j]) > IndexIn(order, chain[i])
    BY <1>13
  <1>15. QED
    BY <1>9, <1>10, <1>13, <1>14

\* For any number of tools, any legacy filters and any history of attaches and
\* detaches: the classifier hides no frame from any other program, and a
\* classifier attached with BEFORE is hidden only by a program that was put
\* before it later.
THEOREM NobodyHiddenSafe == Spec => []NobodyHidden
  <1>1. Init => OrderInv
    BY DEF Init, OrderInv, BeforeFirst, IsInjective, ToSet, Precedes
  <1>2. Inv /\ OrderInv /\ [Next]_vars => OrderInv'
    <2> SUFFICES ASSUME Inv, OrderInv, [Next]_vars PROVE OrderInv'
      OBVIOUS
    <2>1. CASE \E t \in Tools, a \in Args : Attach(t, a)
      BY <2>1, AttachOrder
    <2>2. CASE ~\E t \in Tools, a \in Args : Attach(t, a)
      BY <2>2, OtherStepsShrink, ShrinksOrder
    <2>3. QED
      BY <2>1, <2>2
  <1>3. Inv => Transparent
    <2> SUFFICES ASSUME Inv PROVE Transparent
      OBVIOUS
    <2>1. ProgsOf(chain) \in Seq(Programs)
      <3>1. chain \in Seq(Tools) /\ \A t \in Tools : arg[t].prog \in Programs
        BY ProgsAssumption DEF Inv, TypeOK, Args
      <3>2. QED
        BY <3>1 DEF ProgsOf
    <2>2. QED
      BY <2>1, OthersRun DEF Transparent
  <1>4. Inv /\ OrderInv => NobodyHidden
    BY <1>3, OrderSees DEF NobodyHidden
  <1>5. QED
    BY <1>1, <1>2, <1>4, InitInv, NextInv, PTL DEF Spec
=============================================================================
