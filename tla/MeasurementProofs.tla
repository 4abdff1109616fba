------------------------- MODULE MeasurementProofs -------------------------
(***************************************************************************)
(* Proofs about Measurement and LossSummary, for every number of packets   *)
(* and every order in which they arrive, are lost or are duplicated.       *)
(***************************************************************************)
EXTENDS Measurement, FiniteSetTheorems, SequenceTheorems, TLAPS

-----------------------------------------------------------------------------
(* Induction and recursion over the natural numbers, stated with sets and  *)
(* functions instead of operators.                                         *)

\* A set of natural numbers that is not empty has a least element.
LEMMA LeastNat ==
    ASSUME NEW T \in SUBSET Nat, T # {}
    PROVE  \E x \in T : \A y \in T : x <= y
  <1>1. IsWellFoundedOn(OpToRel(<, Nat), Nat)
    BY NatLessThanWellFounded, Zenon
  <1>2. PICK x \in T : \A y \in T : ~(<<y, x>> \in OpToRel(<, Nat))
    BY <1>1, WFMin, Zenon
  <1>3. \A y \in T : ~(y < x)
    BY <1>2 DEF OpToRel
  <1>4. QED
    BY <1>3

\* A set with 0 and every successor holds all natural numbers.
LEMMA SetInduction ==
    ASSUME NEW S, 0 \in S, \A n \in Nat : n \in S => n + 1 \in S
    PROVE  \A n \in Nat : n \in S
  <1> DEFINE T == {n \in Nat : n \notin S}
  <1>1. SUFFICES ASSUME T # {} PROVE FALSE
    OBVIOUS
  <1>2. PICK x \in T : \A y \in T : x <= y
    BY <1>1, LeastNat
  <1>3. x \in Nat /\ x # 0 /\ x \notin S
    OBVIOUS
  <1>4. x - 1 \in Nat /\ (x - 1) + 1 = x /\ ~(x <= x - 1)
    BY <1>3
  <1>5. x - 1 \in S
    BY <1>2, <1>4
  <1>6. QED
    BY <1>3, <1>4, <1>5

\* Rules for the steps 1 to n, and the functions that follow one from c.
Rules(V, n) == [V \X (1 .. n) -> V]
Follows(V, c, n, F) ==
    \E g \in [0 .. n -> V] :
        g[0] = c /\ \A i \in 1 .. n : g[i] = F[<<g[i - 1], i>>]

\* A value for 0 and a rule for the step from each number to the next define
\* a function.
LEMMA RecursiveFunction ==
    ASSUME NEW V, NEW c \in V, NEW n \in Nat, NEW F \in Rules(V, n)
    PROVE  Follows(V, c, n, F)
  <1> USE DEF Rules
  <1> DEFINE Upto(k) == \E g \in [0 .. k -> V] :
                           g[0] = c /\ \A i \in 1 .. k : g[i] = F[<<g[i - 1], i>>]
             S == {k \in Nat : k <= n => Upto(k)}
  <1>1. 0 \in S
    <2>1. [i \in 0 .. 0 |-> c] \in [0 .. 0 -> V]
      OBVIOUS
    <2>2. [i \in 0 .. 0 |-> c][0] = c /\ 1 .. 0 = {}
      OBVIOUS
    <2>3. QED
      BY <2>1, <2>2
  <1>2. ASSUME NEW k \in Nat, k \in S PROVE k + 1 \in S
    <2> SUFFICES ASSUME k + 1 <= n PROVE Upto(k + 1)
      BY <1>2
    <2>1. PICK g \in [0 .. k -> V] :
                 g[0] = c /\ \A i \in 1 .. k : g[i] = F[<<g[i - 1], i>>]
      BY <1>2
    <2>2. k \in 0 .. k /\ k + 1 \in 1 .. n /\ g[k] \in V
      OBVIOUS
    <2>3. F[<<g[k], k + 1>>] \in V
      BY <2>2
    <2> DEFINE h == [i \in 0 .. (k + 1) |-> IF i <= k THEN g[i] ELSE F[<<g[k], k + 1>>]]
    <2>4. h \in [0 .. (k + 1) -> V]
      BY <2>3
    <2>5. h[0] = c
      BY <2>1
    <2>6. ASSUME NEW i \in 1 .. (k + 1) PROVE h[i] = F[<<h[i - 1], i>>]
      <3>1. i - 1 \in 0 .. (k + 1) /\ i - 1 <= k /\ h[i - 1] = g[i - 1]
        OBVIOUS
      <3>2. CASE i <= k
        BY <2>1, <3>1, <3>2
      <3>3. CASE i = k + 1
        <4>1. i - 1 = k /\ ~(i <= k) /\ i \in 0 .. (k + 1)
          BY <3>3
        <4>2. QED
          BY <3>1, <3>3, <4>1
      <3>4. QED
        BY <3>2, <3>3
    <2>7. QED
      BY <2>4, <2>5, <2>6
  <1> HIDE DEF S, Upto
  <1>3. \A k \in Nat : k \in S
    BY <1>1, <1>2, SetInduction
  <1>4. Upto(n)
    BY <1>3 DEF S
  <1>5. QED
    BY <1>4 DEF Upto, Follows

-----------------------------------------------------------------------------
(* What the two loops over the rows compute *)

\* m is the largest of the first i numbers.
IsMax(q, i, m) == (\A j \in 1 .. i : q[j] <= m) /\ (\E j \in 1 .. i : q[j] = m)

\* The rows among the first n that a higher number overtook.
Late(q, n) == {k \in 1 .. n : \E j \in 1 .. (k - 1) : q[j] > q[k]}

\* One turn of the listener's loop, from the values g of the turns before.
ScanStep(q, g, i) ==
    IF i = 0 THEN [max_seen |-> -1, reorders |-> 0]
    ELSE IF q[i] < g[i - 1].max_seen
         THEN [max_seen |-> g[i - 1].max_seen, reorders |-> g[i - 1].reorders + 1]
         ELSE [max_seen |-> q[i], reorders |-> g[i - 1].reorders]

\* The listener's loop is its turns, one after the other.
LEMMA ScanDef ==
    ASSUME NEW q \in Seq(Nat)
    PROVE  scan(q) = [i \in 0 .. Len(q) |-> ScanStep(q, scan(q), i)]
  <1> DEFINE n == Len(q)
             V == [max_seen : Int, reorders : Nat]
             c == [max_seen |-> -1, reorders |-> 0]
             F == [x \in V \X (1 .. n) |->
                     IF q[x[2]] < x[1].max_seen
                     THEN [max_seen |-> x[1].max_seen, reorders |-> x[1].reorders + 1]
                     ELSE [max_seen |-> q[x[2]], reorders |-> x[1].reorders]]
             f == CHOOSE h : h = [i \in 0 .. Len(q) |-> ScanStep(q, h, i)]
  <1>1. n \in Nat /\ c \in V
    OBVIOUS
  <1>2. F \in Rules(V, n)
    <2>1. ASSUME NEW v \in V, NEW i \in 1 .. n
          PROVE  (IF q[i] < v.max_seen
                  THEN [max_seen |-> v.max_seen, reorders |-> v.reorders + 1]
                  ELSE [max_seen |-> q[i], reorders |-> v.reorders]) \in V
      <3>1. q[i] \in Nat /\ v.max_seen \in Int /\ v.reorders \in Nat
        OBVIOUS
      <3>2. QED
        BY <3>1
    <2>2. QED
      BY <2>1 DEF Rules
  <1>3. ASSUME NEW v \in V, NEW i \in 1 .. n
        PROVE  F[<<v, i>>] = IF q[i] < v.max_seen
                             THEN [max_seen |-> v.max_seen, reorders |-> v.reorders + 1]
                             ELSE [max_seen |-> q[i], reorders |-> v.reorders]
    OBVIOUS
  <1> HIDE DEF F, V
  <1>4. PICK g \in [0 .. n -> V] : g[0] = c /\ \A i \in 1 .. n : g[i] = F[<<g[i - 1], i>>]
    <2>1. Follows(V, c, n, F)
      <3> HIDE DEF n, c
      <3>1. QED
        BY <1>1, <1>2, RecursiveFunction, Zenon
    <2>2. QED
      BY <2>1 DEF Follows
  <1>5. ASSUME NEW i \in 0 .. n PROVE g[i] = ScanStep(q, g, i)
    <2>1. CASE i = 0
      BY <1>4, <2>1 DEF ScanStep
    <2>2. CASE i # 0
      <3>1. i \in 1 .. n /\ i - 1 \in 0 .. n
        BY <2>2
      <3>2. g[i - 1] \in V
        BY <3>1
      <3>3. QED
        BY <1>3, <1>4, <2>2, <3>1, <3>2 DEF ScanStep
    <2>3. QED
      BY <2>1, <2>2
  <1>6. g = [i \in 0 .. n |-> ScanStep(q, g, i)]
    BY <1>5
  <1>7. scan(q) = f
    BY DEF scan, ScanStep
  <1>8. f = [i \in 0 .. Len(q) |-> ScanStep(q, f, i)]
    BY <1>6
  <1>9. QED
    BY <1>7, <1>8

\* The late rows are among the rows, and one more row is late when the largest
\* number before it is higher.
LEMMA LateStep ==
    ASSUME NEW q \in Seq(Nat), NEW n \in Nat, n + 1 <= Len(q)
    PROVE  /\ IsFiniteSet(Late(q, n))
           /\ Cardinality(Late(q, n)) \in Nat
           /\ \A m \in Int : (n > 0 => IsMax(q, n, m)) /\ (n = 0 => m = -1) =>
                 Cardinality(Late(q, n + 1)) =
                    IF q[n + 1] < m THEN Cardinality(Late(q, n)) + 1
                                    ELSE Cardinality(Late(q, n))
  <1>1. Late(q, n) \subseteq 1 .. n
    BY DEF Late
  <1>2. IsFiniteSet(1 .. n)
    BY FS_Interval
  <1>3. IsFiniteSet(Late(q, n)) /\ Cardinality(Late(q, n)) \in Nat
    BY <1>1, <1>2, FS_Subset, FS_CardinalityType
  <1>4. SUFFICES ASSUME NEW m \in Int, n > 0 => IsMax(q, n, m), n = 0 => m = -1
                 PROVE  Cardinality(Late(q, n + 1)) =
                           IF q[n + 1] < m THEN Cardinality(Late(q, n)) + 1
                                           ELSE Cardinality(Late(q, n))
    BY <1>3
  <1>4b. /\ n + 1 \in 1 .. (n + 1) /\ n + 1 \notin 1 .. n
         /\ \A k : k \in 1 .. (n + 1) <=> k \in 1 .. n \/ k = n + 1
    OBVIOUS
  <1>4c. /\ Late(q, n) \subseteq Late(q, n + 1)
         /\ Late(q, n + 1) \subseteq Late(q, n) \cup {n + 1}
    BY <1>4b, Zenon DEF Late
  <1>5. n + 1 \in 1 .. Len(q) /\ q[n + 1] \in Nat /\ (n + 1) - 1 = n
    OBVIOUS
  <1>6. (\E j \in 1 .. n : q[j] > q[n + 1]) <=> q[n + 1] < m
    <2>1. CASE n = 0
      <3>1. 1 .. n = {} /\ ~(q[n + 1] < m)
        BY <1>4, <1>5, <2>1
      <3>2. QED
        BY <3>1
    <2>2. CASE n # 0
      <3>1. (\A j \in 1 .. n : q[j] <= m) /\ (\E j \in 1 .. n : q[j] = m)
        BY <1>4, <2>2 DEF IsMax
      <3>2. \A j \in 1 .. n : q[j] \in Nat
        OBVIOUS
      <3>3. QED
        BY <1>5, <3>1, <3>2
    <2>3. QED
      BY <2>1, <2>2
  <1>7. CASE q[n + 1] < m
    <2>1. Late(q, n + 1) = Late(q, n) \cup {n + 1}
      <3>1. n + 1 \in Late(q, n + 1)
        BY <1>4b, <1>5, <1>6, <1>7 DEF Late
      <3>2. QED
        BY <1>4c, <3>1
    <2>2. n + 1 \notin Late(q, n)
      BY <1>1
    <2>3. QED
      BY <1>3, <1>7, <2>1, <2>2, FS_AddElement
  <1>8. CASE ~(q[n + 1] < m)
    <2>1. Late(q, n + 1) = Late(q, n)
      <3>1. n + 1 \notin Late(q, n + 1)
        BY <1>4b, <1>5, <1>6, <1>8 DEF Late
      <3>2. QED
        BY <1>1, <1>4c, <3>1
    <2>2. QED
      BY <1>8, <2>1
  <1>9. QED
    BY <1>7, <1>8

\* After any number of turns the listener holds the largest number so far and
\* has counted exactly the rows that a higher number overtook.
LEMMA ScanCorrect ==
    ASSUME NEW q \in Seq(Nat), NEW n \in 0 .. Len(q)
    PROVE  /\ scan(q)[n].reorders = Cardinality(Late(q, n))
           /\ scan(q)[n].max_seen \in Int
           /\ n = 0 => scan(q)[n].max_seen = -1
           /\ n > 0 => IsMax(q, n, scan(q)[n].max_seen)
  <1> DEFINE g == scan(q)
             P(k) == /\ g[k].reorders = Cardinality(Late(q, k))
                     /\ g[k].max_seen \in Int
                     /\ k = 0 => g[k].max_seen = -1
                     /\ k > 0 => IsMax(q, k, g[k].max_seen)
             S == {k \in Nat : k <= Len(q) => P(k)}
  <1>0. Len(q) \in Nat
    OBVIOUS
  <1>1. ASSUME NEW k \in 0 .. Len(q) PROVE g[k] = ScanStep(q, g, k)
    <2>1. g = [i \in 0 .. Len(q) |-> ScanStep(q, g, i)]
      BY ScanDef
    <2> HIDE DEF g
    <2>2. QED
      BY <2>1
  <1> HIDE DEF g
  <1>2. 0 \in S
    <2>1. Late(q, 0) = {}
      BY DEF Late
    <2>2. g[0] = [max_seen |-> -1, reorders |-> 0]
      <3>1. 0 \in 0 .. Len(q)
        BY <1>0
      <3>2. g[0] = ScanStep(q, g, 0)
        BY <1>1, <3>1
      <3>3. ScanStep(q, g, 0) = [max_seen |-> -1, reorders |-> 0]
        BY Zenon DEF ScanStep
      <3>4. QED
        BY <3>2, <3>3, Zenon
    <2>3. Cardinality({}) = 0
      BY FS_EmptySet
    <2>4. g[0].max_seen = -1 /\ g[0].reorders = 0 /\ -1 \in Int
      BY <2>2
    <2>5. P(0)
      <3>1. g[0].reorders = Cardinality(Late(q, 0))
        BY <2>1, <2>3, <2>4, Zenon
      <3>2. g[0].max_seen \in Int /\ ~(0 > 0)
        BY <2>4
      <3>3. QED
        BY <2>4, <3>1, <3>2, Zenon
    <2>6. QED
      BY <2>5
  <1>3. ASSUME NEW k \in Nat, k \in S PROVE k + 1 \in S
    <2> SUFFICES ASSUME k + 1 <= Len(q) PROVE P(k + 1)
      BY <1>3
    <2>1. P(k)
      BY <1>0, <1>3
    <2>2. k + 1 \in 0 .. Len(q) /\ k + 1 # 0 /\ (k + 1) - 1 = k /\ k + 1 \in 1 .. Len(q)
      BY <1>0
    <2>3. q[k + 1] \in Nat
      BY <2>2
    <2>4. g[k + 1] = IF q[k + 1] < g[k].max_seen
                     THEN [max_seen |-> g[k].max_seen, reorders |-> g[k].reorders + 1]
                     ELSE [max_seen |-> q[k + 1], reorders |-> g[k].reorders]
      BY <1>1, <2>2 DEF ScanStep
    <2>5. Cardinality(Late(q, k + 1)) =
             IF q[k + 1] < g[k].max_seen THEN Cardinality(Late(q, k)) + 1
                                         ELSE Cardinality(Late(q, k))
      BY <2>1, LateStep
    <2>6. g[k + 1].reorders = Cardinality(Late(q, k + 1))
      BY <2>1, <2>4, <2>5
    <2>7. g[k + 1].max_seen =
             IF q[k + 1] < g[k].max_seen THEN g[k].max_seen ELSE q[k + 1]
      BY <2>4
    <2>8. \A j \in 1 .. Len(q) : q[j] \in Nat
      OBVIOUS
    <2>9. IsMax(q, k + 1, g[k + 1].max_seen)
      <3>1. CASE k = 0
        BY <2>1, <2>3, <2>7, <3>1 DEF IsMax
      <3>2. CASE k > 0
        <4> DEFINE old == g[k].max_seen
                   new == g[k + 1].max_seen
        <4>1. old \in Int /\ (\A j \in 1 .. k : q[j] <= old) /\ (\E j \in 1 .. k : q[j] = old)
          BY <2>1, <3>2 DEF IsMax
        <4>2. new = IF q[k + 1] < old THEN old ELSE q[k + 1]
          BY <2>7
        <4>3. \A j \in 1 .. k : q[j] \in Nat /\ j \in 1 .. (k + 1)
          BY <1>0, <2>8
        <4>4. k + 1 \in 1 .. (k + 1) /\ \A j \in 1 .. (k + 1) : j = k + 1 \/ j \in 1 .. k
          OBVIOUS
        <4> HIDE DEF old, new
        <4>5. new \in Int /\ old <= new /\ q[k + 1] <= new
          BY <2>3, <4>1, <4>2
        <4>6. ASSUME NEW j \in 1 .. (k + 1) PROVE q[j] <= new
          <5>1. CASE j = k + 1
            BY <4>5, <5>1
          <5>2. CASE j \in 1 .. k
            <6>1. q[j] <= old /\ q[j] \in Int
              BY <4>1, <4>3, <5>2
            <6>2. QED
              BY <4>1, <4>5, <6>1
          <5>3. QED
            BY <4>4, <5>1, <5>2
        <4>7. \E j \in 1 .. (k + 1) : q[j] = new
          BY <4>1, <4>2, <4>3, <4>4, Zenon
        <4>8. QED
          BY <4>6, <4>7 DEF IsMax, new
      <3>3. QED
        BY <3>1, <3>2
    <2>10. QED
      BY <2>1, <2>3, <2>6, <2>7, <2>9
  <1>4. \A k \in Nat : k \in S
    <2> HIDE DEF S
    <2>1. QED
      BY <1>2, <1>3, SetInduction
  <1>5. P(n)
    BY <1>0, <1>4
  <1>6. QED
    BY <1>5 DEF g

\* One value of the running maximum, from the values g before it.
MaxStep(q, g, i) == IF i = 1 \/ q[i] > g[i - 1] THEN q[i] ELSE g[i - 1]

\* The running maximum is its steps, one after the other.
LEMMA RunningMaxDef ==
    ASSUME NEW q \in Seq(Nat)
    PROVE  running_max(q) = [i \in 1 .. Len(q) |-> MaxStep(q, running_max(q), i)]
  <1> DEFINE n == Len(q)
             F == [x \in Nat \X (1 .. n) |->
                     IF x[2] = 1 \/ q[x[2]] > x[1] THEN q[x[2]] ELSE x[1]]
             f == CHOOSE h : h = [i \in 1 .. Len(q) |-> MaxStep(q, h, i)]
  <1>1. n \in Nat /\ 0 \in Nat
    OBVIOUS
  <1>2. F \in Rules(Nat, n)
    BY DEF Rules
  <1>3. ASSUME NEW v \in Nat, NEW i \in 1 .. n
        PROVE  F[<<v, i>>] = IF i = 1 \/ q[i] > v THEN q[i] ELSE v
    OBVIOUS
  <1> HIDE DEF F
  <1>4. PICK g \in [0 .. n -> Nat] : g[0] = 0 /\ \A i \in 1 .. n : g[i] = F[<<g[i - 1], i>>]
    <2>1. Follows(Nat, 0, n, F)
      <3> HIDE DEF n
      <3>1. QED
        BY <1>1, <1>2, RecursiveFunction, Zenon
    <2>2. QED
      BY <2>1 DEF Follows
  <1> DEFINE h == [i \in 1 .. n |-> g[i]]
  <1>5. ASSUME NEW i \in 1 .. n PROVE h[i] = MaxStep(q, h, i)
    <2>1. i - 1 \in 0 .. n /\ g[i - 1] \in Nat
      <3>1. i - 1 \in 0 .. n
        BY <1>1
      <3> HIDE DEF n
      <3>2. QED
        BY <3>1
    <2>2. h[i] = IF i = 1 \/ q[i] > g[i - 1] THEN q[i] ELSE g[i - 1]
      BY <1>3, <1>4, <2>1
    <2>3. CASE i = 1
      BY <2>2, <2>3 DEF MaxStep
    <2>4. CASE i # 1
      <3>1. h[i - 1] = g[i - 1]
        BY <2>4
      <3>2. QED
        BY <2>2, <2>4, <3>1 DEF MaxStep
    <2>5. QED
      BY <2>3, <2>4
  <1>6. h = [i \in 1 .. n |-> MaxStep(q, h, i)]
    <2>1. h = [i \in 1 .. n |-> h[i]]
      OBVIOUS
    <2> HIDE DEF h
    <2>2. QED
      BY <1>5, <2>1
  <1>7. running_max(q) = f
    BY DEF running_max, MaxStep
  <1>8. f = [i \in 1 .. Len(q) |-> MaxStep(q, f, i)]
    <2> HIDE DEF h
    <2>1. QED
      BY <1>6
  <1>9. QED
    BY <1>7, <1>8

\* The running maximum at each row is the largest number so far.
LEMMA RunningMaxCorrect ==
    ASSUME NEW q \in Seq(Nat), NEW n \in 1 .. Len(q)
    PROVE  running_max(q)[n] \in Nat /\ IsMax(q, n, running_max(q)[n])
  <1> DEFINE g == running_max(q)
             P(k) == g[k] \in Nat /\ IsMax(q, k, g[k])
             S == {k \in Nat : k + 1 <= Len(q) => P(k + 1)}
  <1>0. Len(q) \in Nat
    OBVIOUS
  <1>1. ASSUME NEW k \in 1 .. Len(q) PROVE g[k] = MaxStep(q, g, k)
    <2>1. g = [i \in 1 .. Len(q) |-> MaxStep(q, g, i)]
      BY RunningMaxDef
    <2> HIDE DEF g
    <2>2. QED
      BY <2>1
  <1> HIDE DEF g
  <1>2. \A j \in 1 .. Len(q) : q[j] \in Nat
    OBVIOUS
  <1>3. 0 \in S
    <2> SUFFICES ASSUME 1 <= Len(q) PROVE P(1)
      OBVIOUS
    <2>1. g[1] = q[1]
      BY <1>0, <1>1 DEF MaxStep
    <2>2. QED
      BY <1>0, <1>2, <2>1 DEF IsMax
  <1>4. ASSUME NEW k \in Nat, k \in S PROVE k + 1 \in S
    <2> SUFFICES ASSUME (k + 1) + 1 <= Len(q) PROVE P((k + 1) + 1)
      BY <1>4
    <2> DEFINE m == k + 1
    <2>1. m \in Nat /\ m >= 1 /\ m + 1 \in 1 .. Len(q) /\ m + 1 # 1 /\ (m + 1) - 1 = m
      BY <1>0
    <2>2. P(m)
      BY <1>0, <1>4
    <2> HIDE DEF m
    <2>3. g[m + 1] = IF q[m + 1] > g[m] THEN q[m + 1] ELSE g[m]
      BY <1>1, <2>1 DEF MaxStep
    <2>4. q[m + 1] \in Nat
      BY <1>2, <2>1
    <2>5. P(m + 1)
      <3>1. \A j \in 1 .. (m + 1) : j = m + 1 \/ j \in 1 .. m
        BY <2>1
      <3>2. g[m] \in Nat /\ (\A j \in 1 .. m : q[j] <= g[m]) /\ (\E j \in 1 .. m : q[j] = g[m])
        BY <2>2 DEF IsMax
      <3>3. \A j \in 1 .. m : q[j] \in Nat /\ j \in 1 .. (m + 1)
        BY <1>0, <1>2, <2>1
      <3>4. m + 1 \in 1 .. (m + 1)
        BY <2>1
      <3>5. ASSUME NEW j \in 1 .. (m + 1) PROVE q[j] <= g[m + 1]
        <4>1. g[m] <= g[m + 1] /\ q[m + 1] <= g[m + 1] /\ g[m + 1] \in Nat
          <5>1. g[m] \in Nat
            BY <3>2
          <5>2. CASE q[m + 1] > g[m]
            <6>1. g[m + 1] = q[m + 1]
              BY <2>3, <5>2
            <6>2. QED
              BY <2>4, <5>1, <5>2, <6>1
          <5>3. CASE ~(q[m + 1] > g[m])
            <6>1. g[m + 1] = g[m]
              BY <2>3, <5>3
            <6>2. QED
              BY <2>4, <5>1, <5>3, <6>1
          <5>4. QED
            BY <5>2, <5>3
        <4>2. CASE j = m + 1
          BY <4>1, <4>2
        <4>3. CASE j \in 1 .. m
          <5>1. q[j] <= g[m] /\ q[j] \in Nat
            BY <3>2, <3>3, <4>3, Zenon
          <5>2. g[m] \in Nat
            BY <3>2, Zenon
          <5>3. QED
            BY <4>1, <5>1, <5>2
        <4>4. QED
          BY <3>1, <4>2, <4>3
      <3>6. \E j \in 1 .. (m + 1) : q[j] = g[m + 1]
        BY <2>3, <3>2, <3>3, <3>4
      <3>7. g[m + 1] \in Nat
        BY <2>3, <2>4, <3>2
      <3>8. QED
        BY <3>5, <3>6, <3>7 DEF IsMax
    <2>6. QED
      BY <2>5 DEF m
  <1>5. \A k \in Nat : k \in S
    <2> HIDE DEF S
    <2>1. QED
      BY <1>3, <1>4, SetInduction
  <1>6. n - 1 \in Nat /\ (n - 1) + 1 = n /\ n <= Len(q)
    BY <1>0
  <1>7. P(n)
    <2>1. n - 1 \in S
      BY <1>5, <1>6
    <2>2. QED
      BY <1>6, <2>1
  <1>8. QED
    BY <1>7 DEF g

\* The first rows of a list have one largest number.
LEMMA MaxUnique ==
    ASSUME NEW q \in Seq(Nat), NEW i \in 1 .. Len(q), NEW a, NEW b,
           IsMax(q, i, a), IsMax(q, i, b)
    PROVE  a = b
  <1>1. \A j \in 1 .. i : q[j] \in Nat
    OBVIOUS
  <1>2. QED
    BY <1>1 DEF IsMax

\* The number of packets the listener expects is one more than the largest
\* number it recorded.
LEMMA ExpectedMax ==
    ASSUME NEW q \in Seq(Nat), q # <<>>
    PROVE  /\ Expected(q) \in Nat /\ Expected(q) - 1 \in Nat
           /\ IsMax(q, Len(q), Expected(q) - 1)
           /\ Expected(q) = running_max(q)[Len(q)] + 1
  <1> DEFINE n == Len(q)
             top == running_max(q)[n]
             D == DOMAIN q
             m == CHOOSE i \in D : \A j \in D : q[j] <= q[i]
  <1>1. n \in 1 .. n /\ D = 1 .. n /\ n \in 1 .. Len(q)
    OBVIOUS
  <1>2. top \in Nat /\ IsMax(q, n, top)
    BY <1>1, RunningMaxCorrect
  <1>3. \E i \in D : \A j \in D : q[j] <= q[i]
    BY <1>1, <1>2 DEF IsMax
  <1>4. m \in D /\ \A j \in D : q[j] <= q[m]
    BY <1>3
  <1>5. Expected(q) = q[m] + 1
    BY DEF Expected
  <1> HIDE DEF m, top
  <1>6. q[m] \in Nat
    BY <1>1, <1>4
  <1>7. IsMax(q, n, q[m])
    BY <1>1, <1>4 DEF IsMax
  <1>8. q[m] = top
    BY <1>1, <1>2, <1>7, MaxUnique
  <1>9. Expected(q) - 1 = q[m]
    BY <1>5, <1>6
  <1>10. QED
    BY <1>5, <1>6, <1>7, <1>8, <1>9 DEF top

\* The listener counts every row that a higher number overtook.
LEMMA ReordersCounted ==
    ASSUME NEW q \in Seq(Nat)
    PROVE  Reorders(q) = Cardinality(Late(q, Len(q)))
  <1>1. Len(q) \in 0 .. Len(q)
    OBVIOUS
  <1>2. QED
    BY <1>1, ScanCorrect DEF Reorders

\* On the same rows, the recomputation of metrics.py gives the listener's own
\* summary.
LEMMA SummariesEqual ==
    ASSUME NEW q \in Seq(Nat), q # <<>>
    PROVE  loss_summary(q) = ListenerSummary(q)
  <1> DEFINE acc == running_max(q)
             L == {i \in 2 .. Len(q) : q[i] < acc[i - 1]}
  <1>1. \A j \in 1 .. Len(q) : q[j] \in Nat
    OBVIOUS
  <1>2. ASSUME NEW i \in 2 .. Len(q)
        PROVE  q[i] < acc[i - 1] <=> \E j \in 1 .. (i - 1) : q[j] > q[i]
    <2>1. i - 1 \in 1 .. Len(q) /\ q[i] \in Nat
      OBVIOUS
    <2>2. acc[i - 1] \in Nat /\ IsMax(q, i - 1, acc[i - 1])
      BY <2>1, RunningMaxCorrect
    <2> HIDE DEF acc
    <2>3. \A j \in 1 .. (i - 1) : q[j] \in Nat
      BY <1>1
    <2>4. PICK m \in Nat : m = acc[i - 1]
      BY <2>2
    <2>5. (\A j \in 1 .. (i - 1) : q[j] <= m) /\ (\E j \in 1 .. (i - 1) : q[j] = m)
      BY <2>2, <2>4 DEF IsMax
    <2>6. q[i] < m => \E j \in 1 .. (i - 1) : q[j] > q[i]
      BY <2>1, <2>5
    <2>7. ASSUME NEW j \in 1 .. (i - 1), q[j] > q[i] PROVE q[i] < m
      <3>1. q[j] <= m /\ q[j] \in Nat
        BY <2>3, <2>5
      <3>2. QED
        BY <2>1, <2>7, <3>1
    <2>8. QED
      BY <2>4, <2>6, <2>7
  <1>3. L = Late(q, Len(q))
    <2>1. \A i \in 1 .. Len(q) : i \notin 2 .. Len(q) => 1 .. (i - 1) = {}
      OBVIOUS
    <2>2. 2 .. Len(q) \subseteq 1 .. Len(q)
      OBVIOUS
    <2> HIDE DEF acc
    <2>3. QED
      BY <1>2, <2>1, <2>2 DEF Late
  <1>4. Reorders(q) = Cardinality(L)
    BY <1>3, ReordersCounted
  <1>5. Expected(q) = acc[Len(q)] + 1
    BY ExpectedMax
  <1> DEFINE Rec(e, r) == [expected   |-> e,
                           lost       |-> e - Unique(q),
                           duplicates |-> Len(q) - Unique(q),
                           reorders   |-> r]
  <1>6. loss_summary(q) = Rec(acc[Len(q)] + 1, Cardinality(L))
    BY Zenon DEF loss_summary
  <1>7. ListenerSummary(q) = Rec(Expected(q), Reorders(q))
    BY Zenon DEF ListenerSummary
  <1> HIDE DEF acc, L, Rec
  <1>8. QED
    BY <1>4, <1>5, <1>6, <1>7, Zenon

\* The loss the listener computes is the number of packets among those used so
\* far that are missing although a later one is there.
LEMMA LossCounted ==
    ASSUME NEW n \in Nat, NEW q \in Seq(0 .. (n - 1)), q # <<>>
    PROVE  LET R == {q[i] : i \in DOMAIN q}
           IN  Expected(q) - Unique(q) =
                 Cardinality({s \in (0 .. (n - 1)) \ R : \E r \in R : r > s})
  <1> DEFINE R == {q[i] : i \in DOMAIN q}
             E == Expected(q)
             Missing == {s \in (0 .. (n - 1)) \ R : \E r \in R : r > s}
  <1>1. DOMAIN q = 1 .. Len(q) /\ \A j \in 1 .. Len(q) : q[j] \in 0 .. (n - 1)
    OBVIOUS
  <1>2. q \in Seq(Nat)
    BY <1>1
  <1>3. E \in Nat /\ E - 1 \in Nat /\ IsMax(q, Len(q), E - 1)
    BY <1>2, ExpectedMax
  <1> HIDE DEF E
  <1>4. E - 1 \in R /\ \A r \in R : r \in 0 .. (n - 1) /\ r <= E - 1
    BY <1>1, <1>3 DEF IsMax
  <1>5. R \subseteq 0 .. (E - 1)
    BY <1>3, <1>4
  <1>6. Missing = (0 .. (E - 1)) \ R
    <2> HIDE DEF R
    <2>1. ASSUME NEW s \in Missing PROVE s \in 0 .. (E - 1) /\ s \notin R
      BY <1>3, <1>4
    <2>2. ASSUME NEW s \in 0 .. (E - 1), s \notin R PROVE s \in Missing
      <3>1. s # E - 1 /\ s < E - 1 /\ s \in 0 .. (n - 1)
        BY <1>3, <1>4, <2>2
      <3>2. QED
        BY <1>3, <1>4, <2>2, <3>1
    <2>3. QED
      BY <2>1, <2>2
  <1>7. IsFiniteSet(0 .. (E - 1)) /\ Cardinality(0 .. (E - 1)) = E
    BY <1>3, FS_Interval
  <1>8. IsFiniteSet(R) /\ Cardinality(R) \in Nat
    <2> HIDE DEF R
    <2>1. QED
      BY <1>5, <1>7, FS_Subset, FS_CardinalityType
  <1>9. Cardinality((0 .. (E - 1)) \ R) = E - Cardinality(R)
    <2> HIDE DEF R
    <2>1. (0 .. (E - 1)) \cap R = R
      BY <1>5
    <2>2. Cardinality((0 .. (E - 1)) \ R) =
            Cardinality(0 .. (E - 1)) - Cardinality((0 .. (E - 1)) \cap R)
      BY <1>7, FS_Difference, Zenon
    <2>3. QED
      BY <1>7, <2>1, <2>2, Zenon
  <1>10. Unique(q) = Cardinality(R)
    BY DEF Unique
  <1>11. QED
    BY <1>6, <1>9, <1>10 DEF E

-----------------------------------------------------------------------------
(* The measurement *)

\* Only packets the talker has sent are on their way.
NetInv == \A s \in SeqNos : net[s] > 0 => s < seq

\* A loop that ended without a row was interrupted.
ClosingInv == listener \in {"closing", "done"} /\ results = <<>> => interrupted

\* The CSV and the summary are written from the rows at the end, after which
\* no row is added.
CsvInv ==
    csv # <<>> =>
        csv = results /\ summary = ListenerSummary(results) /\ listener = "done"

Inv == TypeOK /\ NetInv /\ ClosingInv /\ CsvInv

\* What the actions and the invariant say about types, in one place.
LEMMA AttemptedGrows ==
    ASSUME NEW a \in Nat, NEW b \in Nat, a <= b
    PROVE  /\ 0 .. (a - 1) \subseteq 0 .. (b - 1)
           /\ \A q : q \in Seq(0 .. (a - 1)) => q \in Seq(0 .. (b - 1))
           /\ \A q : q \in Seq((0 .. (a - 1)) \cup {Runt}) =>
                      q \in Seq((0 .. (b - 1)) \cup {Runt})
  <1>1. 0 .. (a - 1) \subseteq 0 .. (b - 1)
    OBVIOUS
  <1>2. ASSUME NEW S, NEW T, S \subseteq T, NEW q \in Seq(S) PROVE q \in Seq(T)
    BY <1>2
  <1>3. (0 .. (a - 1)) \cup {Runt} \subseteq (0 .. (b - 1)) \cup {Runt}
    BY <1>1
  <1>4. QED
    BY <1>1, <1>2, <1>3, Zenon

\* A datagram put into the socket's queue leaves the queue well formed.
LEMMA EnqueueType ==
    ASSUME TypeOK, NEW d \in Attempted \cup {Runt}
    PROVE  Enqueue(d) \in Seq(Attempted \cup {Runt}) /\ Len(Enqueue(d)) <= RcvBuf
  <1>1. rcvq \in Seq(Attempted \cup {Runt}) /\ Len(rcvq) <= RcvBuf
    BY DEF TypeOK
  <1>2. RcvBuf \in Nat /\ Len(rcvq) \in Nat
    BY <1>1, MeasurementAssumption
  <1>3. CASE Bound /\ Len(rcvq) < RcvBuf
    BY <1>1, <1>2, <1>3 DEF Enqueue
  <1>4. CASE ~(Bound /\ Len(rcvq) < RcvBuf)
    BY <1>1, <1>4 DEF Enqueue
  <1>5. QED
    BY <1>3, <1>4

\* The program starts in the invariant.
LEMMA InitInv == Init => Inv
  <1> SUFFICES ASSUME Init PROVE Inv
    OBVIOUS
  <1>1. seq \in 0 .. Count /\ dups \in 0 .. MaxDups /\ runts \in 0 .. MaxRunts
    BY MeasurementAssumption DEF Init
  <1>2. net \in [SeqNos -> Nat] /\ talker \in {"run", "done"}
    BY DEF Init
  <1>3. rcvq \in Seq(Attempted \cup {Runt}) /\ Len(rcvq) <= RcvBuf
    BY MeasurementAssumption DEF Init
  <1>4. results \in Seq(Attempted) /\ csv \in Seq(Attempted)
    BY DEF Init
  <1>5. interrupted \in BOOLEAN /\ listener \in {"start", "recv", "closing", "done"}
    BY DEF Init
  <1>6. TypeOK
    BY <1>1, <1>2, <1>3, <1>4, <1>5, Zenon DEF TypeOK
  <1>7. NetInv
    BY DEF Init, NetInv
  <1>8. ClosingInv /\ CsvInv
    BY DEF Init, ClosingInv, CsvInv
  <1>9. QED
    BY <1>6, <1>7, <1>8 DEF Inv

\* A step of the talker keeps the invariant: the packet it puts on its way has
\* a number below the next one.
LEMMA TalkerInv == Inv /\ (TalkerSend \/ TalkerSendFails \/ TalkerStop) => Inv'
  <1> SUFFICES ASSUME Inv, TalkerSend \/ TalkerSendFails \/ TalkerStop PROVE Inv'
    OBVIOUS
  <1>1. TypeOK /\ NetInv /\ ClosingInv /\ CsvInv
    BY DEF Inv
  <1>2. /\ seq \in 0 .. Count /\ seq \in Nat /\ Count \in Nat
        /\ talker \in {"run", "done"} /\ net \in [SeqNos -> Nat]
        /\ dups \in 0 .. MaxDups /\ runts \in 0 .. MaxRunts
    BY <1>1, MeasurementAssumption DEF TypeOK
  <1>3. UNCHANGED <<dups, runts, rcvq, listener, results, interrupted, summary, csv>>
    BY DEF TalkerSend, TalkerSendFails, TalkerStop, netVars, listenerVars
  <1>4. /\ seq' \in 0 .. Count /\ seq' \in Nat /\ seq <= seq'
        /\ talker' \in {"run", "done"}
    BY <1>2 DEF TalkerSend, TalkerSendFails, TalkerStop
  <1>5. net' \in [SeqNos -> Nat] /\ NetInv'
    <2>1. CASE TalkerSend
      BY <1>1, <1>2, <2>1 DEF TalkerSend, NetInv, SeqNos
    <2>2. CASE TalkerSendFails \/ TalkerStop
      BY <1>1, <1>2, <2>2 DEF TalkerSendFails, TalkerStop, netVars, NetInv, SeqNos
    <2>3. QED
      BY <2>1, <2>2
  <1>6. /\ rcvq' \in Seq(Attempted' \cup {Runt})
        /\ results' \in Seq(Attempted') /\ csv' \in Seq(Attempted')
    <2>1. /\ rcvq \in Seq((0 .. (seq - 1)) \cup {Runt})
          /\ results \in Seq(0 .. (seq - 1)) /\ csv \in Seq(0 .. (seq - 1))
      BY <1>1 DEF TypeOK, Attempted
    <2>2. /\ rcvq \in Seq((0 .. (seq' - 1)) \cup {Runt})
          /\ results \in Seq(0 .. (seq' - 1)) /\ csv \in Seq(0 .. (seq' - 1))
      BY <1>2, <1>4, <2>1, AttemptedGrows, Zenon
    <2>3. QED
      BY <1>3, <2>2, Zenon DEF Attempted
  <1>7. Runt' = Runt /\ SeqNos' = SeqNos
    BY DEF Runt, SeqNos
  <1>8. /\ Len(rcvq') <= RcvBuf /\ interrupted' \in BOOLEAN
        /\ listener' \in {"start", "recv", "closing", "done"}
    BY <1>1, <1>3, Zenon DEF TypeOK
  <1>9. dups' \in 0 .. MaxDups /\ runts' \in 0 .. MaxRunts
    BY <1>2, <1>3
  <1>10. TypeOK'
    BY <1>4, <1>5, <1>6, <1>7, <1>8, <1>9, Zenon DEF TypeOK
  <1>11. ClosingInv' /\ CsvInv'
    BY <1>1, <1>3, Zenon DEF ClosingInv, CsvInv
  <1>12. QED
    BY <1>5, <1>10, <1>11 DEF Inv

\* A step of the network keeps the invariant: it delivers, loses and duplicates
\* only packets that are on their way.
LEMMA NetworkInv ==
    Inv /\ ((\E s \in SeqNos : Drop(s) \/ Duplicate(s) \/ Deliver(s)) \/ DeliverRunt)
        => Inv'
  <1> SUFFICES ASSUME Inv,
                      (\E s \in SeqNos : Drop(s) \/ Duplicate(s) \/ Deliver(s)) \/ DeliverRunt
               PROVE  Inv'
    OBVIOUS
  <1>1. TypeOK /\ NetInv /\ ClosingInv /\ CsvInv
    BY DEF Inv
  <1>2. /\ seq \in 0 .. Count /\ seq \in Nat /\ net \in [SeqNos -> Nat]
        /\ dups \in 0 .. MaxDups /\ runts \in 0 .. MaxRunts
        /\ MaxDups \in Nat /\ MaxRunts \in Nat
    BY <1>1, MeasurementAssumption DEF TypeOK
  <1>3. UNCHANGED <<seq, talker, listener, results, interrupted, summary, csv>>
    BY DEF Drop, Duplicate, Deliver, DeliverRunt, talkerVars, listenerVars
  <1>4. net' \in [SeqNos -> Nat] /\ NetInv'
    <2>1. CASE DeliverRunt
      BY <1>1, <1>2, <2>1 DEF DeliverRunt, NetInv, talkerVars
    <2>2. ASSUME NEW s \in SeqNos, Drop(s) \/ Duplicate(s) \/ Deliver(s)
          PROVE  net' \in [SeqNos -> Nat] /\ NetInv'
      <3>1. s \in Int /\ net[s] \in Nat /\ net[s] > 0 /\ s < seq
        BY <1>1, <1>2, <2>2 DEF Drop, Duplicate, Deliver, NetInv, SeqNos
      <3>2. PICK k \in Nat : net' = [net EXCEPT ![s] = k]
        <4>1. net[s] - 1 \in Nat /\ net[s] + 1 \in Nat
          BY <3>1
        <4>2. net' = [net EXCEPT ![s] = net[s] - 1] \/ net' = [net EXCEPT ![s] = net[s] + 1]
          BY <2>2 DEF Drop, Duplicate, Deliver
        <4>3. QED
          BY <4>1, <4>2
      <3>3. net' \in [SeqNos -> Nat]
        BY <1>2, <3>2
      <3>4. \A r \in SeqNos : net'[r] > 0 => r < seq
        BY <1>1, <1>2, <3>1, <3>2 DEF NetInv
      <3>5. QED
        BY <1>3, <3>3, <3>4 DEF NetInv
    <2>3. QED
      BY <2>1, <2>2
  <1>5. dups' \in 0 .. MaxDups /\ runts' \in 0 .. MaxRunts
    BY <1>2 DEF Drop, Duplicate, Deliver, DeliverRunt
  <1>6. rcvq' \in Seq(Attempted \cup {Runt}) /\ Len(rcvq') <= RcvBuf
    <2>1. CASE DeliverRunt
      <3>1. rcvq' = Enqueue(Runt) /\ Runt \in Attempted \cup {Runt}
        BY <2>1 DEF DeliverRunt
      <3>2. QED
        BY <1>1, <3>1, EnqueueType, Zenon
    <2>2. ASSUME NEW s \in SeqNos, Deliver(s)
          PROVE  rcvq' \in Seq(Attempted \cup {Runt}) /\ Len(rcvq') <= RcvBuf
      <3>1. rcvq' = Enqueue(s)
        BY <2>2 DEF Deliver
      <3>2. s \in Attempted
        BY <1>1, <1>2, <2>2 DEF Deliver, NetInv, Attempted, SeqNos
      <3>3. QED
        BY <1>1, <3>1, <3>2, EnqueueType, Zenon
    <2>3. ASSUME NEW s \in SeqNos, Drop(s) \/ Duplicate(s) PROVE rcvq' = rcvq
      BY <2>3 DEF Drop, Duplicate
    <2>4. rcvq \in Seq(Attempted \cup {Runt}) /\ Len(rcvq) <= RcvBuf
      BY <1>1 DEF TypeOK
    <2>5. QED
      BY <2>1, <2>2, <2>3, <2>4, Zenon
  <1>7. Attempted' = Attempted
    BY <1>3 DEF Attempted
  <1>8. TypeOK'
    <2>1. seq' \in 0 .. Count /\ talker' \in {"run", "done"}
      BY <1>1, <1>3, Zenon DEF TypeOK
    <2>2. /\ results' \in Seq(Attempted) /\ csv' \in Seq(Attempted)
          /\ interrupted' \in BOOLEAN
          /\ listener' \in {"start", "recv", "closing", "done"}
      BY <1>1, <1>3, Zenon DEF TypeOK
    <2>3. QED
      BY <1>4, <1>5, <1>6, <1>7, <2>1, <2>2, Zenon DEF TypeOK, SeqNos, Runt
  <1>9. ClosingInv' /\ CsvInv'
    BY <1>1, <1>3, Zenon DEF ClosingInv, CsvInv
  <1>10. QED
    BY <1>4, <1>8, <1>9 DEF Inv

\* A step of the listener keeps the invariant: only the end writes, and it
\* writes the rows as they then are.
LEMMA ListenerInv == Inv /\ (Bind \/ Recv \/ Timeout \/ Interrupt \/ Finish) => Inv'
  <1> SUFFICES ASSUME Inv, Bind \/ Recv \/ Timeout \/ Interrupt \/ Finish PROVE Inv'
    OBVIOUS
  <1>1. TypeOK /\ NetInv /\ ClosingInv /\ CsvInv
    BY DEF Inv
  <1>2. UNCHANGED <<seq, talker, net, dups, runts>>
    BY DEF Bind, Recv, Timeout, Interrupt, Finish, talkerVars, netVars
  <1>3. Attempted' = Attempted /\ SeqNos' = SeqNos /\ Runt' = Runt
    BY <1>2 DEF Attempted, SeqNos, Runt
  <1>4. NetInv'
    BY <1>1, <1>2, Zenon DEF NetInv, SeqNos
  <1>5. /\ seq' \in 0 .. Count /\ talker' \in {"run", "done"}
        /\ net' \in [SeqNos -> Nat] /\ dups' \in 0 .. MaxDups /\ runts' \in 0 .. MaxRunts
    BY <1>1, <1>2, Zenon DEF TypeOK
  <1>6. /\ rcvq \in Seq(Attempted \cup {Runt}) /\ Len(rcvq) <= RcvBuf
        /\ results \in Seq(Attempted) /\ csv \in Seq(Attempted)
        /\ interrupted \in BOOLEAN /\ RcvBuf \in Nat
    BY <1>1, MeasurementAssumption DEF TypeOK
  <1>7. listener' \in {"start", "recv", "closing", "done"}
    BY <1>1 DEF TypeOK, Bind, Recv, Timeout, Interrupt, Finish
  <1>8. interrupted' \in BOOLEAN
    BY <1>6, Zenon DEF Bind, Recv, Timeout, Interrupt, Finish
  <1>9. rcvq' \in Seq(Attempted \cup {Runt}) /\ Len(rcvq') <= RcvBuf
    <2>1. CASE Recv
      <3>1. rcvq # <<>> /\ rcvq' = Tail(rcvq)
        BY <2>1 DEF Recv
      <3>2. Tail(rcvq) \in Seq(Attempted \cup {Runt}) /\ Len(Tail(rcvq)) <= RcvBuf
        BY <1>6, <3>1
      <3>3. QED
        BY <3>1, <3>2
    <2>2. CASE Finish
      BY <1>6, <2>2 DEF Finish
    <2>3. CASE Bind \/ Timeout \/ Interrupt
      BY <1>6, <2>3 DEF Bind, Timeout, Interrupt
    <2>4. QED
      BY <2>1, <2>2, <2>3
  <1>10. results' \in Seq(Attempted)
    <2>1. CASE Recv
      <3>1. /\ rcvq # <<>>
            /\ results' = IF Head(rcvq) = Runt THEN results ELSE Append(results, Head(rcvq))
        BY <2>1 DEF Recv
      <3>2. Head(rcvq) \in Attempted \cup {Runt}
        BY <1>6, <3>1
      <3>3. CASE Head(rcvq) = Runt
        BY <1>6, <3>1, <3>3
      <3>4. CASE Head(rcvq) # Runt
        BY <1>6, <3>1, <3>2, <3>4
      <3>5. QED
        BY <3>3, <3>4
    <2>2. CASE Bind \/ Timeout \/ Interrupt \/ Finish
      BY <1>6, <2>2 DEF Bind, Timeout, Interrupt, Finish
    <2>3. QED
      BY <2>1, <2>2
  <1>11. csv' \in Seq(Attempted)
    BY <1>6, Zenon DEF Bind, Recv, Timeout, Interrupt, Finish
  <1>12. TypeOK'
    BY <1>3, <1>5, <1>7, <1>8, <1>9, <1>10, <1>11, Zenon DEF TypeOK
  <1>13. ClosingInv'
    <2>1. CASE Bind \/ Recv
      BY <2>1 DEF Bind, Recv, ClosingInv
    <2>2. CASE Timeout
      BY <2>2 DEF Timeout, ClosingInv
    <2>3. CASE Interrupt
      BY <2>3 DEF Interrupt, ClosingInv
    <2>4. CASE Finish
      <3>1. results' = results /\ interrupted' = interrupted /\ listener = "closing"
        BY <2>4 DEF Finish
      <3>2. QED
        BY <1>1, <3>1, Zenon DEF ClosingInv
    <2>5. QED
      BY <2>1, <2>2, <2>3, <2>4
  <1>14. CsvInv'
    <2>1. CASE Bind \/ Recv \/ Timeout \/ Interrupt
      <3>1. csv' = csv /\ listener # "done"
        BY <2>1 DEF Bind, Recv, Timeout, Interrupt
      <3>2. csv = <<>>
        BY <1>1, <3>1 DEF CsvInv
      <3>3. QED
        BY <3>1, <3>2 DEF CsvInv
    <2>2. CASE Finish
      <3>1. listener = "closing" /\ listener' = "done" /\ results' = results
        BY <2>2 DEF Finish
      <3>2. csv = <<>>
        BY <1>1, <3>1 DEF CsvInv
      <3>3. CASE results = <<>>
        BY <2>2, <3>2, <3>3 DEF Finish, CsvInv
      <3>4. CASE results # <<>>
        <4>1. summary' = ListenerSummary(results) /\ csv' = results
          BY <2>2, <3>4 DEF Finish
        <4>2. QED
          BY <3>1, <4>1, Zenon DEF CsvInv
      <3>5. QED
        BY <3>3, <3>4
    <2>3. QED
      BY <2>1, <2>2
  <1>15. QED
    BY <1>4, <1>12, <1>13, <1>14 DEF Inv

\* Every step keeps the invariant.
LEMMA NextInv == Inv /\ [Next]_vars => Inv'
  <1> SUFFICES ASSUME Inv, [Next]_vars PROVE Inv'
    OBVIOUS
  <1>1. CASE UNCHANGED vars
    <2>1. UNCHANGED <<seq, talker, net, dups, runts, rcvq>>
      BY <1>1 DEF vars, talkerVars, netVars
    <2>2. UNCHANGED <<listener, results, interrupted, summary, csv>>
      BY <1>1 DEF vars, listenerVars
    <2>3. TypeOK'
      BY <2>1, <2>2, Zenon DEF Inv, TypeOK, Attempted, SeqNos, Runt
    <2>4. NetInv'
      BY <2>1, Zenon DEF Inv, NetInv, SeqNos
    <2>5. ClosingInv' /\ CsvInv'
      BY <2>2, Zenon DEF Inv, ClosingInv, CsvInv
    <2>6. QED
      BY <2>3, <2>4, <2>5 DEF Inv
  <1>2. CASE TalkerSend \/ TalkerSendFails \/ TalkerStop
    BY <1>2, TalkerInv
  <1>3. CASE (\E s \in SeqNos : Drop(s) \/ Duplicate(s) \/ Deliver(s)) \/ DeliverRunt
    BY <1>3, NetworkInv, Zenon
  <1>4. CASE Bind \/ Recv \/ Timeout \/ Interrupt \/ Finish
    BY <1>4, ListenerInv
  <1>5. QED
    BY <1>1, <1>2, <1>3, <1>4, Zenon DEF Next

\* What the invariant says of the summary: the losses and the late rows the
\* listener reports are those that happened.
LEMMA InvExact == Inv => SummaryExact
  <1> SUFFICES ASSUME Inv PROVE SummaryExact
    OBVIOUS
  <1>1. TypeOK
    BY DEF Inv
  <1>2. seq \in Nat /\ results \in Seq(0 .. (seq - 1))
    BY <1>1, MeasurementAssumption DEF TypeOK, Attempted
  <1>3. ASSUME csv # <<>>
        PROVE  results # <<>> /\ summary = ListenerSummary(results)
    BY <1>3 DEF Inv, CsvInv
  <1>4. LossExact
    <2> SUFFICES ASSUME csv # <<>>
                 PROVE  summary.lost =
                          Cardinality({s \in Attempted \ Recorded : \E r \in Recorded : r > s})
      BY DEF LossExact
    <2>1. summary.lost = Expected(results) - Unique(results)
      BY <1>3 DEF ListenerSummary
    <2>2. Expected(results) - Unique(results) =
             LET R == {results[i] : i \in DOMAIN results}
             IN  Cardinality({s \in (0 .. (seq - 1)) \ R : \E r \in R : r > s})
      BY <1>2, <1>3, LossCounted
    <2>3. QED
      BY <2>1, <2>2, Zenon DEF Attempted, Recorded
  <1>5. ReordersExact
    <2> SUFFICES ASSUME csv # <<>>
                 PROVE  summary.reorders =
                          Cardinality({i \in DOMAIN results :
                                         \E j \in 1 .. (i - 1) : results[j] > results[i]})
      BY DEF ReordersExact
    <2>1. summary.reorders = Reorders(results)
      BY <1>3 DEF ListenerSummary
    <2>2. results \in Seq(Nat) /\ DOMAIN results = 1 .. Len(results)
      BY <1>2
    <2>3. Reorders(results) = Cardinality(Late(results, Len(results)))
      BY <2>2, ReordersCounted
    <2>4. QED
      BY <2>1, <2>2, <2>3, Zenon DEF Late
  <1>6. QED
    BY <1>1, <1>4, <1>5 DEF SummaryExact

\* The invariant holds in every state of every behaviour.
LEMMA InvSafe == Spec => []Inv
  BY InitInv, NextInv, PTL DEF Spec

\* Whatever the network loses, duplicates and reorders, and whenever the
\* listener times out or is interrupted, the losses it prints are exactly the
\* packets of the talker missing before the last one recorded, and the reorders
\* exactly the rows a higher number overtook (listener.py, the summary at the
\* end of main), for every number of packets and every size of the socket.
THEOREM SummaryExactSafe == Spec => []SummaryExact
  BY InvSafe, InvExact, PTL

\* loss_summary() of metrics.py, on the CSV, always says what the listener
\* printed.
THEOREM SummariesAgreeSafe == Spec => []SummariesAgree
  <1>1. Inv => SummariesAgree
    <2> SUFFICES ASSUME Inv, csv # <<>> PROVE loss_summary(csv) = summary
      BY DEF SummariesAgree
    <2>1. csv = results /\ summary = ListenerSummary(results)
      BY DEF Inv, CsvInv
    <2>2. results \in Seq(Nat)
      BY DEF Inv, TypeOK, Attempted
    <2>3. QED
      BY <2>1, <2>2, SummariesEqual
  <1>2. QED
    BY <1>1, InvSafe, PTL

\* A listener that ends without a row was interrupted (the `if results` test of
\* the timeout in listener.py).
THEOREM WaitsForFirstSafe == Spec => []WaitsForFirst
  <1>1. Inv => WaitsForFirst
    BY DEF Inv, ClosingInv, WaitsForFirst
  <1>2. QED
    BY <1>1, InvSafe, PTL
=============================================================================
