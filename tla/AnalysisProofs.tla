--------------------------- MODULE AnalysisProofs ---------------------------
(***************************************************************************)
(* Proofs about tsn-analysis.  First Comparison, with the statistics of    *)
(* SampleStats, for every pair of samples, statistic, number of resamples, *)
(* chunk size and confidence level.  Then Analysis, for every results      *)
(* directory and command line: from the files to the samples, from the     *)
(* samples to the report, from the report to the output.                   *)
(***************************************************************************)
EXTENDS Comparison, Analysis, FiniteSetTheorems, SequenceTheorems, TLAPS

-----------------------------------------------------------------------------
(* Induction over the natural numbers, stated with a set *)

\* A set with 0 and every successor holds all natural numbers.
LEMMA SetInduction ==
    ASSUME NEW S, 0 \in S, \A n \in Nat : n \in S => n + 1 \in S
    PROVE  \A n \in Nat : n \in S
<1>. DEFINE T == {n \in Nat : n \notin S}
<1>. SUFFICES ASSUME T # {} PROVE FALSE
  OBVIOUS
<1>1. IsWellFoundedOn(OpToRel(<, Nat), Nat)
  BY NatLessThanWellFounded, Zenon
<1>2. T \subseteq Nat
  OBVIOUS
<1>. HIDE DEF T
<1>3. PICK m \in T : \A n \in T : ~(<<n, m>> \in OpToRel(<, Nat))
  BY <1>1, <1>2, WFMin, Zenon
<1>. USE DEF T
<1>4. \A n \in T : ~(n < m)
  BY <1>3 DEF OpToRel
<1>5. m \in Nat /\ m # 0 /\ m \notin S
  OBVIOUS
<1>6. m - 1 \in Nat /\ (m - 1) + 1 = m /\ m - 1 < m
  BY <1>5
<1>7. m - 1 \in S
  BY <1>4, <1>6
<1>. QED BY <1>5, <1>6, <1>7

-----------------------------------------------------------------------------
(* Order statistics: what sorted() and numpy.searchsorted() return *)

\* How many values of a sample are at most v, and below v.
AtMost(y, v) == Cardinality({i \in DOMAIN y : y[i] <= v})
Below(y, v) == Cardinality({i \in DOMAIN y : y[i] < v})

\* The first n places are n.
LEMMA FirstPlaces ==
    ASSUME NEW n \in Nat
    PROVE  IsFiniteSet(1 .. n) /\ Cardinality(1 .. n) = n
<1>1. /\ IsFiniteSet(1 .. n)
      /\ Cardinality(1 .. n) = IF 1 > n THEN 0 ELSE n - 1 + 1
  BY FS_Interval
<1>. QED BY <1>1

\* A sample that is not empty has a first place.
LEMMA NotEmpty ==
    ASSUME NEW y \in Seq(Int), y # <<>>
    PROVE  Len(y) \in Nat \ {0} /\ 1 \in DOMAIN y /\ DOMAIN y = 1 .. Len(y)
<1>1. Len(y) # 0
  BY EmptySeq
<1>2. Len(y) \in Nat /\ DOMAIN y = 1 .. Len(y)
  OBVIOUS
<1>. QED BY <1>1, <1>2

\* Places of a sample are finitely many.
LEMMA Places ==
    ASSUME NEW y \in Seq(Int), NEW T \in SUBSET DOMAIN y
    PROVE  /\ DOMAIN y = 1 .. Len(y) /\ Len(y) \in Nat /\ IsFiniteSet(DOMAIN y)
           /\ IsFiniteSet(T) /\ Cardinality(T) \in 0 .. Len(y)
           /\ Cardinality(T) = Len(y) => T = DOMAIN y
<1>1. DOMAIN y = 1 .. Len(y) /\ Len(y) \in Nat
  OBVIOUS
<1>2. IsFiniteSet(1 .. Len(y)) /\ Cardinality(1 .. Len(y)) = Len(y)
  BY <1>1, FirstPlaces
<1>3. IsFiniteSet(T) /\ Cardinality(T) <= Len(y)
      /\ (Len(y) = Cardinality(T) => DOMAIN y = T)
  BY <1>1, <1>2, FS_Subset
<1>4. Cardinality(T) \in Nat
  BY <1>3, FS_CardinalityType
<1>. QED BY <1>1, <1>2, <1>3, <1>4

\* Counts are between none and all.
LEMMA Counts ==
    ASSUME NEW y \in Seq(Int), NEW v \in Int
    PROVE  /\ AtMost(y, v) \in Nat /\ AtMost(y, v) <= Len(y)
           /\ Below(y, v) \in Nat /\ Below(y, v) <= Len(y)
<1>1. AtMost(y, v) \in 0 .. Len(y) /\ Below(y, v) \in 0 .. Len(y) /\ Len(y) \in Nat
  BY Places DEF AtMost, Below
<1>. QED BY <1>1

\* Over the integers, "below v" is "at most v - 1".
LEMMA BelowAtMost ==
    ASSUME NEW y \in Seq(Int), NEW v \in Int
    PROVE  Below(y, v) = AtMost(y, v - 1)
<1>1. {i \in DOMAIN y : y[i] < v} = {i \in DOMAIN y : y[i] <= v - 1}
  OBVIOUS
<1>. QED BY <1>1 DEF AtMost, Below

\* Counts grow with the value.
LEMMA CountsGrow ==
    ASSUME NEW y \in Seq(Int), NEW u \in Int, NEW v \in Int, u <= v
    PROVE  AtMost(y, u) <= AtMost(y, v)
<1>. DEFINE T(t) == {i \in DOMAIN y : y[i] <= t}
<1>1. IsFiniteSet(T(v))
  BY Places
<1>2. T(u) \in SUBSET T(v)
  OBVIOUS
<1>3. Cardinality(T(u)) <= Cardinality(T(v))
  BY <1>1, <1>2, FS_Subset
<1>. QED BY <1>3 DEF AtMost

\* Among places that are not none, one holds the highest value and one the
\* lowest.
LEMMA Extremes ==
    ASSUME NEW y \in Seq(Int), NEW T \in SUBSET DOMAIN y, T # {}
    PROVE  /\ \E i \in T : \A j \in T : y[j] <= y[i]
           /\ \E i \in T : \A j \in T : y[i] <= y[j]
<1>. DEFINE P(U) == /\ \E i \in U : \A j \in U : y[j] <= y[i]
                    /\ \E i \in U : \A j \in U : y[i] <= y[j]
            S == {n \in Nat : \A U \in SUBSET DOMAIN y : U # {} /\ U \subseteq 1 .. n => P(U)}
<1>0. DOMAIN y = 1 .. Len(y) /\ Len(y) \in Nat
  OBVIOUS
<1>1. 0 \in S
  OBVIOUS
<1>2. ASSUME NEW n \in Nat, n \in S PROVE n + 1 \in S
  <2>. HIDE DEF P
  <2>. SUFFICES ASSUME NEW U \in SUBSET DOMAIN y, U # {}, U \subseteq 1 .. (n + 1)
                PROVE  P(U)
    OBVIOUS
  <2>. USE DEF P
  <2>1. CASE n + 1 \notin U
    <3>1. U \subseteq 1 .. n
      BY <2>1
    <3>. QED BY <1>2, <3>1
  <2>2. CASE U = {n + 1}
    <3>1. y[n + 1] \in Int
      BY <1>0, <2>2
    <3>. QED BY <2>2, <3>1
  <2>3. CASE n + 1 \in U /\ U # {n + 1}
    <3>. DEFINE V == U \ {n + 1}
    <3>1. V \in SUBSET DOMAIN y /\ V # {} /\ V \subseteq 1 .. n
      BY <2>3
    <3>2. P(V)
      BY <1>2, <3>1
    <3>3. \A j \in U : y[j] \in Int /\ (j \in V \/ j = n + 1)
      BY <1>0
    <3>4. \E i \in U : \A j \in U : y[j] <= y[i]
      <4>1. PICK i \in V : \A j \in V : y[j] <= y[i]
        BY <3>2
      <4>2. CASE y[n + 1] <= y[i]
        BY <3>3, <4>1, <4>2
      <4>3. CASE y[i] <= y[n + 1]
        <5>1. ASSUME NEW j \in U PROVE y[j] <= y[n + 1]
          <6>1. y[n + 1] \in Int /\ y[j] \in Int /\ y[i] \in Int
            BY <2>3, <3>3
          <6>2. CASE j = n + 1
            BY <6>1, <6>2
          <6>3. CASE j \in V
            <7>1. y[j] <= y[i] /\ y[i] <= y[n + 1]
              BY <4>1, <4>3, <6>3
            <7>. QED BY <6>1, <7>1
          <6>. QED BY <3>3, <6>2, <6>3
        <5>. QED BY <2>3, <5>1
      <4>. QED BY <2>3, <3>3, <4>2, <4>3
    <3>5. \E i \in U : \A j \in U : y[i] <= y[j]
      <4>1. PICK i \in V : \A j \in V : y[i] <= y[j]
        BY <3>2
      <4>2. CASE y[i] <= y[n + 1]
        BY <3>3, <4>1, <4>2
      <4>3. CASE y[n + 1] <= y[i]
        <5>1. ASSUME NEW j \in U PROVE y[n + 1] <= y[j]
          <6>1. y[n + 1] \in Int /\ y[j] \in Int /\ y[i] \in Int
            BY <2>3, <3>3
          <6>2. CASE j = n + 1
            BY <6>1, <6>2
          <6>3. CASE j \in V
            <7>1. y[n + 1] <= y[i] /\ y[i] <= y[j]
              BY <4>1, <4>3, <6>3
            <7>. QED BY <6>1, <7>1
          <6>. QED BY <3>3, <6>2, <6>3
        <5>. QED BY <2>3, <5>1
      <4>. QED BY <2>3, <3>3, <4>2, <4>3
    <3>. QED BY <3>4, <3>5
  <2>. QED BY <2>1, <2>2, <2>3
<1>. HIDE DEF S
<1>3. \A n \in Nat : n \in S
  BY <1>1, <1>2, SetInduction
<1>. QED BY <1>0, <1>3 DEF S

\* Min and Max of a sample that is not empty are values of it.
LEMMA MinMax ==
    ASSUME NEW y \in Seq(Int), y # <<>>
    PROVE  /\ Min(Range(y)) \in Range(y) /\ Max(Range(y)) \in Range(y)
           /\ Min(Range(y)) \in Int /\ Max(Range(y)) \in Int
           /\ \A i \in DOMAIN y : Min(Range(y)) <= y[i] /\ y[i] <= Max(Range(y))
<1>1. DOMAIN y # {} /\ DOMAIN y \in SUBSET DOMAIN y
  BY NotEmpty
<1>2. /\ \E i \in DOMAIN y : \A j \in DOMAIN y : y[j] <= y[i]
      /\ \E i \in DOMAIN y : \A j \in DOMAIN y : y[i] <= y[j]
  BY <1>1, Extremes
<1>3. Range(y) = {y[i] : i \in DOMAIN y}
  BY DEF Range
<1>4. /\ \E v \in Range(y) : \A w \in Range(y) : v >= w
      /\ \E v \in Range(y) : \A w \in Range(y) : v =< w
  <2>1. PICK i \in DOMAIN y : \A j \in DOMAIN y : y[j] <= y[i]
    BY <1>2
  <2>2. PICK k \in DOMAIN y : \A j \in DOMAIN y : y[k] <= y[j]
    BY <1>2
  <2>3. y[i] \in Range(y) /\ \A w \in Range(y) : w <= y[i] /\ w \in Int /\ y[i] \in Int
    BY <1>3, <2>1
  <2>4. y[k] \in Range(y) /\ \A w \in Range(y) : y[k] =< w
    BY <1>3, <2>2
  <2>5. \A w \in Range(y) : y[i] >= w
    BY <2>3
  <2>. QED BY <2>3, <2>4, <2>5
<1>5. Min(Range(y)) \in Range(y) /\ \A w \in Range(y) : Min(Range(y)) =< w
  BY <1>4 DEF Min
<1>6. Max(Range(y)) \in Range(y) /\ \A w \in Range(y) : Max(Range(y)) >= w
  BY <1>4 DEF Max
<1>7. \A i \in DOMAIN y : y[i] \in Range(y) /\ y[i] \in Int
  BY <1>3
<1>8. Range(y) \subseteq Int
  BY <1>3, <1>7
<1>. QED BY <1>5, <1>6, <1>7, <1>8

\* For every place there is a value that belongs there.
LEMMA PlaceTaken ==
    ASSUME NEW y \in Seq(Int), NEW k \in 1 .. Len(y)
    PROVE  \E v \in Range(y) : Below(y, v) < k /\ AtMost(y, v) >= k
<1>0. /\ DOMAIN y = 1 .. Len(y) /\ Len(y) \in Nat /\ DOMAIN y # {}
      /\ \A i \in DOMAIN y : y[i] \in Int /\ y[i] \in Range(y)
  <2>1. DOMAIN y = 1 .. Len(y) /\ Len(y) \in Nat
    OBVIOUS
  <2>2. DOMAIN y # {}
    BY <2>1
  <2>3. \A i \in DOMAIN y : y[i] \in Int
    BY <2>1
  <2>4. \A i \in DOMAIN y : y[i] \in Range(y)
    BY Zenon DEF Range
  <2>. QED BY <2>1, <2>2, <2>3, <2>4
<1>. DEFINE T == {i \in DOMAIN y : AtMost(y, y[i]) >= k}
<1>1. T # {}
  <2>1. PICK i \in DOMAIN y : \A j \in DOMAIN y : y[j] <= y[i]
    BY <1>0, Extremes
  <2>2. {j \in DOMAIN y : y[j] <= y[i]} = 1 .. Len(y)
    BY <1>0, <2>1
  <2>3. AtMost(y, y[i]) = Cardinality(1 .. Len(y))
    BY <2>2 DEF AtMost
  <2>4. Cardinality(1 .. Len(y)) = Len(y)
    BY <1>0, FirstPlaces
  <2>. QED BY <1>0, <2>3, <2>4
<1>2. PICK i \in T : \A j \in T : y[i] <= y[j]
  <2>1. T \in SUBSET DOMAIN y
    OBVIOUS
  <2>. HIDE DEF T
  <2>. QED BY <1>1, <2>1, Extremes
<1>3. y[i] \in Int /\ i \in DOMAIN y /\ AtMost(y, y[i]) >= k
  BY <1>0, <1>2
<1>4. SUFFICES ASSUME Below(y, y[i]) >= k PROVE FALSE
  <2>1. Below(y, y[i]) \in Int
    BY <1>3, Counts
  <2>. QED BY <1>0, <1>3, <2>1
<1>. DEFINE U == {j \in DOMAIN y : y[j] < y[i]}
<1>5. U # {}
  <2>1. Cardinality(U) # 0
    BY <1>4 DEF Below
  <2>2. Cardinality({}) = 0
    BY FS_EmptySet
  <2>. HIDE DEF U
  <2>. QED BY <2>1, <2>2
<1>6. PICK h \in U : \A j \in U : y[j] <= y[h]
  <2>1. U \in SUBSET DOMAIN y
    OBVIOUS
  <2>. HIDE DEF U
  <2>. QED BY <1>5, <2>1, Extremes
<1>7. {j \in DOMAIN y : y[j] <= y[h]} = U
  BY <1>0, <1>3, <1>6
<1>8. AtMost(y, y[h]) >= k /\ y[h] < y[i]
  BY <1>4, <1>7 DEF AtMost, Below
<1>9. h \in T
  BY <1>8
<1>. QED BY <1>0, <1>2, <1>3, <1>8, <1>9

\* sorted() returns a sequence of as many values of the sample, each where it
\* belongs.
LEMMA SortedPlaces ==
    ASSUME NEW y \in Seq(Int)
    PROVE  /\ sorted(y) \in Seq(Int) /\ Len(sorted(y)) = Len(y)
           /\ \A k \in 1 .. Len(y) :
                /\ sorted(y)[k] \in Range(y) /\ sorted(y)[k] \in Int
                /\ Below(y, sorted(y)[k]) < k /\ AtMost(y, sorted(y)[k]) >= k
<1>0. Len(y) \in Nat
  OBVIOUS
<1>1. ASSUME NEW k \in 1 .. Len(y)
      PROVE  /\ sorted(y)[k] \in Range(y)
             /\ Below(y, sorted(y)[k]) < k /\ AtMost(y, sorted(y)[k]) >= k
  <2>1. sorted(y)[k] = CHOOSE v \in Range(y) : Below(y, v) < k /\ AtMost(y, v) >= k
    BY DEF sorted, Below, AtMost
  <2>2. \E v \in Range(y) : Below(y, v) < k /\ AtMost(y, v) >= k
    BY PlaceTaken
  <2>. QED BY <2>1, <2>2
<1>2. Range(y) \subseteq Int
  BY DEF Range
<1>3. sorted(y) \in [1 .. Len(y) -> Int]
  <2>. DEFINE F(k) == CHOOSE v \in Range(y) :
                /\ Cardinality({i \in DOMAIN y : y[i] < v}) < k
                /\ Cardinality({i \in DOMAIN y : y[i] <= v}) >= k
  <2>0. sorted(y) = [k \in 1 .. Len(y) |-> F(k)]
    BY DEF sorted
  <2>. HIDE DEF F
  <2>1. sorted(y) = [k \in 1 .. Len(y) |-> sorted(y)[k]]
    BY <2>0
  <2>2. \A k \in 1 .. Len(y) : sorted(y)[k] \in Int
    BY <1>1, <1>2
  <2>. HIDE DEF sorted
  <2>. QED BY <2>1, <2>2
<1>. HIDE DEF sorted
<1>4. sorted(y) \in Seq(Int) /\ Len(sorted(y)) = Len(y)
  <2>1. PICK s : s = sorted(y)
    OBVIOUS
  <2>2. s \in [1 .. Len(y) -> Int]
    BY <1>3, <2>1
  <2>3. s \in Seq(Int) /\ Len(s) = Len(y)
    BY <1>0, <2>2, SeqDef
  <2>. QED BY <2>1, <2>3
<1>. QED BY <1>1, <1>2, <1>4

\* The k-th value is at most v exactly when at least k values are.
LEMMA SortedCounts ==
    ASSUME NEW y \in Seq(Int), NEW k \in 1 .. Len(y), NEW v \in Int
    PROVE  /\ sorted(y)[k] <= v <=> k <= AtMost(y, v)
           /\ sorted(y)[k] < v <=> k <= Below(y, v)
<1>1. PICK w \in Int : w = sorted(y)[k]
  BY SortedPlaces
<1>2. Below(y, w) < k /\ AtMost(y, w) >= k /\ k \in Int
  BY <1>1, SortedPlaces
<1>3. ASSUME NEW u \in Int PROVE w <= u <=> k <= AtMost(y, u)
  <2>1. AtMost(y, u) \in Int /\ AtMost(y, w) \in Int /\ Below(y, w) = AtMost(y, w - 1)
        /\ w - 1 \in Int /\ AtMost(y, w - 1) \in Int
    <3>1. PICK t \in Int : t = w - 1
      OBVIOUS
    <3>2. AtMost(y, t) \in Nat /\ AtMost(y, u) \in Nat /\ AtMost(y, w) \in Nat
      BY Counts
    <3>3. Below(y, w) = AtMost(y, w - 1)
      BY BelowAtMost
    <3>. QED BY <3>1, <3>2, <3>3
  <2>2. w <= u => AtMost(y, w) <= AtMost(y, u)
    BY CountsGrow
  <2>3. u <= w - 1 => AtMost(y, u) <= AtMost(y, w - 1)
    BY <2>1, CountsGrow
  <2>. QED BY <1>2, <2>1, <2>2, <2>3
<1>4. Below(y, v) = AtMost(y, v - 1) /\ v - 1 \in Int
  BY BelowAtMost
<1>5. w <= v - 1 <=> k <= AtMost(y, v - 1)
  BY <1>3, <1>4
<1>. QED BY <1>1, <1>3, <1>4, <1>5

\* sorted() is ascending, from the lowest value to the highest.
LEMMA SortedAscends ==
    ASSUME NEW y \in Seq(Int), y # <<>>
    PROVE  /\ \A k, l \in 1 .. Len(y) : k <= l => sorted(y)[k] <= sorted(y)[l]
           /\ sorted(y)[1] = Min(Range(y)) /\ sorted(y)[Len(y)] = Max(Range(y))
<1>0. Len(y) \in Nat \ {0} /\ DOMAIN y = 1 .. Len(y)
      /\ 1 \in 1 .. Len(y) /\ Len(y) \in 1 .. Len(y)
  BY NotEmpty
<1>1. ASSUME NEW k \in 1 .. Len(y), NEW l \in 1 .. Len(y), k <= l
      PROVE  sorted(y)[k] <= sorted(y)[l]
  <2>1. PICK w \in Int : w = sorted(y)[l]
    BY SortedPlaces
  <2>2. AtMost(y, w) >= l /\ AtMost(y, w) \in Nat
    <3>1. AtMost(y, w) \in Nat
      BY Counts
    <3>. QED BY <2>1, <3>1, SortedPlaces
  <2>3. k <= AtMost(y, w)
    BY <1>1, <2>2
  <2>. QED BY <2>1, <2>3, SortedCounts
<1>2. /\ Min(Range(y)) \in Int /\ Max(Range(y)) \in Int
      /\ \A v \in Range(y) : Min(Range(y)) <= v /\ v <= Max(Range(y))
  BY MinMax DEF Range
<1>3. sorted(y)[1] = Min(Range(y))
  <2>1. PICK v \in Int : v = Min(Range(y)) /\ v \in Range(y)
    BY MinMax
  <2>2. PICK i \in DOMAIN y : y[i] = v
    BY <2>1 DEF Range
  <2>3. AtMost(y, v) # 0
    <3>1. i \in {j \in DOMAIN y : y[j] <= v}
      BY <2>2
    <3>2. IsFiniteSet({j \in DOMAIN y : y[j] <= v})
      BY Places
    <3>. QED BY <3>1, <3>2, FS_EmptySet DEF AtMost
  <2>4. 1 <= AtMost(y, v)
    BY <2>3, Counts
  <2>5. sorted(y)[1] <= v
    BY <1>0, <2>4, SortedCounts
  <2>6. sorted(y)[1] \in Range(y) /\ sorted(y)[1] \in Int
    BY <1>0, SortedPlaces
  <2>. QED BY <1>2, <2>1, <2>5, <2>6
<1>4. sorted(y)[Len(y)] = Max(Range(y))
  <2>1. PICK w \in Int : w = sorted(y)[Len(y)] /\ w \in Range(y) /\ AtMost(y, w) >= Len(y)
    BY <1>0, SortedPlaces
  <2>2. AtMost(y, w) = Len(y)
    <3>1. AtMost(y, w) \in Nat /\ AtMost(y, w) <= Len(y)
      BY Counts
    <3>. QED BY <1>0, <2>1, <3>1
  <2>3. {j \in DOMAIN y : y[j] <= w} = DOMAIN y
    BY <2>2, Places DEF AtMost
  <2>4. \A v \in Range(y) : v <= w
    BY <2>3 DEF Range
  <2>5. Max(Range(y)) <= w
    BY <2>4, MinMax
  <2>. QED BY <1>2, <2>1, <2>5
<1>. QED BY <1>1, <1>3, <1>4

\* numpy.searchsorted counts the values below v, or not above it.
LEMMA Searched ==
    ASSUME NEW y \in Seq(Int), NEW v \in Int
    PROVE  /\ searchsorted_left(sorted(y), v) = Below(y, v)
           /\ searchsorted_right(sorted(y), v) = AtMost(y, v)
<1>. DEFINE s == sorted(y)
            n == Len(y)
<1>0. n \in Nat /\ Len(s) = n
  BY SortedPlaces
<1>1. Below(y, v) \in 0 .. n /\ AtMost(y, v) \in 0 .. n
  <2>1. /\ AtMost(y, v) \in Nat /\ AtMost(y, v) <= n
        /\ Below(y, v) \in Nat /\ Below(y, v) <= n
    BY Counts
  <2>. QED BY <1>0, <2>1
<1>2. \A i \in 1 .. n : /\ s[i] < v <=> i <= Below(y, v)
                        /\ s[i] <= v <=> i <= AtMost(y, v)
                        /\ s[i] \in Int
  BY SortedCounts, SortedPlaces
<1>. HIDE DEF s, n
<1>3. ASSUME NEW i \in 0 .. n
      PROVE  /\ i # 0 => i \in 1 .. n
             /\ i # n => i + 1 \in 1 .. n
             /\ i # n => (s[i + 1] >= v <=> ~(s[i + 1] < v)) /\ (s[i + 1] > v <=> ~(s[i + 1] <= v))
  BY <1>0, <1>2
<1>4. \A i \in 0 .. n : (i = 0 \/ s[i] < v) /\ (i = n \/ s[i + 1] >= v) <=> i = Below(y, v)
  BY <1>0, <1>1, <1>2, <1>3
<1>5. \A i \in 0 .. n : (i = 0 \/ s[i] <= v) /\ (i = n \/ s[i + 1] > v) <=> i = AtMost(y, v)
  BY <1>0, <1>1, <1>2, <1>3
<1>6. searchsorted_left(s, v) = Below(y, v)
  BY <1>0, <1>1, <1>4 DEF searchsorted_left
<1>7. searchsorted_right(s, v) = AtMost(y, v)
  BY <1>0, <1>1, <1>5 DEF searchsorted_right
<1>. QED BY <1>6, <1>7 DEF s

-----------------------------------------------------------------------------
(* Linear interpolation between order statistics *)

\* numpy's interpolated value at the virtual index h / Milli, counted from 0.
At(y, h) ==
    Milli * sorted(y)[h \div Milli + 1]
        + (IF h % Milli = 0 THEN 0
           ELSE (h % Milli) * (sorted(y)[h \div Milli + 2] - sorted(y)[h \div Milli + 1]))

\* A virtual index is a place and a part of the gap behind it.
LEMMA Split ==
    ASSUME NEW h \in Nat
    PROVE  \E d \in Nat, g \in 0 .. (Milli - 1) :
              d = h \div Milli /\ g = h % Milli /\ h = Milli * d + g
<1>1. h \div 1000 \in Nat /\ h % 1000 \in 0 .. 999
  OBVIOUS
<1>2. PICK d \in Nat : d = h \div 1000
  BY <1>1
<1>3. PICK g : g = h % 1000
  OBVIOUS
<1>4. g \in 0 .. 999
  BY <1>1, <1>3
<1>5. h = 1000 * d + g
  BY <1>2, <1>3, <1>4
<1>6. g \in 0 .. (Milli - 1)
  BY <1>4 DEF Milli
<1>7. d = h \div Milli
  BY <1>2 DEF Milli
<1>8. g = h % Milli
  BY <1>3 DEF Milli
<1>9. h = Milli * d + g
  BY <1>5 DEF Milli
<1>. QED BY <1>6, <1>7, <1>8, <1>9

\* A part of a gap is between nothing and the whole gap.
LEMMA Part ==
    ASSUME NEW g \in 0 .. Milli, NEW d \in Nat
    PROVE  g * d \in Int /\ 0 <= g * d /\ g * d <= Milli * d
<1>1. PICK r \in Nat : g + r = Milli
  <2>1. Milli - g \in Nat /\ g + (Milli - g) = Milli
    BY DEF Milli
  <2>. QED BY <2>1
<1>2. g * d >= 0 /\ r * d >= 0 /\ g * d \in Int /\ r * d \in Int
  OBVIOUS
<1>3. Milli * d = g * d + r * d
  BY <1>1
<1>. QED BY <1>2, <1>3 DEF Milli

\* Of two parts of a gap, the larger one reaches further.
LEMMA Parts ==
    ASSUME NEW g \in Nat, NEW k \in Nat, g <= k, NEW d \in Nat
    PROVE  g * d <= k * d /\ g * d \in Int /\ k * d \in Int
<1>1. PICK r \in Nat : k = g + r
  <2>1. k - g \in Nat /\ k = g + (k - g)
    OBVIOUS
  <2>. QED BY <2>1
<1>2. k * d = g * d + r * d /\ r * d >= 0 /\ g * d \in Int /\ r * d \in Int
  BY <1>1
<1>. QED BY <1>2

\* The virtual indices of a sample, and which places they lie between.
LEMMA Located ==
    ASSUME NEW y \in Seq(Int), y # <<>>, NEW h \in 0 .. ((Len(y) - 1) * Milli)
    PROVE  /\ h \div Milli + 1 \in 1 .. Len(y)
           /\ h % Milli # 0 => h \div Milli + 2 \in 1 .. Len(y)
<1>1. PICK n \in Nat \ {0} : n = Len(y)
  BY NotEmpty
<1>2. h \in Nat /\ h <= (n - 1) * Milli
  BY <1>1 DEF Milli
<1>3. PICK d \in Nat, g \in 0 .. (Milli - 1) :
          d = h \div Milli /\ g = h % Milli /\ h = Milli * d + g
  BY <1>2, Split, Zenon
<1>4. d + 1 <= n /\ (g # 0 => d + 2 <= n)
  BY <1>2, <1>3 DEF Milli
<1>5. d + 1 \in 1 .. n /\ (g # 0 => d + 2 \in 1 .. n)
  BY <1>4
<1>. QED BY <1>1, <1>3, <1>5, Zenon

\* The interpolated value lies between the values at the two places.
LEMMA AtBetween ==
    ASSUME NEW y \in Seq(Int), y # <<>>, NEW h \in 0 .. ((Len(y) - 1) * Milli)
    PROVE  /\ At(y, h) \in Int
           /\ Milli * sorted(y)[h \div Milli + 1] <= At(y, h)
           /\ h % Milli = 0 => At(y, h) = Milli * sorted(y)[h \div Milli + 1]
           /\ h % Milli # 0 => At(y, h) <= Milli * sorted(y)[h \div Milli + 2]
<1>1. h \in Nat
  BY NotEmpty DEF Milli
<1>2. PICK i \in 1 .. Len(y), g \in 0 .. (Milli - 1) :
          i = h \div Milli + 1 /\ g = h % Milli /\ (g # 0 => i + 1 \in 1 .. Len(y))
              /\ i + 1 = h \div Milli + 2
  <2>1. PICK d \in Nat, g \in 0 .. (Milli - 1) : d = h \div Milli /\ g = h % Milli
    BY <1>1, Split, Zenon
  <2>2. (d + 1) + 1 = d + 2
    OBVIOUS
  <2>3. d + 1 \in 1 .. Len(y) /\ (g # 0 => d + 2 \in 1 .. Len(y))
    BY <2>1, Located
  <2>. QED BY <2>1, <2>2, <2>3
<1>3. PICK c \in Int : c = sorted(y)[i]
  BY SortedPlaces
<1>4. CASE g = 0
  <2>1. At(y, h) = Milli * c + 0
    BY <1>2, <1>3, <1>4 DEF At
  <2>. QED BY <1>2, <1>3, <1>4, <2>1 DEF Milli
<1>5. CASE g # 0
  <2>1. i + 1 \in 1 .. Len(y) /\ i <= i + 1
    BY <1>2, <1>5
  <2>2. PICK e \in Int : e = sorted(y)[i + 1]
    BY <2>1, SortedPlaces
  <2>3. c <= e
    BY <1>3, <2>1, <2>2, SortedAscends
  <2>4. PICK d \in Nat : d = e - c
    BY <2>3
  <2>5. g * d \in Int /\ 0 <= g * d /\ g * d <= Milli * d
    BY Part DEF Milli
  <2>6. At(y, h) = Milli * c + g * d
    BY <1>2, <1>3, <1>5, <2>2, <2>4 DEF At
  <2>7. Milli * c \in Int /\ Milli * e = Milli * c + Milli * d /\ Milli * d \in Int
    BY <2>4 DEF Milli
  <2>8. At(y, h) \in Int /\ Milli * c <= At(y, h) /\ At(y, h) <= Milli * e
    <3>1. PICK mc \in Int, md \in Int, gd \in Int : mc = Milli * c /\ md = Milli * d /\ gd = g * d
      BY <2>5, <2>7
    <3>2. mc + gd \in Int /\ 0 <= gd /\ gd <= md
      BY <2>5, <3>1
    <3>3. mc <= mc + gd /\ mc + gd <= mc + md
      BY <3>2
    <3>. QED BY <2>6, <2>7, <3>1, <3>2, <3>3
  <2>. QED BY <1>2, <1>3, <1>5, <2>2, <2>8
<1>. QED BY <1>4, <1>5

\* Interpolation is monotone in the virtual index.
LEMMA AtGrows ==
    ASSUME NEW y \in Seq(Int), y # <<>>, NEW h \in 0 .. ((Len(y) - 1) * Milli),
           NEW k \in 0 .. ((Len(y) - 1) * Milli), h <= k
    PROVE  At(y, h) <= At(y, k)
<1>1. h \in Nat /\ k \in Nat
  BY NotEmpty DEF Milli
<1>2. PICK i \in Nat, g \in 0 .. (Milli - 1) :
          i = h \div Milli /\ g = h % Milli /\ h = Milli * i + g
  BY <1>1, Split, Zenon
<1>3. PICK j \in Nat, f \in 0 .. (Milli - 1) :
          j = k \div Milli /\ f = k % Milli /\ k = Milli * j + f
  BY <1>1, Split, Zenon
<1>4. /\ i + 1 \in 1 .. Len(y) /\ j + 1 \in 1 .. Len(y)
      /\ g # 0 => i + 2 \in 1 .. Len(y)
      /\ f # 0 => j + 2 \in 1 .. Len(y)
  BY <1>2, <1>3, Located
<1>5. /\ At(y, h) \in Int /\ At(y, k) \in Int
      /\ g = 0 => At(y, h) = Milli * sorted(y)[i + 1]
      /\ g # 0 => At(y, h) <= Milli * sorted(y)[i + 2]
      /\ Milli * sorted(y)[j + 1] <= At(y, k)
  BY <1>2, <1>3, AtBetween
<1>6. ASSUME NEW l \in 1 .. Len(y), NEW m \in 1 .. Len(y), l <= m
      PROVE  /\ Milli * sorted(y)[l] <= Milli * sorted(y)[m]
             /\ Milli * sorted(y)[l] \in Int /\ Milli * sorted(y)[m] \in Int
  <2>1. PICK c \in Int, e \in Int : c = sorted(y)[l] /\ e = sorted(y)[m]
    BY SortedPlaces
  <2>2. c <= e
    BY <1>6, <2>1, SortedAscends
  <2>3. Milli * c <= Milli * e /\ Milli * c \in Int /\ Milli * e \in Int
    BY <2>2 DEF Milli
  <2>. QED BY <2>1, <2>3
<1>7. i <= j /\ (i = j => g <= f)
  BY <1>1, <1>2, <1>3 DEF Milli
<1>8. CASE g = 0
  <2>1. i + 1 <= j + 1
    BY <1>7
  <2>2. Milli * sorted(y)[i + 1] <= Milli * sorted(y)[j + 1]
        /\ Milli * sorted(y)[i + 1] \in Int /\ Milli * sorted(y)[j + 1] \in Int
    BY <1>4, <1>6, <2>1
  <2>. QED BY <1>5, <1>8, <2>2
<1>9. CASE g # 0 /\ i # j
  <2>1. i + 2 <= j + 1 /\ i + 2 \in 1 .. Len(y)
    BY <1>4, <1>7, <1>9
  <2>2. Milli * sorted(y)[i + 2] <= Milli * sorted(y)[j + 1]
        /\ Milli * sorted(y)[i + 2] \in Int /\ Milli * sorted(y)[j + 1] \in Int
    BY <1>4, <1>6, <2>1
  <2>. QED BY <1>5, <1>9, <2>2
<1>10. CASE g # 0 /\ i = j
  <2>1. g <= f /\ f # 0 /\ i + 2 \in 1 .. Len(y) /\ g \in Nat /\ f \in Nat
    BY <1>4, <1>7, <1>10
  <2>2. PICK c \in Int, e \in Int : c = sorted(y)[i + 1] /\ e = sorted(y)[i + 2]
    BY <1>4, <2>1, SortedPlaces
  <2>3. c <= e
    <3>1. i + 1 <= i + 2
      BY <1>2
    <3>. QED BY <1>4, <2>1, <2>2, <3>1, SortedAscends
  <2>4. PICK d \in Nat : d = e - c
    BY <2>3
  <2>5. At(y, h) = Milli * c + g * d /\ At(y, k) = Milli * c + f * d
    BY <1>2, <1>3, <1>10, <2>1, <2>2, <2>4 DEF At
  <2>6. g * d <= f * d /\ g * d \in Int /\ f * d \in Int
    BY <2>1, Parts
  <2>7. PICK t \in Int, u \in Int, v \in Int : t = g * d /\ u = f * d /\ v = Milli * c
    BY <2>6 DEF Milli
  <2>8. v + t <= v + u
    <3>1. t <= u
      BY <2>6, <2>7
    <3>. QED BY <3>1
  <2>. QED BY <2>5, <2>7, <2>8
<1>. QED BY <1>8, <1>9, <1>10

\* At a whole place nothing is interpolated.
LEMMA AtPlace ==
    ASSUME NEW y \in Seq(Int), y # <<>>, NEW k \in 1 .. Len(y)
    PROVE  /\ Milli * (k - 1) \in 0 .. ((Len(y) - 1) * Milli)
           /\ At(y, Milli * (k - 1)) = Milli * sorted(y)[k]
<1>1. Len(y) \in Nat
  OBVIOUS
<1>2. PICK h \in Nat : h = Milli * (k - 1)
  BY <1>1 DEF Milli
<1>3. h \div Milli = k - 1 /\ h % Milli = 0 /\ (k - 1) + 1 = k
  BY <1>1, <1>2 DEF Milli
<1>4. PICK c \in Int : c = sorted(y)[k]
  BY SortedPlaces
<1>5. At(y, h) = Milli * c + 0
  BY <1>3, <1>4 DEF At
<1>6. h \in 0 .. ((Len(y) - 1) * Milli)
  BY <1>1, <1>2 DEF Milli
<1>. QED BY <1>2, <1>4, <1>5, <1>6 DEF Milli

\* numpy.percentile interpolates at the virtual index (n - 1) * q.
LEMMA InterpolatedAt ==
    ASSUME NEW y \in Seq(Int), y # <<>>, NEW q \in 0 .. Milli
    PROVE  /\ (Len(y) - 1) * q \in 0 .. ((Len(y) - 1) * Milli)
           /\ Interpolated(y, q) = At(y, (Len(y) - 1) * q)
<1>1. PICK d \in Nat : d = Len(y) - 1
  <2>1. Len(y) - 1 \in Nat
    BY NotEmpty
  <2>. QED BY <2>1
<1>2. q * d \in Int /\ 0 <= q * d /\ q * d <= Milli * d
  BY Part
<1>3. q \in Int /\ Milli \in Int
  BY DEF Milli
<1>4. d * q = q * d /\ d * Milli = Milli * d
  BY <1>3
<1>5. d * q \in Nat
  BY <1>2, <1>4
<1>6. PICK h \in Nat : h = d * q
  BY <1>5
<1>7. (h \div Milli + 1) + 1 = h \div Milli + 2
  BY DEF Milli
<1>8. Interpolated(y, q) = At(y, h)
  BY <1>1, <1>6, <1>7 DEF Interpolated, At
<1>. QED BY <1>1, <1>2, <1>3, <1>4, <1>6, <1>8

\* Percentiles lie within the sample and grow with q.
LEMMA InterpolatedWithin ==
    ASSUME NEW y \in Seq(Int), y # <<>>, NEW q \in 0 .. Milli
    PROVE  /\ Interpolated(y, q) \in Int
           /\ Milli * Min(Range(y)) <= Interpolated(y, q)
           /\ Interpolated(y, q) <= Milli * Max(Range(y))
<1>1. PICK n \in Nat \ {0} : n = Len(y) /\ 1 \in 1 .. Len(y) /\ n \in 1 .. Len(y)
  BY NotEmpty
<1>2. PICK h \in 0 .. ((Len(y) - 1) * Milli) : Interpolated(y, q) = At(y, h)
  BY InterpolatedAt
<1>3. /\ 0 \in 0 .. ((Len(y) - 1) * Milli) /\ At(y, 0) = Milli * sorted(y)[1]
  <2>1. Milli * (1 - 1) = 0
    BY DEF Milli
  <2>. QED BY <1>1, <2>1, AtPlace
<1>4. PICK m \in 0 .. ((Len(y) - 1) * Milli) :
          m = Milli * (n - 1) /\ At(y, m) = Milli * sorted(y)[n]
  BY <1>1, AtPlace
<1>5. 0 <= h /\ h <= m
  BY <1>1, <1>2, <1>4 DEF Milli
<1>6. At(y, 0) <= At(y, h)
  BY <1>3, <1>5, AtGrows
<1>7. At(y, h) <= At(y, m)
  BY <1>5, AtGrows
<1>8. sorted(y)[1] = Min(Range(y)) /\ sorted(y)[n] = Max(Range(y))
  BY <1>1, SortedAscends
<1>9. At(y, h) \in Int
  BY AtBetween
<1>. QED BY <1>2, <1>3, <1>4, <1>6, <1>7, <1>8, <1>9

\* A higher percentile is not lower.
LEMMA InterpolatedGrows ==
    ASSUME NEW y \in Seq(Int), y # <<>>, NEW q \in 0 .. Milli, NEW r \in 0 .. Milli, q <= r
    PROVE  Interpolated(y, q) <= Interpolated(y, r)
<1>1. PICK d \in Nat : d = Len(y) - 1
  <2>1. Len(y) - 1 \in Nat
    BY NotEmpty
  <2>. QED BY <2>1
<1>2. q \in Nat /\ r \in Nat
  BY DEF Milli
<1>3. q * d <= r * d
  BY <1>2, Parts
<1>4. d * q <= d * r
  BY <1>2, <1>3
<1>5. d * q \in 0 .. ((Len(y) - 1) * Milli) /\ Interpolated(y, q) = At(y, d * q)
  BY <1>1, InterpolatedAt
<1>6. d * r \in 0 .. ((Len(y) - 1) * Milli) /\ Interpolated(y, r) = At(y, d * r)
  BY <1>1, InterpolatedAt
<1>7. At(y, d * q) <= At(y, d * r)
  BY <1>4, <1>5, <1>6, AtGrows
<1>. QED BY <1>5, <1>6, <1>7

-----------------------------------------------------------------------------
(* Sums *)

\* s holds the partial sums of f.
PartialSums(s, f) ==
    /\ s \in [0 .. Len(f) -> Int] /\ s[0] = 0
    /\ \A i \in 1 .. Len(f) : s[i] = s[i - 1] + f[i]

\* Every sequence of numbers has partial sums, and Total() is the last one.
LEMMA TotalSums ==
    ASSUME NEW f \in Seq(Int)
    PROVE  \E s : PartialSums(s, f) /\ Total(f) = s[Len(f)]
<1>. DEFINE n == Len(f)
            Upto(m, g) == /\ g \in [0 .. m -> Int] /\ g[0] = 0
                          /\ \A i \in 1 .. m : g[i] = g[i - 1] + f[i]
            S == {m \in Nat : m <= n => \E g : Upto(m, g)}
            Rec(s) == s = [k \in 0 .. n |-> IF k = 0 THEN 0 ELSE s[k - 1] + f[k]]
<1>0. n \in Nat /\ \A i \in 1 .. n : f[i] \in Int
  OBVIOUS
<1>1. 0 \in S
  <2>1. Upto(0, [i \in 0 .. 0 |-> 0])
    OBVIOUS
  <2>. QED BY <2>1
<1>2. ASSUME NEW m \in Nat, m \in S PROVE m + 1 \in S
  <2>. HIDE DEF n
  <2>. SUFFICES ASSUME m + 1 <= n PROVE \E g : Upto(m + 1, g)
    OBVIOUS
  <2>1. PICK g : Upto(m, g)
    BY <1>0, <1>2
  <2>2. g[m] \in Int /\ m + 1 \in 1 .. n
    BY <1>0, <2>1
  <2>3. PICK c \in Int : c = f[m + 1]
    BY <1>0, <2>2
  <2>. DEFINE h == [i \in 0 .. (m + 1) |-> IF i <= m THEN g[i] ELSE g[m] + c]
  <2>4. h \in [0 .. (m + 1) -> Int] /\ h[0] = 0
    BY <2>1, <2>2
  <2>5. ASSUME NEW i \in 1 .. (m + 1) PROVE h[i] = h[i - 1] + f[i]
    <3>1. i - 1 \in 0 .. (m + 1) /\ i - 1 <= m /\ h[i - 1] = g[i - 1]
      OBVIOUS
    <3>2. CASE i <= m
      BY <2>1, <3>1, <3>2
    <3>3. CASE i = m + 1
      BY <2>3, <3>1, <3>3
    <3>. QED BY <3>2, <3>3
  <2>6. Upto(m + 1, h)
    BY <2>4, <2>5
  <2>. QED BY <2>6
<1>. HIDE DEF S, Upto, n
<1>3. \A m \in Nat : m \in S
  BY <1>1, <1>2, SetInduction
<1>4. PICK g : Upto(n, g)
  BY <1>0, <1>3 DEF S
<1>5. Rec(g)
  <2>1. \A k \in 0 .. n : k # 0 => k \in 1 .. n
    BY <1>0
  <2>. QED BY <1>4, <2>1 DEF Upto
<1>6. PICK s : s = CHOOSE t : Rec(t)
  OBVIOUS
<1>7. Rec(s)
  BY <1>5, <1>6
<1>8. Total(f) = s[n]
  BY <1>6 DEF Total, n
<1>9. s[0] = 0 /\ \A i \in 1 .. n : s[i] = s[i - 1] + f[i]
  <2>1. \A k \in 0 .. n : s[k] = IF k = 0 THEN 0 ELSE s[k - 1] + f[k]
    BY <1>7
  <2>2. 0 \in 0 .. n /\ \A i \in 1 .. n : i \in 0 .. n /\ i # 0
    BY <1>0
  <2>. QED BY <2>1, <2>2
<1>10. ASSUME NEW k \in 0 .. n PROVE s[k] \in Int
  <2>. DEFINE R == {k1 \in Nat : k1 <= n => s[k1] \in Int}
  <2>1. 0 \in R
    BY <1>9
  <2>2. ASSUME NEW m \in Nat, m \in R PROVE m + 1 \in R
    <3>. SUFFICES ASSUME m + 1 <= n PROVE s[m + 1] \in Int
      OBVIOUS
    <3>1. m + 1 \in 1 .. n /\ (m + 1) - 1 = m /\ s[m] \in Int
      BY <1>0, <2>2
    <3>2. s[m + 1] = s[m] + f[m + 1] /\ f[m + 1] \in Int
      BY <1>0, <1>9, <3>1
    <3>. QED BY <3>1, <3>2
  <2>. HIDE DEF R
  <2>3. \A m \in Nat : m \in R
    BY <2>1, <2>2, SetInduction
  <2>. QED BY <1>0, <2>3 DEF R
<1>11. s \in [0 .. n -> Int]
  BY <1>7, <1>10
<1>. QED BY <1>8, <1>9, <1>11 DEF PartialSums, n

\* A sum of n numbers between lo and hi lies between n * lo and n * hi.
LEMMA TotalBetween ==
    ASSUME NEW f \in Seq(Int), NEW lo \in Int, NEW hi \in Int,
           \A i \in 1 .. Len(f) : lo <= f[i] /\ f[i] <= hi
    PROVE  Total(f) \in Int /\ Len(f) * lo <= Total(f) /\ Total(f) <= Len(f) * hi
<1>1. PICK s : PartialSums(s, f) /\ Total(f) = s[Len(f)]
  BY TotalSums
<1>. DEFINE S == {k \in Nat : k <= Len(f) => k * lo <= s[k] /\ s[k] <= k * hi}
<1>2. Len(f) \in Nat /\ \A i \in 1 .. Len(f) : f[i] \in Int
  OBVIOUS
<1>3. 0 \in S
  BY <1>1 DEF PartialSums
<1>4. ASSUME NEW k \in Nat, k \in S PROVE k + 1 \in S
  <2>. SUFFICES ASSUME k + 1 <= Len(f)
                PROVE  (k + 1) * lo <= s[k + 1] /\ s[k + 1] <= (k + 1) * hi
    OBVIOUS
  <2>1. k + 1 \in 1 .. Len(f) /\ (k + 1) - 1 = k /\ k \in 0 .. Len(f)
    BY <1>2
  <2>2. s[k + 1] = s[k] + f[k + 1] /\ s[k] \in Int
    BY <1>1, <2>1 DEF PartialSums
  <2>3. lo <= f[k + 1] /\ f[k + 1] <= hi /\ f[k + 1] \in Int
    BY <1>2, <2>1
  <2>4. k * lo <= s[k] /\ s[k] <= k * hi
    BY <1>2, <1>4
  <2>5. /\ (k + 1) * lo = k * lo + lo /\ (k + 1) * hi = k * hi + hi
        /\ k * lo \in Int /\ k * hi \in Int
    OBVIOUS
  <2>6. PICK kl \in Int, kh \in Int, a \in Int, e \in Int :
            kl = k * lo /\ kh = k * hi /\ a = s[k] /\ e = f[k + 1]
    BY <2>2, <2>3, <2>5
  <2>7. kl + lo <= a + e /\ a + e <= kh + hi
    <3>1. kl <= a /\ a <= kh /\ lo <= e /\ e <= hi
      BY <2>3, <2>4, <2>6
    <3>. QED BY <3>1
  <2>. QED BY <2>2, <2>5, <2>6, <2>7
<1>. HIDE DEF S
<1>5. \A k \in Nat : k \in S
  BY <1>3, <1>4, SetInduction
<1>6. Len(f) * lo <= s[Len(f)] /\ s[Len(f)] <= Len(f) * hi
  BY <1>2, <1>5 DEF S
<1>7. s[Len(f)] \in Int
  BY <1>1, <1>2 DEF PartialSums
<1>. QED BY <1>1, <1>6, <1>7

\* h is the sum of f and g, place by place.
AddsUp(f, g, h) ==
    /\ f \in Seq(Int) /\ g \in Seq(Int) /\ h \in Seq(Int)
    /\ Len(g) = Len(f) /\ Len(h) = Len(f)
    /\ \A i \in 1 .. Len(f) : h[i] = f[i] + g[i]

\* So is its sum.
LEMMA TotalAdds ==
    ASSUME NEW f, NEW g, NEW h, AddsUp(f, g, h)
    PROVE  /\ Total(h) = Total(f) + Total(g)
           /\ Total(f) \in Int /\ Total(g) \in Int
<1>0. /\ f \in Seq(Int) /\ g \in Seq(Int) /\ h \in Seq(Int)
      /\ Len(g) = Len(f) /\ Len(h) = Len(f)
      /\ \A i \in 1 .. Len(f) : h[i] = f[i] + g[i]
  BY DEF AddsUp
<1>1. PICK s : PartialSums(s, f) /\ Total(f) = s[Len(f)]
  BY <1>0, TotalSums
<1>2. PICK t : PartialSums(t, g) /\ Total(g) = t[Len(f)]
  BY <1>0, TotalSums
<1>3. PICK u : PartialSums(u, h) /\ Total(h) = u[Len(f)]
  BY <1>0, TotalSums
<1>. DEFINE S == {k \in Nat : k <= Len(f) => u[k] = s[k] + t[k]}
<1>4. Len(f) \in Nat /\ \A i \in 1 .. Len(f) : f[i] \in Int /\ g[i] \in Int
  BY <1>0
<1>5. \A k \in 0 .. Len(f) : s[k] \in Int /\ t[k] \in Int
  BY <1>0, <1>1, <1>2 DEF PartialSums
<1>6. 0 \in S
  BY <1>0, <1>1, <1>2, <1>3 DEF PartialSums
<1>7. ASSUME NEW k \in Nat, k \in S PROVE k + 1 \in S
  <2>. SUFFICES ASSUME k + 1 <= Len(f) PROVE u[k + 1] = s[k + 1] + t[k + 1]
    OBVIOUS
  <2>1. k + 1 \in 1 .. Len(f) /\ (k + 1) - 1 = k /\ k \in 0 .. Len(f)
    BY <1>4
  <2>2. s[k + 1] = s[k] + f[k + 1]
    BY <1>1, <2>1 DEF PartialSums
  <2>3. t[k + 1] = t[k] + g[k + 1]
    BY <1>0, <1>2, <2>1 DEF PartialSums
  <2>4. u[k + 1] = u[k] + h[k + 1]
    BY <1>0, <1>3, <2>1 DEF PartialSums
  <2>5. u[k] = s[k] + t[k] /\ h[k + 1] = f[k + 1] + g[k + 1]
    BY <1>0, <1>4, <1>7, <2>1
  <2>6. s[k] \in Int /\ t[k] \in Int /\ f[k + 1] \in Int /\ g[k + 1] \in Int
    BY <1>4, <1>5, <2>1
  <2>7. PICK v \in Int, w \in Int, c \in Int, d \in Int :
            v = s[k] /\ w = t[k] /\ c = f[k + 1] /\ d = g[k + 1]
    BY <2>6
  <2>8. u[k + 1] = (v + w) + (c + d) /\ s[k + 1] = v + c /\ t[k + 1] = w + d
    BY <2>2, <2>3, <2>4, <2>5, <2>7
  <2>9. (v + w) + (c + d) = (v + c) + (w + d)
    OBVIOUS
  <2>. QED BY <2>8, <2>9
<1>. HIDE DEF S
<1>8. \A k \in Nat : k \in S
  BY <1>6, <1>7, SetInduction
<1>9. u[Len(f)] = s[Len(f)] + t[Len(f)]
  BY <1>4, <1>8 DEF S
<1>10. s[Len(f)] \in Int /\ t[Len(f)] \in Int
  BY <1>4, <1>5
<1>. QED BY <1>1, <1>2, <1>3, <1>9, <1>10

\* f counts the pairs of P row by row.
Rows(f, n, P) == \A i \in 1 .. Len(f) : f[i] = Cardinality({j \in 1 .. n : <<i, j>> \in P})

\* The sum over the rows counts all pairs.
LEMMA TotalPairs ==
    ASSUME NEW f \in Seq(Int), NEW n \in Nat, NEW P \in SUBSET ((1 .. Len(f)) \X (1 .. n)),
           Rows(f, n, P)
    PROVE  Total(f) = Cardinality(P)
<1>1. PICK s : PartialSums(s, f) /\ Total(f) = s[Len(f)]
  BY TotalSums
<1>. DEFINE Upto(k) == {ij \in P : ij[1] <= k}
            Across(i) == {j \in 1 .. n : <<i, j>> \in P}
            S == {k \in Nat : k <= Len(f) => IsFiniteSet(Upto(k)) /\ s[k] = Cardinality(Upto(k))}
<1>2. Len(f) \in Nat
  OBVIOUS
<1>3. \A ij \in P : ij[1] \in 1 .. Len(f) /\ ij[2] \in 1 .. n /\ ij = <<ij[1], ij[2]>>
  OBVIOUS
<1>4. 0 \in S
  <2>1. Upto(0) = {}
    BY <1>3
  <2>2. s[0] = 0
    BY <1>1 DEF PartialSums
  <2>. QED BY <2>1, <2>2, FS_EmptySet
<1>5. ASSUME NEW k \in Nat, k \in S PROVE k + 1 \in S
  <2>. HIDE DEF Upto
  <2>. SUFFICES ASSUME k + 1 <= Len(f)
                PROVE  IsFiniteSet(Upto(k + 1)) /\ s[k + 1] = Cardinality(Upto(k + 1))
    OBVIOUS
  <2>. USE DEF Upto
  <2>1. IsFiniteSet(Upto(k)) /\ s[k] = Cardinality(Upto(k))
    BY <1>2, <1>5
  <2>2. k + 1 \in 1 .. Len(f) /\ (k + 1) - 1 = k
    BY <1>2
  <2>3. s[k + 1] = s[k] + Cardinality(Across(k + 1))
    BY <1>1, <2>2 DEF PartialSums, Rows
  <2>. DEFINE New == {ij \in P : ij[1] = k + 1}
  <2>4. Upto(k + 1) = Upto(k) \cup New /\ Upto(k) \cap New = {}
    BY <1>2, <1>3
  <2>5. IsFiniteSet(New) /\ Cardinality(New) = Cardinality(Across(k + 1))
    <3>1. IsFiniteSet(Across(k + 1))
      <4>1. IsFiniteSet(1 .. n)
        BY FS_Interval
      <4>2. Across(k + 1) \in SUBSET (1 .. n)
        OBVIOUS
      <4>. QED BY <4>1, <4>2, FS_Subset
    <3>. DEFINE g == [j \in Across(k + 1) |-> <<k + 1, j>>]
    <3>2. g \in [Across(k + 1) -> New]
      OBVIOUS
    <3>3. \A i, j \in Across(k + 1) : g[i] = g[j] => i = j
      OBVIOUS
    <3>4. ASSUME NEW ij \in New PROVE \E j \in Across(k + 1) : g[j] = ij
      <4>1. ij[2] \in Across(k + 1) /\ ij = <<k + 1, ij[2]>>
        BY <1>3
      <4>. QED BY <4>1
    <3>. HIDE DEF Across, New, g
    <3>5. g \in Bijection(Across(k + 1), New)
      BY <3>2, <3>3, <3>4 DEF Bijection, Injection, Surjection, IsInjective
    <3>. QED BY <3>1, <3>5, FS_Bijection DEF ExistsBijection
  <2>. HIDE DEF New, Upto, Across
  <2>6. /\ IsFiniteSet(Upto(k) \cup New)
        /\ Cardinality(Upto(k) \cup New) =
               Cardinality(Upto(k)) + Cardinality(New) - Cardinality(Upto(k) \cap New)
    BY <2>1, <2>5, FS_Union
  <2>7. Cardinality({}) = 0 /\ Cardinality(Upto(k)) \in Nat /\ Cardinality(New) \in Nat
    BY <2>1, <2>5, FS_EmptySet, FS_CardinalityType
  <2>8. Cardinality(Upto(k + 1)) = Cardinality(Upto(k)) + Cardinality(New) - 0
    BY <2>4, <2>6, <2>7
  <2>9. Cardinality(Upto(k + 1)) = Cardinality(Upto(k)) + Cardinality(New)
    BY <2>7, <2>8
  <2>. QED BY <2>1, <2>3, <2>4, <2>5, <2>6, <2>9
<1>. HIDE DEF S
<1>6. \A k \in Nat : k \in S
  BY <1>4, <1>5, SetInduction
<1>7. Upto(Len(f)) = P
  BY <1>2, <1>3
<1>. HIDE DEF Upto
<1>8. s[Len(f)] = Cardinality(Upto(Len(f)))
  BY <1>2, <1>6 DEF S
<1>. QED BY <1>1, <1>7, <1>8

-----------------------------------------------------------------------------
(* Cliff's delta and the U statistic, by pairs *)

\* A sequence given place by place.
LEMMA Listed ==
    ASSUME NEW n \in Nat, NEW f \in [1 .. n -> Int]
    PROVE  f \in Seq(Int) /\ Len(f) = n
<1>1. f \in Seq(Int)
  BY SeqDef
<1>. QED BY <1>1

\* A set of pairs and the same pairs the other way round are equally many.
LEMMA Swapped ==
    ASSUME NEW m \in Nat, NEW n \in Nat, NEW P \in SUBSET ((1 .. m) \X (1 .. n)),
           NEW Q, Q = {ji \in (1 .. n) \X (1 .. m) : <<ji[2], ji[1]>> \in P}
    PROVE  Cardinality(Q) = Cardinality(P) /\ Cardinality(P) \in Nat
<1>1. IsFiniteSet(P)
  <2>1. IsFiniteSet(1 .. m) /\ IsFiniteSet(1 .. n)
    BY FS_Interval
  <2>2. IsFiniteSet((1 .. m) \X (1 .. n))
    BY <2>1, FS_Product
  <2>. QED BY <2>2, FS_Subset
<1>. DEFINE g == [ij \in P |-> <<ij[2], ij[1]>>]
<1>2. \A ij \in P : ij[1] \in 1 .. m /\ ij[2] \in 1 .. n /\ ij = <<ij[1], ij[2]>>
  OBVIOUS
<1>3. g \in [P -> Q]
  BY <1>2
<1>4. ASSUME NEW h \in P, NEW k \in P, g[h] = g[k] PROVE h = k
  <2>1. g[h] = <<h[2], h[1]>> /\ g[k] = <<k[2], k[1]>>
    OBVIOUS
  <2>2. h[1] = k[1] /\ h[2] = k[2]
    BY <1>4, <2>1
  <2>. QED BY <1>2, <2>2
<1>5. ASSUME NEW ji \in Q PROVE \E ij \in P : g[ij] = ji
  <2>1. ji = <<ji[2 - 1], ji[2]>> /\ <<ji[2], ji[1]>> \in P
    OBVIOUS
  <2>2. g[<<ji[2], ji[1]>>] = <<ji[1], ji[2]>>
    BY <2>1
  <2>. QED BY <2>1, <2>2
<1>. HIDE DEF g
<1>6. g \in Bijection(P, Q)
  BY <1>3, <1>4, <1>5 DEF Bijection, Injection, Surjection, IsInjective
<1>. QED BY <1>1, <1>6, FS_Bijection, FS_CardinalityType DEF ExistsBijection

\* Counting below each value of a counts the pairs in which a is higher.
LEMMA BelowPairs ==
    ASSUME NEW a \in Seq(Int), NEW e \in Seq(Int),
           NEW f, f = [i \in DOMAIN a |-> Below(e, a[i])]
    PROVE  f \in Seq(Int) /\ Len(f) = Len(a) /\ Total(f) = Above(a, e)
<1>0. /\ DOMAIN a = 1 .. Len(a) /\ Len(a) \in Nat
      /\ DOMAIN e = 1 .. Len(e) /\ Len(e) \in Nat
  OBVIOUS
<1>1. \A i \in 1 .. Len(a) : f[i] = Below(e, a[i]) /\ f[i] \in Int
  <2>1. \A i \in 1 .. Len(a) : a[i] \in Int /\ f[i] = Below(e, a[i])
    OBVIOUS
  <2>2. \A i \in 1 .. Len(a) : Below(e, a[i]) \in Nat
    BY <2>1, Counts
  <2>. QED BY <2>1, <2>2
<1>2. f \in [1 .. Len(a) -> Int]
  BY <1>0, <1>1
<1>3. f \in Seq(Int) /\ Len(f) = Len(a)
  BY <1>0, <1>2, Listed
<1>. DEFINE P == {ij \in (DOMAIN a) \X (DOMAIN e) : a[ij[1]] > e[ij[2]]}
<1>4. P \in SUBSET ((1 .. Len(f)) \X (1 .. Len(e)))
  BY <1>0, <1>3
<1>5. ASSUME NEW i \in 1 .. Len(f)
      PROVE  f[i] = Cardinality({j \in 1 .. Len(e) : <<i, j>> \in P})
  <2>1. i \in 1 .. Len(a) /\ a[i] \in Int
    BY <1>3
  <2>2. {j \in 1 .. Len(e) : <<i, j>> \in P} = {j \in DOMAIN e : e[j] < a[i]}
    BY <1>0, <2>1
  <2>. QED BY <1>1, <2>1, <2>2 DEF Below
<1>. HIDE DEF P
<1>6. Total(f) = Cardinality(P)
  <2>1. Rows(f, Len(e), P)
    BY <1>5 DEF Rows
  <2>. QED BY <1>0, <1>3, <1>4, <2>1, TotalPairs, Zenon
<1>. QED BY <1>3, <1>6 DEF P, Above

\* Counting above each value of a counts the pairs in which a is lower.
LEMMA OverPairs ==
    ASSUME NEW a \in Seq(Int), NEW e \in Seq(Int),
           NEW f, f = [i \in DOMAIN a |-> Len(e) - AtMost(e, a[i])]
    PROVE  f \in Seq(Int) /\ Len(f) = Len(a) /\ Total(f) = Above(e, a)
<1>0. /\ DOMAIN a = 1 .. Len(a) /\ Len(a) \in Nat
      /\ DOMAIN e = 1 .. Len(e) /\ Len(e) \in Nat
  OBVIOUS
<1>1. \A i \in 1 .. Len(a) : f[i] = Len(e) - AtMost(e, a[i]) /\ f[i] \in Int
  <2>1. \A i \in 1 .. Len(a) : a[i] \in Int /\ f[i] = Len(e) - AtMost(e, a[i])
    OBVIOUS
  <2>2. \A i \in 1 .. Len(a) : AtMost(e, a[i]) \in Nat
    BY <2>1, Counts
  <2>. QED BY <1>0, <2>1, <2>2
<1>2. f \in [1 .. Len(a) -> Int]
  BY <1>0, <1>1
<1>3. f \in Seq(Int) /\ Len(f) = Len(a)
  BY <1>0, <1>2, Listed
<1>. DEFINE P == {ij \in (1 .. Len(a)) \X (1 .. Len(e)) : e[ij[2]] > a[ij[1]]}
            Q == {ji \in (DOMAIN e) \X (DOMAIN a) : e[ji[1]] > a[ji[2]]}
<1>4. P \in SUBSET ((1 .. Len(f)) \X (1 .. Len(e)))
  BY <1>3
<1>5. ASSUME NEW i \in 1 .. Len(f)
      PROVE  f[i] = Cardinality({j \in 1 .. Len(e) : <<i, j>> \in P})
  <2>1. i \in 1 .. Len(a) /\ a[i] \in Int
    BY <1>3
  <2>. DEFINE U == {j \in DOMAIN e : e[j] <= a[i]}
  <2>2. {j \in 1 .. Len(e) : <<i, j>> \in P} = (1 .. Len(e)) \ U
    BY <1>0, <2>1
  <2>3. (1 .. Len(e)) \cap U = U
    BY <1>0
  <2>4. IsFiniteSet(1 .. Len(e)) /\ Cardinality(1 .. Len(e)) = Len(e)
    BY <1>0, FirstPlaces
  <2>. HIDE DEF U, P
  <2>5. Cardinality((1 .. Len(e)) \ U) = Len(e) - Cardinality(U)
    <3>1. PICK S : S = 1 .. Len(e)
      OBVIOUS
    <3>2. IsFiniteSet(S) /\ Cardinality(S) = Len(e) /\ S \cap U = U
      BY <2>3, <2>4, <3>1, Zenon
    <3>3. Cardinality(S \ U) = Cardinality(S) - Cardinality(S \cap U)
      BY <3>2, FS_Difference
    <3>. QED BY <3>1, <3>2, <3>3, Zenon
  <2>. QED BY <1>1, <2>1, <2>2, <2>5 DEF U, AtMost
<1>6. P \in SUBSET ((1 .. Len(a)) \X (1 .. Len(e)))
      /\ Q = {ji \in (1 .. Len(e)) \X (1 .. Len(a)) : <<ji[2], ji[1]>> \in P}
  BY <1>0
<1>. HIDE DEF P, Q
<1>7. Total(f) = Cardinality(P)
  <2>1. Rows(f, Len(e), P)
    BY <1>5 DEF Rows
  <2>. QED BY <1>0, <1>3, <1>4, <2>1, TotalPairs, Zenon
<1>8. Cardinality(Q) = Cardinality(P)
  BY <1>0, <1>6, Swapped
<1>. QED BY <1>3, <1>7, <1>8 DEF Q, Above

\* Counting what is not above each value of a counts the remaining pairs.
LEMMA AtMostPairs ==
    ASSUME NEW a \in Seq(Int), NEW e \in Seq(Int),
           NEW f, f = [i \in DOMAIN a |-> AtMost(e, a[i])]
    PROVE  /\ f \in Seq(Int) /\ Len(f) = Len(a)
           /\ Total(f) = Len(a) * Len(e) - Above(e, a)
           /\ Total(f) \in Int /\ Above(e, a) \in Int
<1>0. DOMAIN a = 1 .. Len(a) /\ Len(a) \in Nat /\ Len(e) \in Nat
  OBVIOUS
<1>1. \A i \in 1 .. Len(a) : f[i] = AtMost(e, a[i]) /\ f[i] \in Nat
  <2>1. \A i \in 1 .. Len(a) : a[i] \in Int /\ f[i] = AtMost(e, a[i])
    OBVIOUS
  <2>2. \A i \in 1 .. Len(a) : AtMost(e, a[i]) \in Nat
    BY <2>1, Counts
  <2>. QED BY <2>1, <2>2
<1>2. f \in [1 .. Len(a) -> Int]
  BY <1>0, <1>1
<1>3. f \in Seq(Int) /\ Len(f) = Len(a)
  BY <1>0, <1>2, Listed
<1>. DEFINE g == [i \in DOMAIN a |-> Len(e) - AtMost(e, a[i])]
            h == [i \in 1 .. Len(a) |-> Len(e)]
<1>4. g \in Seq(Int) /\ Len(g) = Len(a) /\ Total(g) = Above(e, a)
  BY OverPairs
<1>5. h \in [1 .. Len(a) -> Int]
  BY <1>0
<1>6. h \in Seq(Int) /\ Len(h) = Len(a)
  BY <1>0, <1>5, Listed
<1>7. \A i \in 1 .. Len(f) : h[i] = f[i] + g[i]
  <2>. SUFFICES ASSUME NEW i \in 1 .. Len(a) PROVE h[i] = f[i] + g[i]
    BY <1>3
  <2>1. PICK c \in Nat : c = AtMost(e, a[i])
    BY <1>1
  <2>2. h[i] = Len(e) /\ f[i] = c /\ g[i] = Len(e) - c
    BY <1>0, <1>1, <2>1
  <2>. HIDE DEF g, h
  <2>. QED BY <1>0, <2>2
<1>8. \A i \in 1 .. Len(h) : Len(e) <= h[i] /\ h[i] <= Len(e)
  BY <1>0, <1>6
<1>. HIDE DEF g, h
<1>9. Total(h) = Total(f) + Total(g) /\ Total(f) \in Int /\ Total(g) \in Int
  <2>1. /\ Len(g) = Len(f) /\ Len(h) = Len(f)
        /\ f \in Seq(Int) /\ g \in Seq(Int) /\ h \in Seq(Int)
    BY <1>3, <1>4, <1>6
  <2>2. AddsUp(f, g, h)
    BY <1>7, <2>1 DEF AddsUp
  <2>. QED BY <2>2, TotalAdds
<1>10. Total(h) \in Int /\ Len(h) * Len(e) <= Total(h) /\ Total(h) <= Len(h) * Len(e)
  <2>1. PICK n \in Int : n = Len(e)
    BY <1>0
  <2>2. \A i \in 1 .. Len(h) : n <= h[i] /\ h[i] <= n
    BY <1>8, <2>1
  <2>3. Total(h) \in Int /\ Len(h) * n <= Total(h) /\ Total(h) <= Len(h) * n
    BY <1>6, <2>2, TotalBetween
  <2>. QED BY <2>1, <2>3
<1>11. Len(a) * Len(e) \in Int
  BY <1>0
<1>12. Total(h) = Len(a) * Len(e)
  <2>1. PICK t \in Int, u \in Int : t = Total(h) /\ u = Len(a) * Len(e)
    BY <1>10, <1>11
  <2>2. u <= t /\ t <= u
    BY <1>6, <1>10, <2>1
  <2>. QED BY <2>1, <2>2
<1>. QED BY <1>3, <1>4, <1>9, <1>11, <1>12

\* cliffs_delta() by its definition: pairs in which a is higher less pairs in
\* which it is lower.
LEMMA DeltaPairs ==
    ASSUME NEW a \in Seq(Int), NEW e \in Seq(Int), a # <<>>, e # <<>>
    PROVE  /\ cliffs_delta(a, e) = [num |-> Above(a, e) - Above(e, a), den |-> Len(a) * Len(e)]
           /\ Above(a, e) \in Int /\ Above(e, a) \in Int
<1>. DEFINE less == [i \in DOMAIN a |-> searchsorted_left(sorted(e), a[i])]
            greater == [i \in DOMAIN a |->
                           Len(sorted(e)) - searchsorted_right(sorted(e), a[i])]
<1>1. \A i \in DOMAIN a : a[i] \in Int
  OBVIOUS
<1>2. less = [i \in DOMAIN a |-> Below(e, a[i])]
  BY <1>1, Searched
<1>3. greater = [i \in DOMAIN a |-> Len(e) - AtMost(e, a[i])]
  BY <1>1, Searched, SortedPlaces
<1>4. cliffs_delta(a, e) = [num |-> Total(less) - Total(greater), den |-> Len(a) * Len(e)]
  BY DEF cliffs_delta
<1>. HIDE DEF less, greater
<1>5. Total(less) = Above(a, e)
  BY <1>2, BelowPairs
<1>6. Total(greater) = Above(e, a)
  BY <1>3, OverPairs
<1>7. Above(a, e) \in Int /\ Above(e, a) \in Int
  BY AtMostPairs
<1>. QED BY <1>4, <1>5, <1>6, <1>7

\* Two samples in a row count like each of them.
LEMMA Pooled ==
    ASSUME NEW a \in Seq(Int), NEW e \in Seq(Int), NEW v \in Int
    PROVE  /\ a \o e \in Seq(Int)
           /\ AtMost(a \o e, v) = AtMost(a, v) + AtMost(e, v)
<1>. DEFINE m == Len(a)
            n == Len(e)
            T == {i \in DOMAIN (a \o e) : (a \o e)[i] <= v}
            A == {i \in DOMAIN a : a[i] <= v}
            E == {i \in DOMAIN e : e[i] <= v}
            F == {i \in T : i > m}
            g == [i \in E |-> m + i]
<1>1. /\ m \in Nat /\ n \in Nat /\ DOMAIN a = 1 .. m /\ DOMAIN e = 1 .. n
      /\ a \o e \in Seq(Int) /\ DOMAIN (a \o e) = 1 .. (m + n)
      /\ \A i \in 1 .. m : (a \o e)[i] = a[i]
  OBVIOUS
<1>2. \A i \in 1 .. n : (a \o e)[m + i] = e[i] /\ m + i \in 1 .. (m + n) /\ m + i > m
  BY <1>1
<1>3. \A i \in 1 .. (m + n) : i > m => i - m \in 1 .. n /\ m + (i - m) = i
  BY <1>1
<1>4. IsFiniteSet(A) /\ IsFiniteSet(E)
  BY Places
<1>5. T = A \cup F /\ A \cap F = {}
  BY <1>1
<1>6. g \in [E -> F]
  BY <1>1, <1>2
<1>7. \A i, j \in E : g[i] = g[j] => i = j
  BY <1>1
<1>8. ASSUME NEW i \in F PROVE \E j \in E : g[j] = i
  <2>1. i \in 1 .. (m + n) /\ i > m /\ (a \o e)[i] <= v
    BY <1>1
  <2>2. i - m \in 1 .. n /\ m + (i - m) = i
    BY <1>3, <2>1
  <2>3. PICK j \in 1 .. n : m + j = i
    BY <2>2
  <2>4. e[j] <= v
    BY <1>2, <2>1, <2>3
  <2>5. j \in E
    BY <1>1, <2>4
  <2>. QED BY <2>3, <2>5
<1>. HIDE DEF T, A, E, F, g, m, n
<1>9. g \in Bijection(E, F)
  BY <1>6, <1>7, <1>8 DEF Bijection, Injection, Surjection, IsInjective
<1>10. IsFiniteSet(F) /\ Cardinality(F) = Cardinality(E)
  BY <1>4, <1>9, FS_Bijection DEF ExistsBijection
<1>11. Cardinality(A \cup F) = Cardinality(A) + Cardinality(F) - Cardinality(A \cap F)
  BY <1>4, <1>10, FS_Union
<1>12. Cardinality(A) \in Nat /\ Cardinality(F) \in Nat /\ Cardinality({}) = 0
  BY <1>4, <1>10, FS_CardinalityType, FS_EmptySet
<1>13. Cardinality(T) = Cardinality(A) + Cardinality(F)
  <2>1. Cardinality(T) = Cardinality(A) + Cardinality(F) - 0
    BY <1>5, <1>11, <1>12
  <2>. QED BY <1>12, <2>1
<1>. QED BY <1>1, <1>10, <1>13 DEF AtMost, T, A, E

\* The values equal to v are those at most v and not below it.
LEMMA Ties ==
    ASSUME NEW y \in Seq(Int), NEW v \in Int
    PROVE  Cardinality({i \in DOMAIN y : y[i] = v}) = AtMost(y, v) - Below(y, v)
<1>. DEFINE T == {i \in DOMAIN y : y[i] <= v}
            U == {i \in DOMAIN y : y[i] < v}
<1>1. {i \in DOMAIN y : y[i] = v} = T \ U /\ T \cap U = U
  OBVIOUS
<1>2. IsFiniteSet(T)
  BY Places
<1>. HIDE DEF T, U
<1>3. Cardinality(T \ U) = Cardinality(T) - Cardinality(T \cap U)
  BY <1>2, FS_Difference
<1>. QED BY <1>1, <1>3 DEF AtMost, Below, T, U

\* Twice the mid-rank of a value among both samples.
Rank2(a, e, v) == Below(a, v) + AtMost(a, v) + Below(e, v) + AtMost(e, v) + 1

\* The rank that mann_whitney() gives a value, by counts of each sample.
LEMMA Ranked ==
    ASSUME NEW a \in Seq(Int), NEW e \in Seq(Int), NEW v \in Int
    PROVE  2 * Cardinality({i \in DOMAIN (a \o e) : (a \o e)[i] < v})
             + Cardinality({i \in DOMAIN (a \o e) : (a \o e)[i] = v}) + 1 = Rank2(a, e, v)
<1>1. PICK y \in Seq(Int) : y = a \o e
  BY Pooled
<1>2. v - 1 \in Int
  OBVIOUS
<1>3. AtMost(y, v) = AtMost(a, v) + AtMost(e, v)
  BY <1>1, Pooled
<1>4. AtMost(y, v - 1) = AtMost(a, v - 1) + AtMost(e, v - 1)
  BY <1>1, <1>2, Pooled
<1>5. Below(y, v) = Below(a, v) + Below(e, v)
  BY <1>4, BelowAtMost
<1>6. PICK c \in Nat, d \in Nat, f \in Nat, g \in Nat :
          /\ c = Below(a, v) /\ d = Below(e, v)
          /\ f = AtMost(a, v) /\ g = AtMost(e, v)
  BY Counts
<1>7. Cardinality({i \in DOMAIN y : y[i] = v}) = (f + g) - (c + d)
  BY <1>3, <1>5, <1>6, Ties
<1>8. Cardinality({i \in DOMAIN y : y[i] < v}) = c + d
  BY <1>5, <1>6 DEF Below
<1>9. Rank2(a, e, v) = c + f + d + g + 1
  BY <1>6 DEF Rank2
<1>10. 2 * (c + d) + ((f + g) - (c + d)) + 1 = c + f + d + g + 1
  OBVIOUS
<1>. QED BY <1>1, <1>7, <1>8, <1>9, <1>10

\* The rank sum of a against e: all pairs, those in which a is higher once more
\* and those in which it is lower once less.
LEMMA RankSum ==
    ASSUME NEW a \in Seq(Int), NEW e \in Seq(Int),
           NEW f, f = [i \in DOMAIN a |-> Rank2(a, e, a[i])]
    PROVE  Total(f) - Len(a) * (Len(a) + 1) =
               Above(a, e) - Above(e, a) + Len(a) * Len(e)
<1>. DEFINE f1 == [i \in DOMAIN a |-> Below(a, a[i])]
            f2 == [i \in DOMAIN a |-> AtMost(a, a[i])]
            f3 == [i \in DOMAIN a |-> Below(e, a[i])]
            f4 == [i \in DOMAIN a |-> AtMost(e, a[i])]
            f5 == [i \in 1 .. Len(a) |-> 1]
            g2 == [i \in 1 .. Len(a) |-> f1[i] + f2[i]]
            g3 == [i \in 1 .. Len(a) |-> g2[i] + f3[i]]
            g4 == [i \in 1 .. Len(a) |-> g3[i] + f4[i]]
<1>0. DOMAIN a = 1 .. Len(a) /\ Len(a) \in Nat /\ Len(e) \in Nat
  OBVIOUS
<1>1. f1 \in Seq(Int) /\ Len(f1) = Len(a) /\ Total(f1) = Above(a, a)
  BY BelowPairs
<1>2. /\ f2 \in Seq(Int) /\ Len(f2) = Len(a) /\ Above(a, a) \in Int
      /\ Total(f2) = Len(a) * Len(a) - Above(a, a)
  BY AtMostPairs
<1>3. f3 \in Seq(Int) /\ Len(f3) = Len(a) /\ Total(f3) = Above(a, e)
  BY BelowPairs
<1>4. /\ f4 \in Seq(Int) /\ Len(f4) = Len(a) /\ Above(e, a) \in Int
      /\ Total(f4) = Len(a) * Len(e) - Above(e, a)
  BY AtMostPairs
<1>5. Above(a, e) \in Int
  BY AtMostPairs
<1>6. f5 \in Seq(Int) /\ Len(f5) = Len(a) /\ Total(f5) = Len(a)
  <2>1. f5 \in Seq(Int) /\ Len(f5) = Len(a)
    BY <1>0, Listed
  <2>2. \A i \in 1 .. Len(f5) : 1 <= f5[i] /\ f5[i] <= 1
    BY <2>1
  <2>. HIDE DEF f5
  <2>3. Total(f5) \in Int /\ Len(f5) * 1 <= Total(f5) /\ Total(f5) <= Len(f5) * 1
    BY <2>1, <2>2, TotalBetween
  <2>. QED BY <1>0, <2>1, <2>3
<1>7. \A i \in 1 .. Len(a) :
         f[i] = f1[i] + f2[i] + f3[i] + f4[i] + f5[i]
  BY <1>0 DEF Rank2
<1>. HIDE DEF f1, f2, f3, f4, f5
<1>8. \A i \in 1 .. Len(a) : f1[i] \in Int /\ f2[i] \in Int /\ f3[i] \in Int
                             /\ f4[i] \in Int /\ f5[i] \in Int
  <2>1. ASSUME NEW h \in Seq(Int), Len(h) = Len(a) PROVE \A i \in 1 .. Len(a) : h[i] \in Int
    BY <2>1
  <2>2. \A i \in 1 .. Len(a) : f1[i] \in Int
    BY <1>1, <2>1
  <2>3. \A i \in 1 .. Len(a) : f2[i] \in Int
    BY <1>2, <2>1
  <2>4. \A i \in 1 .. Len(a) : f3[i] \in Int
    BY <1>3, <2>1
  <2>5. \A i \in 1 .. Len(a) : f4[i] \in Int
    BY <1>4, <2>1
  <2>6. \A i \in 1 .. Len(a) : f5[i] \in Int
    BY <1>6, <2>1
  <2>. QED BY <2>2, <2>3, <2>4, <2>5, <2>6
<1>9. g2 \in Seq(Int) /\ Len(g2) = Len(a) /\ \A i \in 1 .. Len(a) : g2[i] \in Int
  <2>1. g2 \in [1 .. Len(a) -> Int]
    BY <1>8
  <2>. QED BY <1>0, <2>1, Listed
<1>10. Total(g2) = Total(f1) + Total(f2)
  <2>1. \A i \in 1 .. Len(f1) : g2[i] = f1[i] + f2[i]
    BY <1>1
  <2>. HIDE DEF g2
  <2>2. AddsUp(f1, f2, g2)
    BY <1>1, <1>2, <1>9, <2>1 DEF AddsUp
  <2>. QED BY <2>2, TotalAdds
<1>11. g3 \in Seq(Int) /\ Len(g3) = Len(a) /\ \A i \in 1 .. Len(a) : g3[i] \in Int
  <2>1. g3 \in [1 .. Len(a) -> Int]
    <3>. HIDE DEF g2
    <3>. QED BY <1>8, <1>9
  <2>. QED BY <1>0, <2>1, Listed
<1>12. Total(g3) = Total(g2) + Total(f3)
  <2>1. \A i \in 1 .. Len(g2) : g3[i] = g2[i] + f3[i]
    BY <1>9
  <2>. HIDE DEF g2, g3
  <2>2. AddsUp(g2, f3, g3)
    BY <1>3, <1>9, <1>11, <2>1 DEF AddsUp
  <2>. QED BY <2>2, TotalAdds
<1>13. g4 \in Seq(Int) /\ Len(g4) = Len(a) /\ \A i \in 1 .. Len(a) : g4[i] \in Int
  <2>1. g4 \in [1 .. Len(a) -> Int]
    <3>. HIDE DEF g2, g3
    <3>. QED BY <1>8, <1>11
  <2>. QED BY <1>0, <2>1, Listed
<1>14. Total(g4) = Total(g3) + Total(f4)
  <2>1. \A i \in 1 .. Len(g3) : g4[i] = g3[i] + f4[i]
    BY <1>11
  <2>. HIDE DEF g3, g4
  <2>2. AddsUp(g3, f4, g4)
    BY <1>4, <1>11, <1>13, <2>1 DEF AddsUp
  <2>. QED BY <2>2, TotalAdds
<1>15. \A i \in 1 .. Len(a) : f[i] = g4[i] + f5[i] /\ f[i] \in Int
  <2>. SUFFICES ASSUME NEW i \in 1 .. Len(a) PROVE f[i] = g4[i] + f5[i] /\ f[i] \in Int
    OBVIOUS
  <2>1. g4[i] = f1[i] + f2[i] + f3[i] + f4[i]
    OBVIOUS
  <2>2. f[i] = g4[i] + f5[i]
    BY <1>7, <2>1
  <2>. HIDE DEF g2, g3, g4
  <2>. QED BY <1>8, <1>13, <2>2
<1>16. f \in Seq(Int) /\ Len(f) = Len(a)
  <2>1. f \in [1 .. Len(a) -> Int]
    BY <1>0, <1>15
  <2>. QED BY <1>0, <2>1, Listed
<1>. HIDE DEF g2, g3, g4
<1>17. Total(f) = Total(g4) + Total(f5)
  <2>1. \A i \in 1 .. Len(g4) : f[i] = g4[i] + f5[i]
    BY <1>13, <1>15
  <2>2. /\ Len(f5) = Len(g4) /\ Len(f) = Len(g4)
        /\ g4 \in Seq(Int) /\ f5 \in Seq(Int) /\ f \in Seq(Int)
    BY <1>6, <1>13, <1>16
  <2>3. AddsUp(g4, f5, f)
    BY <2>1, <2>2 DEF AddsUp
  <2>. QED BY <2>3, TotalAdds
<1>18. PICK m \in Nat, k \in Int, aa \in Int, ae \in Int, ea \in Int :
          /\ m = Len(a) /\ k = Len(a) * Len(e)
          /\ aa = Above(a, a) /\ ae = Above(a, e) /\ ea = Above(e, a)
  <2>1. Len(a) * Len(e) \in Int
    BY <1>0
  <2>. QED BY <1>0, <1>2, <1>4, <1>5, <2>1
<1>19. Total(f) = (((aa + (m * m - aa)) + ae) + (k - ea)) + m
  BY <1>1, <1>2, <1>3, <1>4, <1>6, <1>10, <1>12, <1>14, <1>17, <1>18
<1>20. m * (m + 1) = m * m + m /\ m * m \in Int
  OBVIOUS
<1>21. Total(f) - m * (m + 1) = ae - ea + k
  BY <1>19, <1>20
<1>. QED BY <1>18, <1>21

\* The U statistic and Cliff's delta tell the same story.
LEMMA UPairs ==
    ASSUME NEW a \in Seq(Int), NEW e \in Seq(Int), a # <<>>, e # <<>>
    PROVE  mann_whitney(a, e) = Above(a, e) - Above(e, a) + Len(a) * Len(e)
<1>. DEFINE R(v) == 2 * Cardinality({i \in DOMAIN (a \o e) : (a \o e)[i] < v})
                      + Cardinality({i \in DOMAIN (a \o e) : (a \o e)[i] = v}) + 1
<1>1. mann_whitney(a, e) = Total([i \in DOMAIN a |-> R(a[i])]) - Len(a) * (Len(a) + 1)
  BY DEF mann_whitney
<1>2. \A v \in Int : R(v) = Rank2(a, e, v)
  BY Ranked
<1>. HIDE DEF R
<1>3. [i \in DOMAIN a |-> R(a[i])] = [i \in DOMAIN a |-> Rank2(a, e, a[i])]
  BY <1>2
<1>. QED BY <1>1, <1>3, RankSum

-----------------------------------------------------------------------------
(* The percentile as the inverse of the interpolated distribution function *)

\* How far the units up to c have come, when those below lo count in full,
\* those from lo to hi count g and those above count nothing.
Come(lo, hi, g, c) ==
    IF c <= lo THEN Milli * c
    ELSE IF c <= hi THEN Milli * lo + g * (c - lo)
    ELSE Milli * lo + g * (hi - lo)

\* What one more unit adds.
Step(lo, hi, g, c) == IF c < lo THEN Milli ELSE IF c < hi THEN g ELSE 0

\* Adding unit by unit.
LEMMA ComeStep ==
    ASSUME NEW lo \in Int, NEW hi \in Int, lo <= hi, NEW g \in 0 .. (Milli - 1), NEW c \in Int
    PROVE  /\ Come(lo, hi, g, c + 1) = Come(lo, hi, g, c) + Step(lo, hi, g, c)
           /\ Come(lo, hi, g, c) \in Int
<1>0. g \in Int /\ Milli \in Int /\ Milli = 1000
  BY DEF Milli
<1>1. CASE c < lo
  <2>1. Come(lo, hi, g, c) = Milli * c /\ Come(lo, hi, g, c + 1) = Milli * (c + 1)
    BY <1>1 DEF Come
  <2>2. Step(lo, hi, g, c) = Milli
    BY <1>1 DEF Step
  <2>. QED BY <1>0, <2>1, <2>2
<1>2. CASE lo <= c /\ c < hi
  <2>1. PICK d \in Int : d = c - lo /\ (c + 1) - lo = d + 1
    BY <1>2
  <2>2. Come(lo, hi, g, c + 1) = Milli * lo + g * (d + 1)
    BY <1>2, <2>1 DEF Come
  <2>3. g * 0 = 0 /\ g * (d + 1) = g * d + g /\ g * d \in Int /\ Milli * lo \in Int
    BY <1>0
  <2>4. Come(lo, hi, g, c) = Milli * lo + g * d
    <3>1. CASE c = lo
      <4>1. d = 0 /\ Come(lo, hi, g, c) = Milli * lo
        BY <2>1, <3>1 DEF Come
      <4>. QED BY <2>3, <4>1
    <3>2. CASE c # lo
      BY <1>2, <2>1, <3>2 DEF Come
    <3>. QED BY <3>1, <3>2
  <2>5. Step(lo, hi, g, c) = g
    BY <1>2 DEF Step
  <2>6. PICK t \in Int, u \in Int : t = Milli * lo /\ u = g * d
    BY <2>3
  <2>7. t + (u + g) = (t + u) + g /\ t + u \in Int
    BY <1>0
  <2>. QED BY <2>2, <2>3, <2>4, <2>5, <2>6, <2>7
<1>3. CASE hi <= c
  <2>1. PICK d \in Int : d = hi - lo
    OBVIOUS
  <2>2. g * 0 = 0 /\ g * d \in Int /\ Milli * lo \in Int
    BY <1>0
  <2>3. Come(lo, hi, g, c + 1) = Milli * lo + g * d
    BY <1>3, <2>1 DEF Come
  <2>4. Come(lo, hi, g, c) = Milli * lo + g * d
    <3>1. CASE c = lo
      <4>1. d = 0 /\ Come(lo, hi, g, c) = Milli * lo
        BY <1>3, <2>1, <3>1 DEF Come
      <4>. QED BY <2>2, <4>1
    <3>2. CASE c = hi /\ c # lo
      <4>1. Come(lo, hi, g, c) = Milli * lo + g * (c - lo)
        BY <3>2 DEF Come
      <4>. QED BY <2>1, <3>2, <4>1
    <3>3. CASE c > hi
      BY <2>1, <3>3 DEF Come
    <3>. QED BY <1>3, <3>1, <3>2, <3>3
  <2>5. Step(lo, hi, g, c) = 0
    BY <1>3 DEF Step
  <2>. QED BY <2>2, <2>3, <2>4, <2>5
<1>. QED BY <1>1, <1>2, <1>3

\* At the end of the units they have come all the way.
LEMMA ComeEnd ==
    ASSUME NEW lo \in Int, NEW hi \in Int, lo <= hi, NEW g \in 0 .. (Milli - 1), NEW c \in Int,
           hi <= c
    PROVE  Come(lo, hi, g, c) = Milli * lo + g * (hi - lo)
<1>0. g \in Int /\ g * 0 = 0 /\ Milli * lo \in Int
  BY DEF Milli
<1>1. CASE c <= lo
  <2>1. hi - lo = 0 /\ c = lo
    BY <1>1
  <2>. QED BY <1>0, <1>1, <2>1 DEF Come
<1>2. CASE c > lo /\ c = hi
  BY <1>2 DEF Come
<1>3. CASE c > lo /\ c > hi
  BY <1>3 DEF Come
<1>. QED BY <1>1, <1>2, <1>3

\* How far the virtual index has moved into the gap behind f values, cut off at
\* the ends of the gap.
Cut(into) == IF into < 0 THEN 0 ELSE IF into > Milli THEN Milli ELSE into

\* With the virtual index g into the gap behind place i.
LEMMA CutPlace ==
    ASSUME NEW i \in Int, NEW g \in 0 .. (Milli - 1), NEW f \in Int
    PROVE  /\ f < i => Cut((Milli * (i - 1) + g) - (f - 1) * Milli) = Milli
           /\ f = i => Cut((Milli * (i - 1) + g) - (f - 1) * Milli) = g
           /\ f > i => Cut((Milli * (i - 1) + g) - (f - 1) * Milli) = 0
  BY DEF Cut, Milli

\* The percentile is the sum over the units.
LEMMA UnitsAgree ==
    ASSUME NEW y \in Seq(Int), y # <<>>, NEW q \in 0 .. Milli
    PROVE  Interpolated(y, q) = ByUnits(y, q)
<1>. DEFINE part(t) == Cut((Len(y) - 1) * q - (AtMost(y, t) - 1) * Milli)
<1>1. PICK lo \in Int, hi \in Int : lo = Min(Range(y)) /\ hi = Max(Range(y))
  BY MinMax
<1>2. PICK n \in Nat \ {0} : n = Len(y)
  BY NotEmpty
<1>3. PICK h \in Nat : h = (Len(y) - 1) * q /\ h \in 0 .. ((Len(y) - 1) * Milli)
                       /\ Interpolated(y, q) = At(y, h)
  <2>1. \A m \in 0 .. ((Len(y) - 1) * Milli) : m \in Nat
    BY <1>2 DEF Milli
  <2>. QED BY <2>1, InterpolatedAt
<1>4. PICK d \in Nat, g \in 0 .. (Milli - 1) : d = h \div Milli /\ g = h % Milli /\ h = Milli * d + g
  BY Split, Zenon
<1>5. PICK i \in 1 .. n : i = d + 1 /\ (g # 0 => i + 1 \in 1 .. n) /\ d = i - 1 /\ d + 2 = i + 1
  <2>1. d + 1 \in 1 .. n /\ (g # 0 => d + 2 \in 1 .. n)
    BY <1>2, <1>3, <1>4, Located
  <2>2. (d + 1) + 1 = d + 2 /\ d = (d + 1) - 1
    OBVIOUS
  <2>. QED BY <2>1, <2>2
<1>6. PICK si \in Int : si = sorted(y)[i]
  BY <1>2, SortedPlaces
<1>7. PICK sj \in Int : /\ i < n => sj = sorted(y)[i + 1]
                        /\ i = n => sj = hi
  <2>1. CASE i < n
    <3>1. i + 1 \in 1 .. n
      BY <2>1
    <3>. QED BY <1>2, <2>1, <3>1, SortedPlaces
  <2>2. CASE i = n
    BY <2>2
  <2>. QED BY <2>1, <2>2
<1>8. /\ lo <= si /\ si <= sj /\ sj <= hi /\ lo <= hi
      /\ \A k \in 1 .. n : sorted(y)[k] \in Int
      /\ i = n => si = hi
  <2>1. sorted(y)[1] = lo /\ sorted(y)[n] = hi
    BY <1>1, <1>2, SortedAscends
  <2>2. \A k, l \in 1 .. n : k <= l => sorted(y)[k] <= sorted(y)[l]
    BY <1>2, SortedAscends
  <2>3. lo <= si /\ si <= hi
    BY <1>6, <2>1, <2>2
  <2>4. CASE i < n
    <3>1. i + 1 \in 1 .. n /\ i <= i + 1 /\ i + 1 <= n /\ n \in 1 .. n
      BY <2>4
    <3>2. si <= sj /\ sj <= hi
      BY <1>6, <1>7, <2>1, <2>2, <2>4, <3>1
    <3>. QED BY <1>2, <2>3, <2>4, <3>2, SortedPlaces
  <2>5. CASE i = n
    BY <1>2, <1>6, <1>7, <2>1, <2>3, <2>5, SortedPlaces
  <2>. QED BY <2>4, <2>5
<1>9. ASSUME NEW c \in Int, c < hi PROVE part(c) = Step(si, sj, g, c)
  <2>1. PICK f \in Nat : f = AtMost(y, c)
    BY Counts
  <2>2. part(c) = Cut((Milli * (i - 1) + g) - (f - 1) * Milli)
    BY <1>3, <1>4, <1>5, <2>1
  <2>. HIDE DEF part
  <2>3. si <= c <=> i <= f
    BY <1>2, <1>6, <2>1, SortedCounts
  <2>4. i < n => (sj <= c <=> i + 1 <= f)
    <3>. SUFFICES ASSUME i < n PROVE sj <= c <=> i + 1 <= f
      OBVIOUS
    <3>1. i + 1 \in 1 .. Len(y)
      BY <1>2
    <3>. QED BY <1>7, <2>1, <3>1, SortedCounts
  <2>5. CASE c < si
    <3>1. f < i
      BY <2>3, <2>5
    <3>. QED BY <2>2, <2>5, <3>1, CutPlace DEF Step
  <2>6. CASE si <= c /\ c < sj
    <3>1. i # n
      BY <1>8, <1>9, <2>6
    <3>2. f = i
      BY <2>3, <2>4, <2>6, <3>1
    <3>3. part(c) = g
      BY <2>2, <3>2, CutPlace
    <3>. QED BY <2>6, <3>3 DEF Step
  <2>7. CASE sj <= c
    <3>1. i # n
      BY <1>7, <1>9, <2>7
    <3>2. f > i
      BY <2>4, <2>7, <3>1
    <3>3. part(c) = 0
      BY <2>2, <3>2, CutPlace
    <3>. QED BY <1>8, <2>7, <3>3 DEF Step
  <2>. QED BY <2>5, <2>6, <2>7
<1>. DEFINE units == [u \in 1 .. (hi - lo) |-> part(lo + u - 1)]
<1>10. ByUnits(y, q) = Milli * lo + Total(units)
  BY <1>1 DEF ByUnits, Cut, AtMost
<1>11. PICK m \in Nat : m = hi - lo
  BY <1>8
<1>. HIDE DEF part
<1>12. ASSUME NEW u \in 1 .. m
       PROVE  units[u] = Step(si, sj, g, lo + u - 1) /\ units[u] \in Int
  <2>1. PICK c \in Int : c = lo + u - 1
    OBVIOUS
  <2>2. c < hi
    BY <1>11, <2>1
  <2>3. units[u] = Step(si, sj, g, c)
    BY <1>9, <1>11, <2>1, <2>2
  <2>4. Step(si, sj, g, c) \in Int
    BY DEF Step, Milli
  <2>. QED BY <2>1, <2>3, <2>4
<1>13. units \in Seq(Int) /\ Len(units) = m
  <2>1. units \in [1 .. m -> Int]
    BY <1>11, <1>12
  <2>. HIDE DEF units
  <2>. QED BY <2>1, Listed
<1>. HIDE DEF units
<1>14. PICK s : PartialSums(s, units) /\ Total(units) = s[m]
  BY <1>13, TotalSums
<1>. DEFINE S == {u \in Nat : u <= m => Milli * lo + s[u] = Come(si, sj, g, lo + u)}
<1>15. 0 \in S
  <2>1. s[0] = 0 /\ lo + 0 = lo
    BY <1>14 DEF PartialSums
  <2>2. Come(si, sj, g, lo) = Milli * lo
    BY <1>8 DEF Come
  <2>3. Milli * lo + 0 = Milli * lo
    BY DEF Milli
  <2>. QED BY <2>1, <2>2, <2>3
<1>16. ASSUME NEW u \in Nat, u \in S PROVE u + 1 \in S
  <2>. SUFFICES ASSUME u + 1 <= m PROVE Milli * lo + s[u + 1] = Come(si, sj, g, lo + (u + 1))
    OBVIOUS
  <2>1. PICK c \in Int : c = lo + u /\ lo + (u + 1) = c + 1 /\ lo + (u + 1) - 1 = c
    OBVIOUS
  <2>2. u + 1 \in 1 .. m /\ (u + 1) - 1 = u /\ u \in 0 .. m
    OBVIOUS
  <2>3. s[u + 1] = s[u] + units[u + 1] /\ s[u] \in Int
    BY <1>13, <1>14, <2>2 DEF PartialSums
  <2>4. units[u + 1] = Step(si, sj, g, c) /\ units[u + 1] \in Int
    BY <1>12, <2>1, <2>2
  <2>5. Milli * lo + s[u] = Come(si, sj, g, c)
    BY <1>16, <2>1, <2>2
  <2>6. Come(si, sj, g, c + 1) = Come(si, sj, g, c) + Step(si, sj, g, c)
    BY <1>8, ComeStep
  <2>7. PICK t \in Int, v \in Int, w \in Int : t = Milli * lo /\ v = s[u] /\ w = units[u + 1]
    BY <2>3, <2>4 DEF Milli
  <2>8. t + (v + w) = (t + v) + w
    OBVIOUS
  <2>. QED BY <2>1, <2>3, <2>4, <2>5, <2>6, <2>7, <2>8
<1>. HIDE DEF S
<1>17. \A u \in Nat : u \in S
  BY <1>15, <1>16, SetInduction
<1>18. Milli * lo + s[m] = Come(si, sj, g, hi)
  <2>1. lo + m = hi
    BY <1>11
  <2>2. Milli * lo + s[m] = Come(si, sj, g, lo + m)
    BY <1>17 DEF S
  <2>. QED BY <2>1, <2>2
<1>19. Come(si, sj, g, hi) = Milli * si + g * (sj - si)
  BY <1>8, ComeEnd
<1>20. At(y, h) = Milli * si + g * (sj - si)
  <2>1. CASE g = 0
    <3>1. At(y, h) = Milli * si + 0
      BY <1>4, <1>5, <1>6, <2>1 DEF At
    <3>2. g * (sj - si) = 0
      BY <2>1
    <3>. QED BY <3>1, <3>2
  <2>2. CASE g # 0
    <3>1. i < n
      BY <1>5, <2>2
    <3>2. sj = sorted(y)[i + 1]
      BY <1>7, <3>1
    <3>. QED BY <1>4, <1>5, <1>6, <2>2, <3>2 DEF At
  <2>. QED BY <2>1, <2>2
<1>. QED BY <1>3, <1>10, <1>14, <1>18, <1>19, <1>20

-----------------------------------------------------------------------------
(* The statistics and the printed percentiles *)

\* Integer division keeps bounds.
LEMMA Quotient ==
    ASSUME NEW n \in Nat \ {0}, NEW t \in Int, NEW lo \in Int, NEW hi \in Int,
           n * lo <= t, t <= n * hi
    PROVE  t \div n \in Int /\ lo <= t \div n /\ t \div n <= hi
<1>1. PICK q \in Int : q = t \div n
  OBVIOUS
<1>2. n * q <= t /\ t < n * q + n
  BY <1>1
<1>3. /\ n * lo \in Int /\ n * hi \in Int /\ n * q \in Int
      /\ n * (q + 1) = n * q + n
  OBVIOUS
<1>4. n * lo < n * q + n
  BY <1>2, <1>3
<1>5. lo <= q
  BY <1>4
<1>6. n * q < n * hi + n
  BY <1>2, <1>3
<1>7. q <= hi
  BY <1>6
<1>. QED BY <1>1, <1>5, <1>7

\* The bounds of a statistic of the sample y: a location lies within the sample,
\* a deviation between nothing and the width of it.
Least(stat, y) == IF stat = "std" THEN 0 ELSE Min(Range(y))
Most(stat, y) == IF stat = "std" THEN Max(Range(y)) - Min(Range(y)) ELSE Max(Range(y))

\* v, in Milli, lies between them.
InRange(v, stat, y) ==
    v \in Int /\ Milli * Least(stat, y) <= v /\ v <= Milli * Most(stat, y)

\* The bounds are numbers.
LEMMA LeastMost ==
    ASSUME NEW y \in Seq(Int), y # <<>>, NEW stat
    PROVE  Least(stat, y) \in Int /\ Most(stat, y) \in Int
<1>1. PICK lo \in Int, hi \in Int : lo = Min(Range(y)) /\ hi = Max(Range(y))
  BY MinMax
<1>2. hi - lo \in Int
  OBVIOUS
<1>. QED BY <1>1, <1>2 DEF Least, Most

\* The mean lies within the sample.
LEMMA MeanWithin ==
    ASSUME NEW y \in Seq(Int), y # <<>>
    PROVE  /\ (Milli * Total(y)) \div Len(y) \in Int
           /\ Milli * Min(Range(y)) <= (Milli * Total(y)) \div Len(y)
           /\ (Milli * Total(y)) \div Len(y) <= Milli * Max(Range(y))
<1>1. PICK lo \in Int, hi \in Int : lo = Min(Range(y)) /\ hi = Max(Range(y))
  BY MinMax
<1>2. PICK n \in Nat \ {0} : n = Len(y) /\ DOMAIN y = 1 .. n
  BY NotEmpty
<1>3. \A i \in 1 .. Len(y) : lo <= y[i] /\ y[i] <= hi
  BY <1>1, <1>2, MinMax
<1>4. Total(y) \in Int /\ Len(y) * lo <= Total(y) /\ Total(y) <= Len(y) * hi
  BY <1>3, TotalBetween
<1>5. PICK t \in Int : t = Total(y)
  BY <1>4
<1>6. PICK lo1 \in Int, hi1 \in Int, t1 \in Int :
          lo1 = Milli * lo /\ hi1 = Milli * hi /\ t1 = Milli * t
  BY DEF Milli
<1>7. n * lo1 = Milli * (n * lo) /\ n * hi1 = Milli * (n * hi)
  BY <1>6 DEF Milli
<1>8. n * lo <= t /\ t <= n * hi /\ n * lo \in Int /\ n * hi \in Int
  BY <1>2, <1>4, <1>5
<1>9. n * lo1 <= t1 /\ t1 <= n * hi1
  BY <1>6, <1>7, <1>8 DEF Milli
<1>10. t1 \div n \in Int /\ lo1 <= t1 \div n /\ t1 \div n <= hi1
  BY <1>9, Quotient
<1>. QED BY <1>1, <1>2, <1>5, <1>6, <1>10

\* A deviation of two values or more is a number, not negative and not above the
\* width of the sample: of the numbers that fit, there is a largest.
LEMMA DeviationBetween ==
    ASSUME NEW y \in Seq(Int), Len(y) > 1
    PROVE  InRange(deviation(y), "std", y)
<1>1. y # <<>>
  BY EmptySeq
<1>2. PICK lo \in Int, hi \in Int : lo = Min(Range(y)) /\ hi = Max(Range(y)) /\ lo <= hi
  <2>1. PICK lo \in Int, hi \in Int : lo = Min(Range(y)) /\ hi = Max(Range(y))
    BY <1>1, MinMax
  <2>2. lo <= hi
    BY <1>1, <2>1, MinMax, NotEmpty
  <2>. QED BY <2>1, <2>2
<1>3. PICK w \in Nat : w = Milli * (hi - lo)
  BY <1>2 DEF Milli
<1>. DEFINE fits(m) == m * m * Len(y) * (Len(y) - 1) <= Milli * Milli * spread(y)
            R == {m \in 0 .. w : m = 0 \/ fits(m)}
            chosen(m) == (m = 0 \/ fits(m)) /\ (m = w \/ ~fits(m + 1))
<1>4. ~(Len(y) < 2)
  OBVIOUS
<1>5. deviation(y) = CHOOSE m \in 0 .. w : chosen(m)
  BY <1>2, <1>3, <1>4 DEF deviation
<1>. HIDE DEF fits
<1>6. \E m \in 0 .. w : chosen(m)
  <2>1. PICK z : z = [i \in 1 .. (w + 1) |-> i]
    OBVIOUS
  <2>2. z \in Seq(Int) /\ DOMAIN z = 1 .. (w + 1)
    <3>1. z \in [1 .. (w + 1) -> Int] /\ w + 1 \in Nat
      BY <2>1
    <3>. QED BY <3>1, Listed
  <2>3. PICK T : T = {i \in 1 .. (w + 1) : i - 1 \in R}
    OBVIOUS
  <2>4. 1 \in T /\ T \in SUBSET DOMAIN z
    BY <2>2, <2>3
  <2>5. PICK i \in T : \A j \in T : z[j] <= z[i]
    BY <2>2, <2>4, Extremes
  <2>6. PICK m \in 0 .. w : m = i - 1 /\ m \in R
    BY <2>3, <2>5
  <2>7. m # w => ~fits(m + 1)
    <3>. SUFFICES ASSUME m # w, fits(m + 1) PROVE FALSE
      OBVIOUS
    <3>1. m + 1 \in 0 .. w
      BY <2>6
    <3>2. m + 1 \in R
      BY <3>1
    <3>3. i + 1 \in 1 .. (w + 1) /\ (i + 1) - 1 = m + 1
      BY <2>6, <3>1, <2>5, <2>3
    <3>4. i + 1 \in T
      BY <2>3, <3>2, <3>3
    <3>5. z[i + 1] = i + 1 /\ z[i] = i
      BY <2>1, <2>3, <2>5, <3>3
    <3>6. i + 1 <= i
      BY <2>5, <3>4, <3>5
    <3>. QED BY <2>3, <2>5, <3>6
  <2>. QED BY <2>6, <2>7
<1>7. PICK m \in 0 .. w : m = deviation(y)
  <2>. HIDE DEF chosen
  <2>. QED BY <1>5, <1>6
<1>8. Least("std", y) = 0 /\ Most("std", y) = hi - lo
  BY <1>2 DEF Least, Most
<1>9. Milli * 0 = 0
  BY DEF Milli
<1>. QED BY <1>3, <1>7, <1>8, <1>9 DEF InRange

\* What resolve_statistic() makes of a name.
LEMMA StatisticCases ==
    ASSUME NEW y, NEW stat \in Statistics
    PROVE  \/ stat \in DOMAIN Quantiles /\ stat # "std"
              /\ Statistic(stat, y) = Interpolated(y, Quantiles[stat])
           \/ stat = "mean" /\ Statistic(stat, y) = (Milli * Total(y)) \div Len(y)
           \/ stat = "median" /\ Statistic(stat, y) = Interpolated(y, 500)
           \/ stat = "max" /\ Statistic(stat, y) = Milli * Max(Range(y))
           \/ stat = "min" /\ Statistic(stat, y) = Milli * Min(Range(y))
           \/ stat = "std" /\ Statistic(stat, y) = deviation(y)
<1>0. "mean" \notin DOMAIN Quantiles /\ "median" \notin DOMAIN Quantiles
      /\ "max" \notin DOMAIN Quantiles /\ "min" \notin DOMAIN Quantiles
      /\ "std" \notin DOMAIN Quantiles
  BY QuantilesAssumption
<1>1. CASE stat \in DOMAIN Quantiles
  <2>1. stat # "mean" /\ stat # "median" /\ stat # "max" /\ stat # "min" /\ stat # "std"
    BY <1>0, <1>1
  <2>. QED BY <1>1, <2>1 DEF Statistic
<1>2. CASE stat = "mean"
  BY <1>0, <1>2 DEF Statistic
<1>3. CASE stat = "median"
  BY <1>0, <1>3 DEF Statistic
<1>4. CASE stat = "max"
  BY <1>0, <1>4 DEF Statistic
<1>5. CASE stat = "min"
  BY <1>0, <1>5 DEF Statistic
<1>6. CASE stat = "std"
  BY <1>0, <1>6 DEF Statistic
<1>. QED BY <1>1, <1>2, <1>3, <1>4, <1>5, <1>6 DEF Statistics

\* The number of values a statistic needs.
Needs(stat) == IF stat = "std" THEN 2 ELSE 1

\* Every statistic that resolve_statistic() accepts lies within its bounds once
\* there are values enough.
LEMMA StatisticWithin ==
    ASSUME NEW y \in Seq(Int), NEW stat \in Statistics, Len(y) >= Needs(stat)
    PROVE  InRange(Statistic(stat, y), stat, y)
<1>0. y # <<>>
  BY EmptySeq DEF Needs
<1>1. CASE stat = "std"
  <2>1. Len(y) > 1
    BY <1>1 DEF Needs
  <2>2. Statistic(stat, y) = deviation(y)
    BY <1>1, StatisticCases
  <2>. QED BY <1>1, <2>1, <2>2, DeviationBetween
<1>2. CASE stat # "std"
  <2>1. PICK lo \in Int, hi \in Int : lo = Min(Range(y)) /\ hi = Max(Range(y)) /\ lo <= hi
    <3>1. PICK lo \in Int, hi \in Int : lo = Min(Range(y)) /\ hi = Max(Range(y))
      BY <1>0, MinMax
    <3>2. lo <= hi
      BY <1>0, <3>1, MinMax, NotEmpty
    <3>. QED BY <3>1, <3>2
  <2>2. Least(stat, y) = lo /\ Most(stat, y) = hi
    BY <1>2, <2>1 DEF Least, Most
  <2>3. Milli * lo <= Milli * hi /\ Milli * lo \in Int /\ Milli * hi \in Int
    BY <2>1 DEF Milli
  <2>4. ASSUME NEW q \in 0 .. Milli, Statistic(stat, y) = Interpolated(y, q)
        PROVE  InRange(Statistic(stat, y), stat, y)
    BY <1>0, <2>1, <2>2, <2>4, InterpolatedWithin DEF InRange
  <2>5. CASE stat \in DOMAIN Quantiles /\ Statistic(stat, y) = Interpolated(y, Quantiles[stat])
    <3>1. Quantiles[stat] \in 0 .. Milli
      BY <2>5, QuantilesAssumption
    <3>. QED BY <2>4, <2>5, <3>1
  <2>6. CASE Statistic(stat, y) = (Milli * Total(y)) \div Len(y)
    BY <1>0, <2>1, <2>2, <2>6, MeanWithin DEF InRange
  <2>7. CASE Statistic(stat, y) = Interpolated(y, 500)
    <3>1. 500 \in 0 .. Milli
      BY DEF Milli
    <3>. QED BY <2>4, <2>7, <3>1
  <2>8. CASE Statistic(stat, y) = Milli * Max(Range(y))
    BY <2>1, <2>2, <2>3, <2>8 DEF InRange
  <2>9. CASE Statistic(stat, y) = Milli * Min(Range(y))
    BY <2>1, <2>2, <2>3, <2>9 DEF InRange
  <2>. QED BY <1>2, <2>5, <2>6, <2>7, <2>8, <2>9, StatisticCases
<1>. QED BY <1>1, <1>2

\* With too few it is nan: the deviation of a single value.
LEMMA StatisticOfFew ==
    ASSUME NEW y \in Seq(Int), y # <<>>, NEW stat \in Statistics, Len(y) < Needs(stat)
    PROVE  stat = "std" /\ Statistic(stat, y) = NaN
<1>1. Len(y) >= 1
  BY NotEmpty
<1>2. stat = "std" /\ Len(y) < 2
  BY <1>1 DEF Needs
<1>3. Statistic(stat, y) = deviation(y)
  BY <1>2, StatisticCases
<1>. QED BY <1>2, <1>3 DEF deviation

\* The statistic of a resample lies within the sample it was drawn from.
LEMMA ResampleWithin ==
    ASSUME NEW y \in Seq(Int), Len(y) > 1, NEW stat \in Statistics,
           NEW r \in [DOMAIN y -> Range(y)]
    PROVE  InRange(Statistic(stat, r), stat, y)
<1>0. y # <<>>
  BY EmptySeq
<1>1. PICK n \in Nat \ {0} : n = Len(y) /\ DOMAIN y = 1 .. n
  BY <1>0, NotEmpty
<1>2. Range(y) \subseteq Int
  BY DEF Range
<1>3. r \in [1 .. n -> Int] /\ 1 \in 1 .. n
  BY <1>1, <1>2
<1>4. r \in Seq(Int) /\ Len(r) = n
  BY <1>3, Listed
<1>5. r # <<>>
  BY <1>4, EmptySeq
<1>6. Range(r) \subseteq Range(y)
  BY <1>1 DEF Range
<1>7. PICK lo \in Int, hi \in Int : lo = Min(Range(y)) /\ hi = Max(Range(y))
  BY <1>0, MinMax
<1>8. PICK lor \in Int, hir \in Int : lor = Min(Range(r)) /\ hir = Max(Range(r))
                                      /\ lor \in Range(r) /\ hir \in Range(r)
  BY <1>4, <1>5, MinMax
<1>9. lo <= lor /\ hir <= hi
  <2>1. \A v \in Range(y) : lo <= v /\ v <= hi
    BY <1>0, <1>7, MinMax DEF Range
  <2>. QED BY <1>6, <1>8, <2>1
<1>10. PICK least \in Int, most \in Int, leastr \in Int, mostr \in Int :
           /\ least = Least(stat, y) /\ most = Most(stat, y)
           /\ leastr = Least(stat, r) /\ mostr = Most(stat, r)
  BY <1>0, <1>4, <1>5, LeastMost
<1>11. least <= leastr /\ mostr <= most
  <2>1. CASE stat = "std"
    <3>1. least = 0 /\ leastr = 0 /\ most = hi - lo /\ mostr = hir - lor
      BY <1>7, <1>8, <1>10, <2>1 DEF Least, Most
    <3>. QED BY <1>9, <3>1
  <2>2. CASE stat # "std"
    <3>1. least = lo /\ leastr = lor /\ most = hi /\ mostr = hir
      BY <1>7, <1>8, <1>10, <2>2 DEF Least, Most
    <3>. QED BY <1>9, <3>1
  <2>. QED BY <2>1, <2>2
<1>12. InRange(Statistic(stat, r), stat, r)
  <2>1. Len(r) >= Needs(stat)
    BY <1>1, <1>4 DEF Needs
  <2>. QED BY <1>4, <2>1, StatisticWithin
<1>13. PICK v \in Int : v = Statistic(stat, r) /\ Milli * leastr <= v /\ v <= Milli * mostr
  BY <1>10, <1>12 DEF InRange
<1>14. Milli * least <= v /\ v <= Milli * most
  BY <1>11, <1>13 DEF Milli
<1>. QED BY <1>10, <1>13, <1>14 DEF InRange

\* A percentile of values between two bounds lies between them.
LEMMA PercentileBetween ==
    ASSUME NEW z \in Seq(Int), z # <<>>, NEW q \in 0 .. Milli, NEW lo \in Int, NEW hi \in Int,
           \A i \in DOMAIN z : lo <= z[i] /\ z[i] <= hi
    PROVE  /\ Interpolated(z, q) \in Int
           /\ Milli * lo <= Interpolated(z, q) /\ Interpolated(z, q) <= Milli * hi
<1>1. PICK loz \in Int, hiz \in Int : loz = Min(Range(z)) /\ hiz = Max(Range(z))
                                      /\ loz \in Range(z) /\ hiz \in Range(z)
  BY MinMax
<1>2. lo <= loz /\ hiz <= hi
  BY <1>1 DEF Range
<1>3. /\ Milli * lo <= Milli * loz /\ Milli * hiz <= Milli * hi
      /\ Milli * lo \in Int /\ Milli * loz \in Int /\ Milli * hi \in Int /\ Milli * hiz \in Int
  BY <1>2 DEF Milli
<1>4. /\ Interpolated(z, q) \in Int
      /\ Milli * loz <= Interpolated(z, q) /\ Interpolated(z, q) <= Milli * hiz
  BY <1>1, InterpolatedWithin
<1>. QED BY <1>2, <1>4 DEF Milli

\* A percentile whose virtual index is at or before place k is not above the
\* value there.
LEMMA NotAbovePlace ==
    ASSUME NEW y \in Seq(Int), y # <<>>, NEW q \in 0 .. Milli, NEW k \in 1 .. Len(y),
           (Len(y) - 1) * q <= Milli * (k - 1)
    PROVE  Milli * sorted(y)[k] \in Interpolated(y, q) .. Milli * Max(Range(y))
<1>1. PICK h \in 0 .. ((Len(y) - 1) * Milli) :
          h = (Len(y) - 1) * q /\ Interpolated(y, q) = At(y, h)
  BY InterpolatedAt
<1>2. PICK m \in 0 .. ((Len(y) - 1) * Milli) :
          m = Milli * (k - 1) /\ At(y, m) = Milli * sorted(y)[k]
  BY AtPlace
<1>3. At(y, h) <= At(y, m)
  BY <1>1, <1>2, AtGrows
<1>4. PICK c \in Int, hi \in Int : c = sorted(y)[k] /\ hi = Max(Range(y))
  BY SortedPlaces, MinMax
<1>5. c <= hi
  <2>1. Len(y) \in 1 .. Len(y) /\ k <= Len(y)
    BY NotEmpty
  <2>. QED BY <1>4, <2>1, SortedAscends
<1>6. Milli * c \in Int /\ Milli * hi \in Int /\ Milli * c <= Milli * hi
  BY <1>5 DEF Milli
<1>7. Interpolated(y, q) \in Int
  BY InterpolatedWithin
<1>. QED BY <1>1, <1>2, <1>3, <1>4, <1>6, <1>7

\* What the workload prints, against what the analysis computes.
LEMMA PrintedPlaces ==
    ASSUME NEW y \in Seq(Int), y # <<>>
    PROVE  /\ printed_p50(y) \in Interpolated(y, 500) .. (Milli * Max(Range(y)))
           /\ printed_p99(y) \in Interpolated(y, 990) .. (Milli * Max(Range(y)))
<1>1. PICK n \in Nat \ {0} : n = Len(y)
  BY NotEmpty
<1>2. PICK k \in Nat : k = n \div 2
  OBVIOUS
<1>3. 2 * k <= n /\ n <= 2 * k + 1
  BY <1>2
<1>4. k + 1 \in 1 .. n /\ (k + 1) - 1 = k
  BY <1>3
<1>5. (n - 1) * 500 <= Milli * ((k + 1) - 1) /\ 500 \in 0 .. Milli
  BY <1>3, <1>4 DEF Milli
<1>6. printed_p50(y) \in Interpolated(y, 500) .. (Milli * Max(Range(y)))
  BY <1>1, <1>2, <1>4, <1>5, NotAbovePlace DEF printed_p50
<1>7. PICK m \in Nat : m = n * 99
  OBVIOUS
<1>8. PICK l \in Nat : l = m \div 100
  OBVIOUS
<1>9. 100 * l <= m /\ m <= 100 * l + 99
  BY <1>8
<1>10. l + 1 \in 1 .. n /\ (l + 1) - 1 = l
  BY <1>7, <1>9
<1>11. (n - 1) * 990 <= Milli * ((l + 1) - 1) /\ 990 \in 0 .. Milli
  BY <1>7, <1>9, <1>10 DEF Milli
<1>12. printed_p99(y) \in Interpolated(y, 990) .. (Milli * Max(Range(y)))
  BY <1>1, <1>7, <1>8, <1>10, <1>11, NotAbovePlace DEF printed_p99
<1>. QED BY <1>6, <1>12

-----------------------------------------------------------------------------
(* The inductive invariant of compare() *)

\* What bootstrap_ci() may return for the sample y.
Computed(ci, y) == Within(ci, y) /\ ci.point \in Int \cup {NaN}

\* Types, and which phase follows which.
PhaseInv ==
    /\ in \in Arguments /\ side \in {"base", "prop"}
    /\ stage \in {"begin", "resample", "interval", "tests", "done", "raised"}
    /\ stage \in {"tests", "done"} => side = "prop"

\* While the loop runs, the slots below done hold statistics of resamples.
LoopInv ==
    /\ boots \in Seq(Int \cup {Garbage}) /\ done \in 0 .. Len(boots)
    /\ stage \in {"resample", "interval"} =>
         /\ Len(x) > 1 /\ in.stat \in Statistics
         /\ in.n_boot > 0 /\ Len(boots) = in.n_boot
         /\ \A i \in 1 .. done : InRange(boots[i], in.stat, x)
    /\ stage = "interval" => done = Len(boots)

\* The intervals that have been computed are sound.
CiInv ==
    /\ side = "prop" => Computed(b, in.base)
    /\ stage \in {"tests", "done"} => Computed(p, in.prop)

\* The result is what Tests made of them.
ResultInv ==
    /\ stage # "done" => result = None
    /\ stage = "done" =>
         result = [improvement |-> improvement(b.point, p.point),
                   u           |-> mann_whitney(in.base, in.prop),
                   delta       |-> cliffs_delta(in.base, in.prop),
                   effect      |-> describe_delta(cliffs_delta(in.base, in.prop))]

Inv == PhaseInv /\ LoopInv /\ CiInv /\ ResultInv

\* The arguments of compare().
LEMMA InputTypes ==
    ASSUME in \in Arguments
    PROVE  /\ in.base \in Seq(Int) /\ in.prop \in Seq(Int) /\ in.n_boot \in Int
           /\ x \in Seq(Int)
<1>1. in.base \in Seq(Int) /\ in.prop \in Seq(Int) /\ in.n_boot \in Int
  BY ComparisonAssumption
<1>. QED BY <1>1 DEF x

\* compare() starts with nothing computed.
LEMMA InitInv == CompareInit => Inv
<1>. SUFFICES ASSUME CompareInit PROVE Inv
  OBVIOUS
<1>1. PhaseInv
  BY DEF CompareInit, PhaseInv
<1>2. LoopInv
  <2>1. boots \in Seq(Int \cup {Garbage}) /\ Len(boots) = 0 /\ done = 0 /\ stage = "begin"
    BY DEF CompareInit
  <2>. QED BY <2>1 DEF LoopInv
<1>3. CiInv
  BY DEF CompareInit, CiInv
<1>4. ResultInv
  BY DEF CompareInit, ResultInv
<1>. QED BY <1>1, <1>2, <1>3, <1>4 DEF Inv

\* A sound interval that bootstrap_ci() returns keeps the invariant.
LEMMA ReturnInv ==
    ASSUME Inv, stage \in {"begin", "interval"}, NEW ci, Computed(ci, x), Return(ci)
    PROVE  Inv'
<1>0. /\ boots' = <<>> /\ done' = 0 /\ in' = in /\ result' = result
      /\ \/ /\ side = "base" /\ b' = ci /\ side' = "prop" /\ stage' = "begin" /\ p' = p
         \/ /\ side = "prop" /\ p' = ci /\ stage' = "tests" /\ side' = side /\ b' = b
  BY DEF Return, Inv, PhaseInv
<1>1. PhaseInv'
  BY <1>0 DEF Inv, PhaseInv
<1>2. LoopInv'
  <2>1. boots' \in Seq(Int \cup {Garbage}) /\ Len(boots') = 0
    BY <1>0
  <2>2. stage' \notin {"resample", "interval"}
    BY <1>0
  <2>3. done' \in 0 .. Len(boots')
    BY <1>0, <2>1
  <2>. QED BY <2>1, <2>2, <2>3 DEF LoopInv
<1>3. CiInv'
  <2>1. CASE side = "base"
    <3>1. Computed(ci, in.base)
      BY <2>1 DEF x
    <3>2. b' = ci /\ in' = in /\ stage' = "begin"
      BY <1>0, <2>1
    <3>3. Computed(b, in.base)'
      BY <3>1, <3>2 DEF Computed, Within, Undetermined
    <3>. QED BY <3>2, <3>3 DEF CiInv
  <2>2. CASE side = "prop"
    <3>1. Computed(ci, in.prop) /\ Computed(b, in.base)
      BY <2>2 DEF x, Inv, CiInv
    <3>2. b' = b /\ p' = ci /\ in' = in
      BY <1>0, <2>2
    <3>3. Computed(b, in.base)' /\ Computed(p, in.prop)'
      BY <3>1, <3>2 DEF Computed, Within, Undetermined
    <3>. QED BY <3>3 DEF CiInv
  <2>. QED BY <1>0, <2>1, <2>2
<1>4. ResultInv'
  BY <1>0 DEF Inv, ResultInv
<1>. QED BY <1>1, <1>2, <1>3, <1>4 DEF Inv

\* An empty sample has no interval.
LEMMA EmptyInv == Inv /\ Empty => Inv'
<1>. SUFFICES ASSUME Inv, Empty PROVE Inv'
  OBVIOUS
<1>1. PICK ci : ci = NoInterval
  OBVIOUS
<1>2. Return(ci) /\ stage = "begin" /\ x = <<>>
  BY <1>1 DEF Empty
<1>3. Computed(ci, x)
  <2>1. PICK y : y = x /\ Len(y) = 0
    BY <1>2
  <2>2. Undetermined(y)
    BY <2>1 DEF Undetermined
  <2>3. ci.point = NaN /\ ci.low = NaN /\ ci.high = NaN
    BY <1>1 DEF NoInterval
  <2>. QED BY <2>1, <2>2, <2>3 DEF Computed, Within
<1>. QED BY <1>2, <1>3, ReturnInv

\* An interval of numbers within the bounds of the statistic is what it should be.
LEMMA ComputedIs ==
    ASSUME x \in Seq(Int), Len(x) >= Needs(in.stat), NEW v \in Int, NEW low \in Int, NEW high \in Int,
           low <= high, Milli * (Milli * Least(in.stat, x)) <= low,
           high <= Milli * (Milli * Most(in.stat, x)),
           NEW ci, ci = [point |-> v, low |-> low, high |-> high]
    PROVE  Computed(ci, x)
<1>1. ci.point = v /\ ci.low = low /\ ci.high = high
  OBVIOUS
<1>2. v # NaN /\ low # NaN /\ high # NaN
  BY NaNAssumption
<1>3. PICK y, stat : y = x /\ stat = in.stat
  OBVIOUS
<1>4. y # <<>> /\ Len(y) \in Nat
  BY <1>3, EmptySeq DEF Needs
<1>5. ~Undetermined(y)
  BY <1>3, <1>4 DEF Undetermined, Needs
<1>6. PICK lo \in Int, hi \in Int : lo = Min(Range(y)) /\ hi = Max(Range(y))
  BY <1>3, <1>4, MinMax
<1>7. stat = "std" => 0 <= low
  <2>. SUFFICES ASSUME stat = "std" PROVE 0 <= low
    OBVIOUS
  <2>1. Milli * (Milli * 0) <= low
    BY <1>3 DEF Least
  <2>. QED BY <2>1 DEF Milli
<1>8. stat # "std" => Milli * Milli * lo <= low /\ high <= Milli * Milli * hi
  <2>. SUFFICES ASSUME stat # "std" PROVE Milli * Milli * lo <= low /\ high <= Milli * Milli * hi
    OBVIOUS
  <2>1. Milli * (Milli * lo) <= low /\ high <= Milli * (Milli * hi)
    BY <1>3, <1>6 DEF Least, Most
  <2>. QED BY <2>1 DEF Milli
<1>9. ~Undetermined(y) =>
         /\ ci.low <= ci.high
         /\ IF in.stat = "std" THEN 0 <= ci.low
            ELSE /\ Milli * Milli * Min(Range(y)) <= ci.low
                 /\ ci.high <= Milli * Milli * Max(Range(y))
  BY <1>1, <1>3, <1>6, <1>7, <1>8
<1>10. /\ (ci.point = NaN) = Undetermined(y)
       /\ (ci.low = NaN) = Undetermined(y)
       /\ (ci.high = NaN) = Undetermined(y)
  <2>1. Undetermined(y) = FALSE
    BY <1>5 DEF Undetermined
  <2>. QED BY <1>1, <1>2, <2>1
<1>11. Within(ci, y)
  BY <1>9, <1>10 DEF Within
<1>. QED BY <1>1, <1>3, <1>11 DEF Computed

\* Without resamples the interval is the point.
LEMMA PointOnlyInv == Inv /\ PointOnly => Inv'
<1>. SUFFICES ASSUME Inv, PointOnly PROVE Inv'
  OBVIOUS
<1>1. x \in Seq(Int) /\ x # <<>> /\ in.stat \in Statistics /\ stage = "begin"
  BY InputTypes DEF PointOnly, Inv, PhaseInv
<1>2. Return([point |-> point, low |-> Scaled(point), high |-> Scaled(point)])
  BY DEF PointOnly
<1>3. CASE Len(x) < Needs(in.stat)
  <2>1. in.stat = "std" /\ point = NaN
    BY <1>1, <1>3, StatisticOfFew DEF point
  <2>2. PICK ci : ci = [point |-> NaN, low |-> NaN, high |-> NaN]
    OBVIOUS
  <2>3. Return(ci)
    BY <1>2, <2>1, <2>2 DEF Scaled
  <2>4. ci.point = NaN /\ ci.low = NaN /\ ci.high = NaN
    BY <2>2
  <2>5. PICK y : y = x
    OBVIOUS
  <2>6. Undetermined(y)
    BY <1>3, <2>1, <2>5 DEF Undetermined, Needs
  <2>7. Computed(ci, x)
    BY <2>4, <2>5, <2>6 DEF Computed, Within
  <2>. QED BY <1>1, <2>3, <2>7, ReturnInv
<1>4. CASE Len(x) >= Needs(in.stat)
  <2>1. InRange(point, in.stat, x)
    BY <1>1, <1>4, StatisticWithin DEF point
  <2>2. PICK v \in Int, least \in Int, most \in Int :
            /\ v = point /\ least = Least(in.stat, x) /\ most = Most(in.stat, x)
            /\ Milli * least <= v /\ v <= Milli * most
    BY <1>1, <2>1, LeastMost DEF InRange
  <2>3. PICK w \in Int : w = v * Milli /\ Milli * (Milli * least) <= w /\ w <= Milli * (Milli * most)
    BY <2>2 DEF Milli
  <2>4. Scaled(point) = w
    BY <2>2, <2>3, NaNAssumption DEF Scaled
  <2>5. PICK ci : ci = [point |-> v, low |-> w, high |-> w]
    OBVIOUS
  <2>6. Return(ci)
    BY <1>2, <2>2, <2>4, <2>5
  <2>7. Computed(ci, x)
    BY <1>1, <1>4, <2>2, <2>3, <2>5, ComputedIs
  <2>. QED BY <1>1, <2>6, <2>7, ReturnInv
<1>5. Len(x) < Needs(in.stat) \/ Len(x) >= Needs(in.stat)
  BY <1>1 DEF Needs
<1>. QED BY <1>3, <1>4, <1>5

\* An unknown name raises before anything is computed.
LEMMA UnknownInv == Inv /\ UnknownStatistic => Inv'
<1>. SUFFICES ASSUME Inv, UnknownStatistic PROVE Inv'
  OBVIOUS
<1>0. stage = "begin" /\ stage' = "raised" /\ UNCHANGED <<in, side, boots, done, b, p, result>>
  BY DEF UnknownStatistic, loop
<1>1. PhaseInv'
  BY <1>0 DEF Inv, PhaseInv
<1>2. LoopInv'
  BY <1>0 DEF Inv, LoopInv
<1>3. CiInv'
  BY <1>0 DEF Inv, CiInv, Computed, Within, Undetermined
<1>4. ResultInv'
  BY <1>0 DEF Inv, ResultInv
<1>. QED BY <1>1, <1>2, <1>3, <1>4 DEF Inv

\* The array starts with n_boot slots, none of them written.
LEMMA StartLoopInv == Inv /\ StartLoop => Inv'
<1>. SUFFICES ASSUME Inv, StartLoop PROVE Inv'
  OBVIOUS
<1>0. /\ stage = "begin" /\ stage' = "resample" /\ UNCHANGED <<in, side, b, p, result>>
      /\ done' = 0 /\ boots' = [i \in 1 .. in.n_boot |-> Garbage]
      /\ in.stat \in Statistics /\ Len(x) > 1 /\ in.n_boot > 0
  BY DEF StartLoop
<1>1. PhaseInv'
  BY <1>0 DEF Inv, PhaseInv
<1>2. LoopInv'
  <2>1. PICK n \in Nat : n = in.n_boot
    BY <1>0, InputTypes DEF Inv, PhaseInv
  <2>2. boots' \in [1 .. n -> Int \cup {Garbage}]
    BY <1>0, <2>1
  <2>3. boots' \in Seq(Int \cup {Garbage}) /\ Len(boots') = n
    <3>1. PICK z : z = boots'
      OBVIOUS
    <3>2. z \in Seq(Int \cup {Garbage}) /\ Len(z) = n
      BY <2>2, <3>1, SeqDef
    <3>. QED BY <3>1, <3>2
  <2>4. x' = x
    BY <1>0 DEF x
  <2>5. Len(x) > 1
    BY <1>0
  <2>6. done' \in 0 .. Len(boots') /\ 1 .. done' = {}
    <3>1. 0 \in 0 .. n /\ 1 .. 0 = {}
      OBVIOUS
    <3>. QED BY <1>0, <2>3, <3>1
  <2>. QED BY <1>0, <2>1, <2>3, <2>4, <2>5, <2>6 DEF LoopInv
<1>3. CiInv'
  BY <1>0 DEF Inv, CiInv, Computed, Within, Undetermined
<1>4. ResultInv'
  BY <1>0 DEF Inv, ResultInv
<1>. QED BY <1>1, <1>2, <1>3, <1>4 DEF Inv

\* Whatever the generator draws, the statistic is within the sample.
LEMMA ResampledWithin ==
    ASSUME in \in Arguments, Len(x) > 1, in.stat \in Statistics, NEW v \in Resampled
    PROVE  InRange(v, in.stat, x)
<1>1. PICK r \in [DOMAIN x -> Range(x)] : v = Statistic(in.stat, r)
  BY DEF Resampled
<1>2. x \in Seq(Int)
  BY InputTypes
<1>3. PICK y, stat : y = x /\ stat = in.stat
  OBVIOUS
<1>4. InRange(Statistic(stat, r), stat, y)
  BY <1>1, <1>2, <1>3, ResampleWithin
<1>. QED BY <1>1, <1>3, <1>4

\* A chunk fills the slots behind done and no others, and never passes the end.
LEMMA ResampleInv == Inv /\ Resample => Inv'
<1>. SUFFICES ASSUME Inv, Resample PROVE Inv'
  OBVIOUS
<1>0. /\ stage = "resample" /\ stage' = stage /\ UNCHANGED <<in, side, b, p, result>>
      /\ done < in.n_boot
  BY DEF Resample
<1>1. /\ in \in Arguments /\ in.n_boot \in Int /\ x \in Seq(Int)
      /\ Len(x) > 1 /\ in.stat \in Statistics /\ in.n_boot > 0 /\ Len(boots) = in.n_boot
      /\ boots \in Seq(Int \cup {Garbage}) /\ done \in 0 .. Len(boots)
      /\ \A i \in 1 .. done : InRange(boots[i], in.stat, x)
  BY <1>0, InputTypes DEF Inv, PhaseInv, LoopInv
<1>2. PICK n \in Nat, d \in Nat : n = in.n_boot /\ d = done /\ n > 0 /\ d < n
  BY <1>0, <1>1
<1>3. PICK k \in Nat : /\ k = (IF Chunk < in.n_boot - done THEN Chunk ELSE in.n_boot - done)
                       /\ d + k <= n
  <2>1. Chunk \in Nat
    BY ComparisonAssumption
  <2>2. CASE Chunk < n - d
    BY <1>2, <2>1, <2>2
  <2>3. CASE ~(Chunk < n - d)
    <3>1. n - d \in Nat /\ d + (n - d) <= n
      BY <1>2
    <3>. QED BY <1>2, <2>3, <3>1
  <2>. QED BY <2>2, <2>3
<1>4. PICK draws \in [1 .. k -> Resampled] :
          boots' = [i \in DOMAIN boots |->
                      IF i \in (done + 1) .. (done + k) THEN draws[i - done] ELSE boots[i]]
  BY <1>3 DEF Resample
<1>5. done' = d + k
  BY <1>2, <1>3 DEF Resample, NextDone
<1>6. DOMAIN boots = 1 .. n
  BY <1>1, <1>2
<1>7. ASSUME NEW i \in 1 .. n
      PROVE  /\ i <= d => boots'[i] = boots[i]
             /\ i > d + k => boots'[i] = boots[i]
             /\ d < i /\ i <= d + k => InRange(boots'[i], in.stat, x)
  <2>1. boots'[i] = IF i \in (d + 1) .. (d + k) THEN draws[i - d] ELSE boots[i]
    BY <1>2, <1>4, <1>6
  <2>2. CASE i <= d \/ i > d + k
    <3>1. i \notin (d + 1) .. (d + k)
      BY <2>2
    <3>. QED BY <2>1, <2>2, <3>1
  <2>3. CASE d < i /\ i <= d + k
    <3>1. i \in (d + 1) .. (d + k) /\ i - d \in 1 .. k
      BY <2>3
    <3>2. draws[i - d] \in Resampled
      BY <3>1
    <3>3. InRange(draws[i - d], in.stat, x)
      BY <1>1, <3>2, ResampledWithin
    <3>. QED BY <2>1, <2>3, <3>1, <3>3
  <2>. QED BY <2>2, <2>3
<1>8. PhaseInv'
  BY <1>0 DEF Inv, PhaseInv
<1>9. x' = x
  BY <1>0 DEF x
<1>10. LoopInv'
  <2>1. ASSUME NEW i \in 1 .. n PROVE boots'[i] \in Int \cup {Garbage}
    <3>1. boots[i] \in Int \cup {Garbage}
      BY <1>1, <1>6
    <3>2. i <= d \/ i > d + k \/ (d < i /\ i <= d + k)
      OBVIOUS
    <3>. QED BY <1>7, <3>1, <3>2 DEF InRange
  <2>2. PICK z : z = boots'
    OBVIOUS
  <2>3. z \in [1 .. n -> Int \cup {Garbage}]
    <3>1. DOMAIN z = 1 .. n /\ z = [i \in 1 .. n |-> z[i]]
      BY <1>4, <1>6, <2>2
    <3>2. \A i \in 1 .. n : z[i] \in Int \cup {Garbage}
      BY <2>1, <2>2
    <3>. QED BY <3>1, <3>2
  <2>4. z \in Seq(Int \cup {Garbage}) /\ Len(z) = n
    BY <2>3, SeqDef
  <2>5. done' \in 0 .. Len(boots')
    <3>1. d + k \in 0 .. n
      BY <1>3
    <3>. QED BY <1>5, <2>2, <2>4, <3>1
  <2>6. ASSUME NEW i \in 1 .. (d + k) PROVE InRange(boots'[i], in.stat, x)
    <3>1. i \in 1 .. n
      BY <1>3
    <3>2. CASE i <= d
      <4>1. i \in 1 .. d
        BY <3>2
      <4>2. InRange(boots[i], in.stat, x)
        BY <1>1, <1>2, <4>1
      <4>. QED BY <1>7, <3>1, <3>2, <4>2
    <3>3. CASE d < i
      BY <1>7, <3>1, <3>3
    <3>. QED BY <3>2, <3>3
  <2>7. in' = in /\ stage' = "resample"
    BY <1>0
  <2>8. \A i \in 1 .. done' : InRange(boots'[i], in.stat, x)
    BY <1>5, <2>6
  <2>9. \A i \in 1 .. done' : InRange(boots'[i], in'.stat, x')
    BY <1>9, <2>7, <2>8
  <2>. QED BY <1>0, <1>1, <1>2, <1>9, <2>2, <2>4, <2>5, <2>7, <2>9 DEF LoopInv
<1>11. CiInv'
  BY <1>0 DEF Inv, CiInv, Computed, Within, Undetermined
<1>12. ResultInv'
  BY <1>0 DEF Inv, ResultInv
<1>. QED BY <1>8, <1>10, <1>11, <1>12 DEF Inv

\* The loop ends when every slot is written.
LEMMA EndLoopInv == Inv /\ EndLoop => Inv'
<1>. SUFFICES ASSUME Inv, EndLoop PROVE Inv'
  OBVIOUS
<1>0. /\ stage = "resample" /\ stage' = "interval" /\ done >= in.n_boot
      /\ UNCHANGED <<in, side, boots, done, b, p, result>>
  BY DEF EndLoop, loop
<1>1. PhaseInv'
  BY <1>0 DEF Inv, PhaseInv
<1>2. LoopInv'
  <2>1. x' = x
    BY <1>0 DEF x
  <2>2. /\ boots \in Seq(Int \cup {Garbage}) /\ done \in 0 .. Len(boots)
        /\ Len(x) > 1 /\ in.stat \in Statistics
        /\ in.n_boot > 0 /\ Len(boots) = in.n_boot
        /\ \A i \in 1 .. done : InRange(boots[i], in.stat, x)
    BY <1>0 DEF Inv, LoopInv
  <2>3. done = Len(boots)
    BY <1>0, <2>2
  <2>. QED BY <1>0, <2>1, <2>2, <2>3 DEF LoopInv, InRange, Least, Most
<1>3. CiInv'
  BY <1>0 DEF Inv, CiInv, Computed, Within, Undetermined
<1>4. ResultInv'
  BY <1>0 DEF Inv, ResultInv
<1>. QED BY <1>1, <1>2, <1>3, <1>4 DEF Inv

\* The percentiles of a full array are an interval within the sample.
LEMMA IntervalInv == Inv /\ Interval => Inv'
<1>. SUFFICES ASSUME Inv, Interval PROVE Inv'
  OBVIOUS
<1>0. stage = "interval"
  BY DEF Interval
<1>1. /\ in \in Arguments /\ x \in Seq(Int) /\ Len(x) > 1 /\ in.stat \in Statistics
      /\ in.n_boot > 0 /\ in.n_boot \in Int
      /\ Len(boots) = in.n_boot /\ done = Len(boots) /\ boots \in Seq(Int \cup {Garbage})
      /\ \A i \in 1 .. Len(boots) : InRange(boots[i], in.stat, x)
  BY <1>0, InputTypes DEF Inv, PhaseInv, LoopInv
<1>2. PICK z : z = boots
  OBVIOUS
<1>3. z \in Seq(Int) /\ z # <<>> /\ DOMAIN z = 1 .. Len(z)
  <2>1. PICK n \in Nat : n = Len(z) /\ n > 0
    BY <1>1, <1>2
  <2>2. DOMAIN z = 1 .. n /\ z = [i \in 1 .. n |-> z[i]]
    BY <1>1, <1>2, <2>1
  <2>3. \A i \in 1 .. n : z[i] \in Int
    BY <1>1, <1>2, <2>1 DEF InRange
  <2>4. z \in [1 .. n -> Int]
    BY <2>2, <2>3
  <2>5. z \in Seq(Int) /\ Len(z) = n
    BY <2>4, Listed
  <2>. QED BY <2>1, <2>2, <2>5, EmptySeq
<1>4. PICK least \in Int, most \in Int : least = Least(in.stat, x) /\ most = Most(in.stat, x)
  <2>1. x # <<>>
    BY <1>1, EmptySeq
  <2>. QED BY <1>1, <2>1, LeastMost
<1>5. PICK lo1 \in Int, hi1 \in Int : lo1 = Milli * least /\ hi1 = Milli * most
  BY DEF Milli
<1>6. \A i \in DOMAIN z : lo1 <= z[i] /\ z[i] <= hi1
  BY <1>1, <1>2, <1>3, <1>4, <1>5 DEF InRange
<1>7. Alpha \in 0 .. Milli /\ Milli - Alpha \in 0 .. Milli /\ Alpha <= Milli - Alpha
  BY ComparisonAssumption DEF Milli
<1>8. PICK low \in Int, high \in Int : /\ low = Interpolated(z, Alpha)
                                       /\ high = Interpolated(z, Milli - Alpha)
  BY <1>3, <1>7, InterpolatedWithin
<1>9. Milli * lo1 <= low
  BY <1>3, <1>6, <1>7, <1>8, PercentileBetween
<1>10. high <= Milli * hi1
  BY <1>3, <1>6, <1>7, <1>8, PercentileBetween
<1>11. low <= high
  BY <1>3, <1>7, <1>8, InterpolatedGrows
<1>12. Len(x) >= Needs(in.stat)
  BY <1>1 DEF Needs
<1>13. InRange(point, in.stat, x)
  BY <1>1, <1>12, StatisticWithin DEF point
<1>14. PICK v \in Int : v = point
  BY <1>13 DEF InRange
<1>15. PICK ci : ci = [point |-> v, low |-> low, high |-> high]
  OBVIOUS
<1>16. Return(ci)
  BY <1>2, <1>8, <1>14, <1>15 DEF Interval
<1>17. Computed(ci, x)
  BY <1>1, <1>4, <1>5, <1>9, <1>10, <1>11, <1>12, <1>15, ComputedIs
<1>. QED BY <1>0, <1>16, <1>17, ReturnInv

\* The tests record their result once.
LEMMA TestsInv == Inv /\ Tests => Inv'
<1>. SUFFICES ASSUME Inv, Tests PROVE Inv'
  OBVIOUS
<1>0. stage = "tests" /\ stage' = "done" /\ UNCHANGED <<in, side, boots, done, b, p>>
  BY DEF Tests, loop
<1>1. PhaseInv'
  BY <1>0 DEF Inv, PhaseInv
<1>2. LoopInv'
  BY <1>0 DEF Inv, LoopInv
<1>3. CiInv'
  BY <1>0 DEF Inv, CiInv, Computed, Within, Undetermined
<1>4. ResultInv'
  BY <1>0 DEF Tests, ResultInv
<1>. QED BY <1>1, <1>2, <1>3, <1>4 DEF Inv

\* Every step keeps the invariant.
LEMMA NextInv == Inv /\ [CompareNext]_compareVars => Inv'
<1>. SUFFICES ASSUME Inv, [CompareNext]_compareVars PROVE Inv'
  OBVIOUS
<1>1. CASE UNCHANGED compareVars
  <2>1. UNCHANGED <<in, stage, side, boots, done, b, p, result>>
    BY <1>1 DEF compareVars, loop
  <2>2. x' = x
    BY <2>1 DEF x
  <2>3. PhaseInv'
    BY <2>1 DEF Inv, PhaseInv
  <2>4. LoopInv'
    BY <2>1, <2>2 DEF Inv, LoopInv, InRange, Least, Most
  <2>5. CiInv'
    BY <2>1 DEF Inv, CiInv, Computed, Within, Undetermined
  <2>6. ResultInv'
    BY <2>1 DEF Inv, ResultInv
  <2>. QED BY <2>3, <2>4, <2>5, <2>6 DEF Inv
<1>. QED BY <1>1, EmptyInv, UnknownInv, PointOnlyInv, StartLoopInv, ResampleInv, EndLoopInv,
            IntervalInv, TestsInv DEF CompareNext

\* The invariant holds in every reachable state.
LEMMA InvSafe == CompareSpec => []Inv
  BY InitInv, NextInv, PTL DEF CompareSpec

-----------------------------------------------------------------------------
(* The properties *)

\* The invariant implies the types of BootTypes, that no percentile is taken of a slot
\* that was not written, and that a finished comparison has sound intervals.
LEMMA IntervalSoundInv == Inv => IntervalSound
<1>. SUFFICES ASSUME Inv PROVE IntervalSound
  OBVIOUS
<1>1. BootTypes
  BY DEF Inv, PhaseInv, LoopInv, BootTypes
<1>2. SlotsFilled
  <2>. SUFFICES ASSUME stage = "interval", NEW i \in DOMAIN boots PROVE boots[i] # Garbage
    BY DEF SlotsFilled
  <2>1. /\ boots \in Seq(Int \cup {Garbage}) /\ done = Len(boots)
        /\ \A j \in 1 .. done : InRange(boots[j], in.stat, x)
    BY DEF Inv, LoopInv
  <2>2. DOMAIN boots = 1 .. Len(boots)
    BY <2>1
  <2>3. boots[i] \in Int
    BY <2>1, <2>2 DEF InRange
  <2>. QED BY <2>3, ComparisonAssumption
<1>3. IntervalsConsistent
  BY DEF Inv, PhaseInv, CiInv, Computed, IntervalsConsistent
<1>. QED BY <1>1, <1>2, <1>3 DEF IntervalSound

\* In every reachable state bootstrap_ci() stays within its array, takes percentiles
\* only of slots it has written, and an interval that compare() reports is ordered and
\* within the range of its sample: for every sample, n_boot, chunk size, confidence
\* level and every choice of the random generator.
THEOREM IntervalSoundSafe == CompareSpec => []IntervalSound
  BY InvSafe, IntervalSoundInv, PTL

\* Swapping the samples negates the effect and keeps its label.
LEMMA DeltaSwaps ==
    ASSUME NEW a \in Seq(Int), NEW e \in Seq(Int), a # <<>>, e # <<>>
    PROVE  /\ cliffs_delta(e, a).num = -cliffs_delta(a, e).num
           /\ describe_delta(cliffs_delta(e, a)) = describe_delta(cliffs_delta(a, e))
<1>1. PICK m \in Int, k \in Int, n \in Nat, l \in Nat :
          m = Above(a, e) /\ k = Above(e, a) /\ n = Len(a) /\ l = Len(e)
  BY DeltaPairs
<1>2. PICK r \in Int, den \in Int : r = m - k /\ den = n * l
  OBVIOUS
<1>3. k - m = -r /\ l * n = den
  BY <1>2
<1>4. cliffs_delta(a, e) = [num |-> r, den |-> den]
  BY <1>1, <1>2, DeltaPairs
<1>5. cliffs_delta(e, a) = [num |-> -r, den |-> den]
  BY <1>1, <1>3, DeltaPairs
<1>6. [num |-> r, den |-> den] # NaN /\ [num |-> -r, den |-> den] # NaN
  BY NaNAssumption
<1>7. (IF r < 0 THEN -r ELSE r) = (IF -r < 0 THEN -(-r) ELSE -r)
  OBVIOUS
<1>8. PICK d : d = (IF r < 0 THEN -r ELSE r) * Milli
  OBVIOUS
<1>9. d = (IF -r < 0 THEN -(-r) ELSE -r) * Milli
  BY <1>7, <1>8
<1>10. describe_delta([num |-> r, den |-> den])
         = IF d < 147 * den THEN "negligible" ELSE IF d < 330 * den THEN "small"
           ELSE IF d < 474 * den THEN "medium" ELSE "large"
  BY <1>6, <1>8 DEF describe_delta
<1>11. describe_delta([num |-> -r, den |-> den])
         = IF d < 147 * den THEN "negligible" ELSE IF d < 330 * den THEN "small"
           ELSE IF d < 474 * den THEN "medium" ELSE "large"
  BY <1>6, <1>9 DEF describe_delta
<1>. QED BY <1>4, <1>5, <1>10, <1>11

\* An improvement is undefined exactly when there is nothing to divide by, and
\* positive exactly when the proposed value is lower.
LEMMA ImprovementMeans ==
    ASSUME NEW v \in Int \cup {NaN}, NEW w \in Int \cup {NaN}
    PROVE  IF v = NaN \/ w = NaN \/ v = 0 THEN improvement(v, w) = NaN
           ELSE (improvement(v, w).num * improvement(v, w).den > 0) = (w < v)
<1>1. CASE v = NaN \/ w = NaN \/ v = 0
  BY <1>1 DEF improvement
<1>2. CASE ~(v = NaN \/ w = NaN \/ v = 0)
  <2>1. v \in Int /\ w \in Int /\ v # 0
    BY <1>2
  <2>2. PICK den \in Int : den = (IF v < 0 THEN -v ELSE v) /\ den > 0
    BY <2>1
  <2>3. PICK num \in Int : num = 100 * (v - w)
    BY <2>1
  <2>4. improvement(v, w) = [num |-> num, den |-> den]
    BY <1>2, <2>2, <2>3 DEF improvement
  <2>5. improvement(v, w).num * improvement(v, w).den = num * den
    BY <2>4
  <2>6. num > 0 => num * den > 0
    BY <2>2
  <2>7. num <= 0 => num * den <= 0
    BY <2>2
  <2>8. num * den \in Int
    OBVIOUS
  <2>9. (num * den > 0) = (num > 0)
    BY <2>6, <2>7, <2>8
  <2>10. (num > 0) = (w < v)
    BY <2>1, <2>3
  <2>. QED BY <1>2, <2>5, <2>9, <2>10
<1>. QED BY <1>1, <1>2

\* A result has the effect that its name promises.
LEMMA EffectSoundInv == Inv => EffectSound
<1>. SUFFICES ASSUME Inv PROVE EffectSound
  OBVIOUS
<1>1. CASE result = None
  BY <1>1 DEF EffectSound, DeltaByPairs, EffectSymmetric, ImprovementSign
<1>2. CASE result # None
  <2>1. stage = "done"
    BY <1>2 DEF Inv, ResultInv
  <2>2. /\ in.base \in Seq(Int) /\ in.prop \in Seq(Int)
        /\ b.point \in Int \cup {NaN} /\ p.point \in Int \cup {NaN}
    BY <2>1, InputTypes DEF Inv, PhaseInv, CiInv, Computed
  <2>3. /\ result.improvement = improvement(b.point, p.point)
        /\ result.u = mann_whitney(in.base, in.prop)
        /\ result.delta = cliffs_delta(in.base, in.prop)
        /\ result.effect = describe_delta(cliffs_delta(in.base, in.prop))
    BY <2>1 DEF Inv, ResultInv
  <2>4. PICK a, e : a = in.base /\ e = in.prop
    OBVIOUS
  <2>5. result.delta # NaN => a # <<>> /\ e # <<>>
    BY <2>3, <2>4 DEF cliffs_delta
  <2>6. DeltaByPairs
    <3>. SUFFICES ASSUME result.delta # NaN
                  PROVE  /\ result.delta.num = Above(in.base, in.prop) - Above(in.prop, in.base)
                         /\ result.delta.num = result.u - result.delta.den
      BY DEF DeltaByPairs
    <3>1. a \in Seq(Int) /\ e \in Seq(Int) /\ a # <<>> /\ e # <<>>
      BY <2>2, <2>4, <2>5
    <3>2. Above(a, e) \in Int /\ Above(e, a) \in Int /\ Len(a) \in Nat /\ Len(e) \in Nat
      <4>1. Above(a, e) \in Int /\ Above(e, a) \in Int
        BY <3>1, DeltaPairs, Zenon
      <4>2. Len(a) \in Nat /\ Len(e) \in Nat
        BY <3>1
      <4>. QED BY <4>1, <4>2
    <3>3. PICK g \in Int, h \in Int : g = Above(a, e) - Above(e, a) /\ h = Len(a) * Len(e)
      BY <3>2
    <3>4. cliffs_delta(a, e) = [num |-> g, den |-> h]
      BY <3>1, <3>3, DeltaPairs
    <3>5. mann_whitney(a, e) = g + h
      BY <3>1, <3>3, UPairs
    <3>6. result.delta.num = g /\ result.delta.den = h /\ result.u = g + h
      BY <2>3, <2>4, <3>4, <3>5
    <3>7. result.delta.num = result.u - result.delta.den
      BY <3>6
    <3>. QED BY <2>4, <3>3, <3>6, <3>7
  <2>7. EffectSymmetric
    BY <2>2, <2>3, <2>4, <2>5, DeltaSwaps DEF EffectSymmetric
  <2>8. ImprovementSign
    <3>1. PICK v \in Int \cup {NaN}, w \in Int \cup {NaN} : v = b.point /\ w = p.point
      BY <2>2
    <3>2. IF v = NaN \/ w = NaN \/ v = 0 THEN improvement(v, w) = NaN
          ELSE (improvement(v, w).num * improvement(v, w).den > 0) = (w < v)
      BY ImprovementMeans
    <3>. QED BY <2>3, <3>1, <3>2 DEF ImprovementSign
  <2>. QED BY <2>6, <2>7, <2>8 DEF EffectSound
<1>. QED BY <1>1, <1>2

\* In every reachable state the effect that compare() reports is the count over all
\* pairs, agrees with the U statistic, is symmetric in the two samples, and the
\* improvement has the sign of the difference: for all samples of integers.
THEOREM EffectSoundSafe == CompareSpec => []EffectSound
  BY InvSafe, EffectSoundInv, PTL

\* The percentiles of a sample.
LEMMA PercentilesOf ==
    ASSUME NEW y \in Seq(Int), y # <<>>
    PROVE  /\ \A q \in {500, 900, 990, 999} : percentile(y, q) = ByUnits(y, q)
           /\ LET d == distribution_summary(y)
              IN  /\ printed_p50(y) \in d.p50 .. d.max
                  /\ printed_p99(y) \in d.p99 .. d.max
                  /\ d.min <= d.p50 /\ d.p50 <= d.p90 /\ d.p90 <= d.p99
                  /\ d.p99 <= d.p999 /\ d.p999 <= d.max
<1>1. 500 \in 0 .. Milli /\ 900 \in 0 .. Milli /\ 990 \in 0 .. Milli /\ 999 \in 0 .. Milli
  BY DEF Milli
<1>2. \A q : percentile(y, q) = Interpolated(y, q)
  BY DEF percentile
<1>3. \A q \in {500, 900, 990, 999} : q \in 0 .. Milli
  BY <1>1
<1>4. \A q \in {500, 900, 990, 999} : percentile(y, q) = ByUnits(y, q)
  BY <1>2, <1>3, UnitsAgree
<1>5. PICK d : d = distribution_summary(y)
  OBVIOUS
<1>6. /\ d.min = Milli * Min(Range(y)) /\ d.max = Milli * Max(Range(y))
      /\ d.p50 = Interpolated(y, 500) /\ d.p90 = Interpolated(y, 900)
      /\ d.p99 = Interpolated(y, 990) /\ d.p999 = Interpolated(y, 999)
  BY <1>2, <1>5 DEF distribution_summary
<1>7. printed_p50(y) \in d.p50 .. d.max /\ printed_p99(y) \in d.p99 .. d.max
  BY <1>6, PrintedPlaces
<1>8. d.min <= d.p50 /\ d.p999 <= d.max
  BY <1>1, <1>6, InterpolatedWithin
<1>9. d.p50 <= d.p90
  <2>1. 500 <= 900
    OBVIOUS
  <2>. QED BY <1>1, <1>6, <2>1, InterpolatedGrows
<1>10. d.p90 <= d.p99
  <2>1. 900 <= 990
    OBVIOUS
  <2>. QED BY <1>1, <1>6, <2>1, InterpolatedGrows
<1>11. d.p99 <= d.p999
  <2>1. 990 <= 999
    OBVIOUS
  <2>. QED BY <1>1, <1>6, <2>1, InterpolatedGrows
<1>. QED BY <1>4, <1>5, <1>7, <1>8, <1>9, <1>10, <1>11

\* What the invariant says of the baseline sample is enough for its percentiles.
LEMMA PercentilesAgreeInv == Inv => PercentilesAgree
<1>. SUFFICES ASSUME Inv PROVE PercentilesAgree
  OBVIOUS
<1>1. PICK y \in Seq(Int) : y = in.base
  BY InputTypes DEF Inv, PhaseInv
<1>2. PercentileByUnits
  BY <1>1, PercentilesOf DEF PercentileByUnits
<1>3. PrintedNotBelow
  BY <1>1, PercentilesOf DEF PrintedNotBelow
<1>. QED BY <1>2, <1>3 DEF PercentilesAgree

\* For every sample of integers the percentile of the analysis is the inverse of the
\* interpolated distribution, the percentiles that the listener and the talker print
\* are not below it, and the summary of the analysis is ordered.
THEOREM PercentilesAgreeSafe == CompareSpec => []PercentilesAgree
  BY InvSafe, PercentilesAgreeInv, PTL

-----------------------------------------------------------------------------
(* Putting a set in order *)

\* R orders S strictly and totally.
Orders(S, R) ==
    /\ \A s \in S : <<s, s>> \notin R
    /\ \A s, t, u \in S : <<s, t>> \in R /\ <<t, u>> \in R => <<s, u>> \in R
    /\ \A s, t \in S : s # t => <<s, t>> \in R \/ <<t, s>> \in R

\* f lists the elements of S, each once, in the order of R.
Lists(f, S, R) ==
    /\ DOMAIN f = 1 .. Cardinality(S) /\ Cardinality(S) \in Nat
    /\ f \in Seq(S) /\ Len(f) = Cardinality(S)
    /\ \A k \in DOMAIN f : f[k] \in S
    /\ \A s \in S : \E k \in DOMAIN f : f[k] = s
    /\ \A k, l \in DOMAIN f : k < l <=> <<f[k], f[l]>> \in R
    /\ \A k, l \in DOMAIN f : f[k] = f[l] => k = l

\* InOrder() is what its name says.
LEMMA InOrderLists ==
    ASSUME NEW S, IsFiniteSet(S), NEW R, Orders(S, R)
    PROVE  Lists(InOrder(S, R), S, R)
<1>. DEFINE n == Cardinality(S)
            P(s) == {t \in S : <<t, s>> \in R}
            rank == [s \in S |-> Cardinality(P(s))]
            f == InOrder(S, R)
<1>0. n \in Nat
  BY FS_CardinalityType
<1>1. ASSUME NEW s \in S PROVE IsFiniteSet(P(s)) /\ Cardinality(P(s)) \in Nat
  <2>1. P(s) \in SUBSET S
    OBVIOUS
  <2>. HIDE DEF P
  <2>. QED BY <2>1, FS_Subset, FS_CardinalityType
<1>2. ASSUME NEW s \in S, NEW t \in S, <<s, t>> \in R PROVE rank[s] < rank[t]
  <2>1. P(s) \in SUBSET P(t) /\ s \in P(t) /\ s \notin P(s)
    BY <1>2 DEF Orders
  <2>2. P(s) # P(t)
    BY <2>1
  <2>3. IsFiniteSet(P(t)) /\ Cardinality(P(t)) \in Nat /\ Cardinality(P(s)) \in Nat
    BY <1>1
  <2>. HIDE DEF P
  <2>4. Cardinality(P(s)) <= Cardinality(P(t)) /\
        (Cardinality(P(s)) = Cardinality(P(t)) => P(s) = P(t))
    BY <2>1, <2>3, FS_Subset
  <2>. QED BY <2>2, <2>3, <2>4
<1>3. ASSUME NEW s \in S PROVE rank[s] \in 0 .. (n - 1)
  <2>1. P(s) \in SUBSET S /\ s \notin P(s)
    BY DEF Orders
  <2>2. P(s) # S
    BY <2>1
  <2>3. Cardinality(P(s)) \in Nat
    BY <1>1
  <2>. HIDE DEF P
  <2>4. Cardinality(P(s)) <= Cardinality(S) /\
        (Cardinality(P(s)) = Cardinality(S) => P(s) = S)
    BY <2>1, FS_Subset
  <2>. QED BY <1>0, <2>2, <2>3, <2>4
<1>4. \A s, t \in S : rank[s] = rank[t] => s = t
  <2>1. ASSUME NEW s \in S, NEW t \in S, rank[s] = rank[t], s # t PROVE FALSE
    <3>1. <<s, t>> \in R \/ <<t, s>> \in R
      BY <2>1 DEF Orders
    <3>2. rank[s] \in Nat /\ rank[t] \in Nat
      BY <1>1
    <3>3. rank[s] < rank[t] \/ rank[t] < rank[s]
      BY <1>2, <3>1
    <3>. HIDE DEF rank
    <3>. QED BY <2>1, <3>2, <3>3
  <2>. QED BY <2>1
<1>5. rank \in [S -> 0 .. (n - 1)]
  BY <1>3
<1>6. IsFiniteSet(0 .. (n - 1)) /\ Cardinality(0 .. (n - 1)) = n
  <2>1. /\ IsFiniteSet(0 .. (n - 1))
        /\ Cardinality(0 .. (n - 1)) = IF 0 > n - 1 THEN 0 ELSE (n - 1) - 0 + 1
    BY <1>0, FS_Interval, SMTT(30)
  <2>. QED BY <1>0, <2>1
<1>7. rank \in Surjection(S, 0 .. (n - 1))
  <2>. HIDE DEF rank
  <2>1. rank \in Injection(S, 0 .. (n - 1))
    BY <1>4, <1>5 DEF Injection, IsInjective
  <2>. QED BY <1>6, <2>1, FS_Injection
<1>8. ASSUME NEW k \in 1 .. n PROVE f[k] \in S /\ rank[f[k]] = k - 1
  <2>1. k - 1 \in 0 .. (n - 1)
    BY <1>0
  <2>2. \E s \in S : rank[s] = k - 1
    <3>. HIDE DEF rank
    <3>. QED BY <1>7, <2>1 DEF Surjection
  <2>3. \E s \in S : Cardinality({t \in S : <<t, s>> \in R}) = k - 1
    BY <2>2
  <2>4. f[k] = CHOOSE s \in S : Cardinality({t \in S : <<t, s>> \in R}) = k - 1
    BY DEF InOrder
  <2>5. f[k] \in S /\ Cardinality({t \in S : <<t, f[k]>> \in R}) = k - 1
    BY <2>3, <2>4
  <2>. QED BY <2>5
<1>9. DOMAIN f = 1 .. n /\ f \in [1 .. n -> S]
  <2>. DEFINE c(k) == CHOOSE s \in S : Cardinality({t \in S : <<t, s>> \in R}) = k - 1
  <2>0. f = [k \in 1 .. n |-> c(k)]
    BY DEF InOrder
  <2>. HIDE DEF f, rank, n, c
  <2>1. DOMAIN f = 1 .. n /\ f = [k \in 1 .. n |-> f[k]]
    BY <2>0
  <2>. QED BY <1>8, <2>1
<1>. HIDE DEF f, rank, P
<1>10. \A s \in S : \E k \in 1 .. n : f[k] = s
  <2>1. ASSUME NEW s \in S PROVE \E k \in 1 .. n : f[k] = s
    <3>1. PICK r \in 0 .. (n - 1) : r = rank[s]
      BY <1>3
    <3>2. r + 1 \in 1 .. n /\ (r + 1) - 1 = r
      BY <1>0, <3>1
    <3>3. f[r + 1] \in S /\ rank[f[r + 1]] = r
      BY <1>8, <3>2
    <3>. QED BY <1>4, <3>1, <3>2, <3>3
  <2>. QED BY <2>1
<1>11. \A k, l \in 1 .. n : k < l <=> <<f[k], f[l]>> \in R
  <2>1. ASSUME NEW k \in 1 .. n, NEW l \in 1 .. n, k < l PROVE <<f[k], f[l]>> \in R
    <3>1. /\ f[k] \in S /\ f[l] \in S /\ rank[f[k]] = k - 1 /\ rank[f[l]] = l - 1
          /\ k \in Nat /\ l \in Nat
      BY <1>8
    <3>2. ~(rank[f[l]] < rank[f[k]]) /\ rank[f[k]] # rank[f[l]]
      BY <2>1, <3>1
    <3>3. f[k] # f[l] /\ <<f[l], f[k]>> \notin R
      BY <1>2, <3>1, <3>2
    <3>. QED BY <3>1, <3>3 DEF Orders
  <2>2. ASSUME NEW k \in 1 .. n, NEW l \in 1 .. n, <<f[k], f[l]>> \in R PROVE k < l
    <3>1. /\ f[k] \in S /\ f[l] \in S /\ rank[f[k]] = k - 1 /\ rank[f[l]] = l - 1
          /\ k \in Nat /\ l \in Nat
      BY <1>8
    <3>2. rank[f[k]] < rank[f[l]]
      BY <1>2, <2>2, <3>1
    <3>. QED BY <3>1, <3>2
  <2>. QED BY <2>1, <2>2
<1>12. \A k, l \in 1 .. n : f[k] = f[l] => k = l
  <2>1. ASSUME NEW k \in 1 .. n, NEW l \in 1 .. n, f[k] = f[l] PROVE k = l
    <3>1. rank[f[k]] = k - 1 /\ rank[f[l]] = l - 1 /\ k \in Nat /\ l \in Nat
      BY <1>8
    <3>. QED BY <2>1, <3>1
  <2>. QED BY <2>1
<1>13. f \in Seq(S) /\ Len(f) = n
  BY <1>0, <1>9
<1>. QED BY <1>0, <1>8, <1>9, <1>10, <1>11, <1>12, <1>13 DEF Lists, f

-----------------------------------------------------------------------------
(* loader.py *)

\* A file of a results directory.
IsFile(f) == f \in [stem : Seq(STRING), header : SUBSET STRING, rows : Seq(Row)]

\* A run as the rest of the program may expect it.
IsRun(r) ==
    /\ r.condition \in Range(Alphabetical) /\ r.run_index \in Nat \cup {None}
    /\ r.seq \in Seq(Nat) /\ r.seq # <<>>
    /\ r.latency_ms \in Seq(Int) /\ Len(r.latency_ms) = Len(r.seq)
    /\ r.jitter_us \in Seq(Int) /\ Len(r.jitter_us) = Len(r.seq)
    /\ r.tos # None => r.tos \in Seq(-1 .. 255) /\ Len(r.tos) = Len(r.seq)

\* The six required columns are six.
LEMMA SixColumns == Cardinality(REQUIRED_COLUMNS) = 6
<1>. DEFINE S1 == {"seq"}
            S2 == S1 \cup {"send_ns"}
            S3 == S2 \cup {"recv_ns"}
            S4 == S3 \cup {"latency_ms"}
            S5 == S4 \cup {"jitter_us"}
            S6 == S5 \cup {"pkt_size"}
<1>1. REQUIRED_COLUMNS = S6
  BY DEF REQUIRED_COLUMNS
<1>2. /\ "send_ns" \notin S1 /\ "recv_ns" \notin S2 /\ "latency_ms" \notin S3
      /\ "jitter_us" \notin S4 /\ "pkt_size" \notin S5
  OBVIOUS
<1>3. IsFiniteSet(S1) /\ Cardinality(S1) = 1
  BY FS_Singleton
<1>. HIDE DEF S1
<1>4. IsFiniteSet(S2) /\ Cardinality(S2) = 2
  BY <1>2, <1>3, FS_AddElement
<1>. HIDE DEF S2
<1>5. IsFiniteSet(S3) /\ Cardinality(S3) = 3
  BY <1>2, <1>4, FS_AddElement
<1>. HIDE DEF S3
<1>6. IsFiniteSet(S4) /\ Cardinality(S4) = 4
  BY <1>2, <1>5, FS_AddElement
<1>. HIDE DEF S4
<1>7. IsFiniteSet(S5) /\ Cardinality(S5) = 5
  BY <1>2, <1>6, FS_AddElement
<1>. HIDE DEF S5
<1>8. IsFiniteSet(S6) /\ Cardinality(S6) = 6
  BY <1>2, <1>7, FS_AddElement
<1>. QED BY <1>1, <1>8

\* r has the columns of the file f, whose rows are at the places D.
Columns(r, f, D) ==
    /\ r.name = f.stem
    /\ r.condition = parse_name(f.stem).condition /\ r.run_index = parse_name(f.stem).k
    /\ r.seq = [i \in D |-> f.rows[i].seq]
    /\ r.send_ns = [i \in D |-> _to_int(f.rows[i].send)]
    /\ r.latency_ms = [i \in D |-> f.rows[i].latency]
    /\ r.jitter_us = [i \in D |-> f.rows[i].jitter]
    /\ r.tos = IF "tos" \notin f.header THEN None
               ELSE [i \in D |-> IF f.rows[i].width > Cardinality(REQUIRED_COLUMNS)
                                 THEN f.rows[i].tos ELSE -1]

\* The columns of a run are those of its file.
LEMMA LoadFields ==
    ASSUME NEW f, NEW D, D = DOMAIN f.rows
    PROVE  Columns(load_csv(f), f, D)
BY DEF load_csv, Columns

\* w is a with e after it.
Joins(w, a, e) ==
    /\ Len(w) = Len(a) + Len(e)
    /\ \A i \in 1 .. Len(a) : w[i] = a[i]
    /\ \A i \in 1 .. Len(e) : w[Len(a) + i] = e[i]

\* Two sequences in a row.
LEMMA Joined ==
    ASSUME NEW S, NEW a \in Seq(S), NEW e \in Seq(S)
    PROVE  a \o e \in Seq(S) /\ Joins(a \o e, a, e)
<1>1. /\ a \o e \in Seq(S) /\ Len(a \o e) = Len(a) + Len(e)
      /\ Len(a) \in Nat /\ Len(e) \in Nat
  OBVIOUS
<1>2. \A i \in 1 .. Len(a) : (a \o e)[i] = a[i]
  OBVIOUS
<1>3. \A i \in 1 .. Len(e) : (a \o e)[Len(a) + i] = e[i]
  BY <1>1
<1>. QED BY <1>1, <1>2, <1>3 DEF Joins

\* A stem is its condition, alone or with a number after it.
LEMMA ParseName ==
    ASSUME NEW stem \in Seq(STRING)
    PROVE  /\ parse_name(stem).k \in Nat \cup {None}
           /\ \/ stem = parse_name(stem).condition
              \/ \E d \in DOMAIN IntOf : stem = parse_name(stem).condition \o <<"_run", d>>
<1>. DEFINE n == Len(stem)
<1>0. n \in Nat /\ stem \in [1 .. n -> STRING]
  OBVIOUS
<1>1. CASE n >= 3 /\ stem[n - 1] = "_run" /\ stem[n] \in DOMAIN IntOf
  <2>. DEFINE c == SubSeq(stem, 1, n - 2)
              t == <<"_run", stem[n]>>
  <2>1. parse_name(stem) = [condition |-> c, k |-> IntOf[stem[n]]]
    BY <1>1 DEF parse_name
  <2>2. PICK m \in Nat : m = n - 2 /\ n = m + 2 /\ n - 1 = m + 1
    <3>1. n \in Nat /\ n >= 3
      BY <1>0, <1>1
    <3>. HIDE DEF n
    <3>2. n - 2 \in Nat /\ n = (n - 2) + 2 /\ n - 1 = (n - 2) + 1
      BY <3>1
    <3>. QED BY <3>2
  <2>3. c \in Seq(STRING) /\ Len(c) = m /\ \A i \in 1 .. m : c[i] = stem[i]
    BY <1>0, <1>1, <2>2
  <2>4. t \in Seq(STRING) /\ Len(t) = 2 /\ t[1] = stem[m + 1] /\ t[2] = stem[m + 2]
    BY <1>0, <1>1, <2>2
  <2>. HIDE DEF c, t, n
  <2>5. /\ c \o t \in Seq(STRING) /\ Len(c \o t) = m + 2
        /\ \A i \in 1 .. m : (c \o t)[i] = c[i]
        /\ (c \o t)[m + 1] = t[1] /\ (c \o t)[m + 2] = t[2]
    <3>1. c \o t \in Seq(STRING) /\ Joins(c \o t, c, t)
      BY <2>3, <2>4, Joined
    <3>. QED BY <2>3, <2>4, <3>1 DEF Joins
  <2>6. PICK w : w = c \o t
    OBVIOUS
  <2>7. w \in [1 .. (m + 2) -> STRING]
    <3>1. w \in Seq(STRING) /\ Len(w) = m + 2
      BY <2>5, <2>6
    <3>. QED BY <3>1
  <2>8. \A i \in 1 .. (m + 2) : i \in 1 .. m \/ i = m + 1 \/ i = m + 2
    OBVIOUS
  <2>9. \A i \in 1 .. (m + 2) : w[i] = stem[i]
    BY <2>3, <2>4, <2>5, <2>6, <2>8
  <2>10. stem = w
    BY <1>0, <2>2, <2>7, <2>9
  <2>11. IntOf[stem[n]] \in Nat
    BY <1>1, DatasetAssumption
  <2>12. PICK d \in DOMAIN IntOf : d = stem[n]
    BY <1>1
  <2>13. parse_name(stem).condition = c /\ parse_name(stem).k = IntOf[stem[n]]
    BY <2>1
  <2>14. stem = c \o <<"_run", d>>
    BY <2>6, <2>10, <2>12 DEF t
  <2>. QED BY <2>11, <2>13, <2>14
<1>2. CASE ~(n >= 3 /\ stem[n - 1] = "_run" /\ stem[n] \in DOMAIN IntOf)
  BY <1>2 DEF parse_name
<1>. QED BY <1>1, <1>2

\* A file that is not malformed gives a run.
LEMMA LoadedRun ==
    ASSUME NEW f, IsFile(f), ~Malformed(f),
           parse_name(f.stem).condition \in Range(Alphabetical)
    PROVE  IsRun(load_csv(f)) /\ \A i \in DOMAIN f.rows : f.rows[i].width >= 6
<1>. DEFINE r == load_csv(f)
            n == Len(f.rows)
<1>1. f.stem \in Seq(STRING) /\ f.rows \in Seq(Row)
  BY DEF IsFile
<1>2. n \in Nat /\ DOMAIN f.rows = 1 .. n /\ \A i \in 1 .. n : f.rows[i] \in Row
  BY <1>1
<1>3. /\ f.rows # <<>>
      /\ \A i \in DOMAIN f.rows : ~(f.rows[i].width < 6)
  BY SixColumns DEF Malformed
<1>4. n # 0
  BY <1>1, <1>3
<1>5. \A i \in 1 .. n : /\ f.rows[i].seq \in Nat /\ f.rows[i].latency \in Int
                        /\ f.rows[i].jitter \in Int /\ f.rows[i].tos \in -1 .. 255
                        /\ f.rows[i].width \in Nat
  BY <1>2 DEF Row
<1>6. Columns(r, f, 1 .. n)
  BY <1>2, LoadFields
<1>. HIDE DEF r, n
<1>14. r.run_index \in Nat \cup {None} /\ r.condition \in Range(Alphabetical)
  BY <1>1, <1>6, ParseName DEF Columns
<1>7. /\ r.seq = [i \in 1 .. n |-> f.rows[i].seq]
      /\ r.latency_ms = [i \in 1 .. n |-> f.rows[i].latency]
      /\ r.jitter_us = [i \in 1 .. n |-> f.rows[i].jitter]
  BY <1>6 DEF Columns
<1>8. r.tos # None => r.tos = [i \in 1 .. n |-> IF f.rows[i].width > 6
                                                THEN f.rows[i].tos ELSE -1]
  <2>1. r.tos = IF "tos" \notin f.header THEN None
                ELSE [i \in 1 .. n |-> IF f.rows[i].width > Cardinality(REQUIRED_COLUMNS)
                                       THEN f.rows[i].tos ELSE -1]
    BY <1>6 DEF Columns
  <2>. QED BY <2>1, SixColumns
<1>9. r.seq \in Seq(Nat) /\ Len(r.seq) = n /\ r.seq # <<>>
  <2>1. r.seq \in [1 .. n -> Nat]
    BY <1>5, <1>7
  <2>2. r.seq \in Seq(Nat) /\ Len(r.seq) = n
    BY <1>2, <2>1
  <2>. QED BY <1>4, <2>2
<1>10. r.latency_ms \in Seq(Int) /\ Len(r.latency_ms) = n
  BY <1>2, <1>5, <1>7
<1>11. r.jitter_us \in Seq(Int) /\ Len(r.jitter_us) = n
  BY <1>2, <1>5, <1>7
<1>12. ASSUME r.tos # None PROVE r.tos \in Seq(-1 .. 255) /\ Len(r.tos) = n
  <2>1. ASSUME NEW i \in 1 .. n
        PROVE  (IF f.rows[i].width > 6 THEN f.rows[i].tos ELSE -1) \in -1 .. 255
    <3>1. PICK u : u = f.rows[i].tos /\ u \in -1 .. 255
      BY <1>5
    <3>2. -1 \in -1 .. 255
      OBVIOUS
    <3>3. CASE f.rows[i].width > 6
      BY <3>1, <3>3
    <3>4. CASE ~(f.rows[i].width > 6)
      BY <3>2, <3>4
    <3>. QED BY <3>3, <3>4
  <2>2. r.tos \in [1 .. n -> -1 .. 255]
    BY <1>8, <1>12, <2>1
  <2>. QED BY <1>2, <2>2
<1>13. \A i \in DOMAIN f.rows : f.rows[i].width >= 6
  BY <1>2, <1>3, <1>5
<1>. QED BY <1>9, <1>10, <1>11, <1>12, <1>13, <1>14 DEF IsRun, r

\* A time stamp is read exactly, or rounded by at most half a float's step.
LEMMA StampError ==
    ASSUME NEW cell \in [val : Int, digits : BOOLEAN]
    PROVE  IF cell.digits THEN cell.val - _to_int(cell) = 0
           ELSE 2 * (cell.val - _to_int(cell)) \in -FloatStep .. FloatStep
<1>0. PICK v \in Int : v = cell.val
  OBVIOUS
<1>1. CASE cell.digits
  <2>1. _to_int(cell) = v
    BY <1>0, <1>1 DEF _to_int
  <2>2. cell.val - _to_int(cell) = 0
    BY <1>0, <2>1
  <2>. QED BY <1>1, <2>2
<1>2. CASE ~cell.digits
  <2>1. PICK n \in Nat \ {0} : n = FloatStep
    BY DatasetAssumption
  <2>2. PICK q \in Int : q = v \div n
    OBVIOUS
  <2>3. n * q <= v /\ v < n * q + n /\ n * q = q * n /\ n * q \in Int /\ (q + 1) * n = q * n + n
    BY <2>2
  <2>4. PICK w \in Int : w = q * n /\ w <= v /\ v < w + n /\ (q + 1) * n = w + n
    BY <2>3
  <2>5. _to_int(cell) = IF 2 * (v - w) > n \/ (2 * (v - w) = n /\ q % 2 = 1) THEN w + n ELSE w
    BY <1>0, <1>2, <2>1, <2>2, <2>4 DEF _to_int
  <2>6. CASE 2 * (v - w) > n \/ (2 * (v - w) = n /\ q % 2 = 1)
    <3>1. 2 * (v - w) >= n
      BY <2>4, <2>6
    <3>2. 2 * (v - (w + n)) \in -n .. n
      BY <2>4, <3>1
    <3>3. _to_int(cell) = w + n
      BY <2>5, <2>6
    <3>4. 2 * (cell.val - _to_int(cell)) \in -FloatStep .. FloatStep
      BY <1>0, <2>1, <3>2, <3>3
    <3>. QED BY <1>2, <3>4
  <2>7. CASE ~(2 * (v - w) > n \/ (2 * (v - w) = n /\ q % 2 = 1))
    <3>1. 2 * (v - w) <= n
      BY <2>4, <2>7
    <3>2. 2 * (v - w) \in -n .. n
      BY <2>4, <3>1
    <3>3. _to_int(cell) = w
      BY <2>5, <2>7
    <3>4. 2 * (cell.val - _to_int(cell)) \in -FloatStep .. FloatStep
      BY <1>0, <2>1, <3>2, <3>3
    <3>. QED BY <1>2, <3>4
  <2>. QED BY <2>6, <2>7
<1>. QED BY <1>1, <1>2

\* The order of the runs of one condition.
LEMMA BeforeOrders ==
    ASSUME NEW runs, NEW I \in SUBSET Nat, \A i \in I : IsRun(runs[i])
    PROVE  Orders(I, Before(runs, I))
<1>1. \A i \in I : SortKey(runs[i]) \in Int
  <2>1. \A i \in I : runs[i].run_index \in Nat \cup {None}
    BY DEF IsRun
  <2>. QED BY <2>1 DEF SortKey
<1>. DEFINE key == [i \in I |-> SortKey(runs[i])]
<1>2. key \in [I -> Int]
  BY <1>1
<1>3. \A i, j \in I : <<i, j>> \in Before(runs, I) <=>
                        key[i] < key[j] \/ (key[i] = key[j] /\ i < j)
  BY DEF Before
<1>. HIDE DEF key
<1>4. \A i \in I : i \in Nat /\ key[i] \in Int
  BY <1>2
<1>5. \A i \in I : <<i, i>> \notin Before(runs, I)
  BY <1>3, <1>4
<1>6. ASSUME NEW i \in I, NEW j \in I, NEW k \in I,
             <<i, j>> \in Before(runs, I), <<j, k>> \in Before(runs, I)
      PROVE  <<i, k>> \in Before(runs, I)
  BY <1>3, <1>4, <1>6
<1>7. ASSUME NEW i \in I, NEW j \in I, i # j
      PROVE  <<i, j>> \in Before(runs, I) \/ <<j, i>> \in Before(runs, I)
  BY <1>3, <1>4, <1>7
<1>. QED BY <1>5, <1>6, <1>7 DEF Orders

\* The runs of a sequence.
IsRuns(runs) ==
    /\ Len(runs) \in Nat /\ DOMAIN runs = 1 .. Len(runs)
    /\ \A i \in 1 .. Len(runs) : IsRun(runs[i])

\* The places of the runs of a condition, and the places in order.
PlacesOf(runs, c) == {i \in DOMAIN runs : runs[i].condition = c}
OrderOf(runs, c) == InOrder(PlacesOf(runs, c), Before(runs, PlacesOf(runs, c)))

\* The cells that discover() builds list all runs of their condition.
LEMMA Discovered ==
    ASSUME NEW runs, IsRuns(runs), NEW c \in DOMAIN discover(runs)
    PROVE  /\ IsFiniteSet(PlacesOf(runs, c)) /\ PlacesOf(runs, c) # {}
           /\ Lists(OrderOf(runs, c), PlacesOf(runs, c), Before(runs, PlacesOf(runs, c)))
           /\ discover(runs)[c] = [k \in 1 .. Cardinality(PlacesOf(runs, c)) |->
                                      runs[OrderOf(runs, c)[k]]]
<1>. DEFINE I == PlacesOf(runs, c)
<1>1. I \in SUBSET (1 .. Len(runs)) /\ Len(runs) \in Nat
  BY DEF IsRuns, PlacesOf
<1>2. \A i \in I : i \in Nat /\ IsRun(runs[i])
  BY <1>1 DEF IsRuns
<1>3. DOMAIN discover(runs) = {runs[i].condition : i \in DOMAIN runs}
  BY DEF discover
<1>4. I # {}
  BY <1>3 DEF PlacesOf
<1>5. IsFiniteSet(I)
  <2>. HIDE DEF I
  <2>. QED BY <1>1, FirstPlaces, FS_Subset
<1>6. Lists(OrderOf(runs, c), I, Before(runs, I))
  <2>. HIDE DEF I
  <2>1. Orders(I, Before(runs, I))
    BY <1>2, BeforeOrders
  <2>2. Lists(InOrder(I, Before(runs, I)), I, Before(runs, I))
    BY <1>5, <2>1, InOrderLists
  <2>. QED BY <2>2 DEF OrderOf, I
<1>7. discover(runs)[c] = RunOrder(runs, I)
  BY <1>3 DEF discover, PlacesOf
<1>8. RunOrder(runs, I) = [k \in DOMAIN OrderOf(runs, c) |-> runs[OrderOf(runs, c)[k]]]
  BY DEF RunOrder, OrderOf
<1>9. DOMAIN OrderOf(runs, c) = 1 .. Cardinality(I)
  BY <1>6 DEF Lists
<1>. QED BY <1>4, <1>5, <1>6, <1>7, <1>8, <1>9

\* What the rest of the program may expect of the runs rs of a condition.
IsCell(c, rs) ==
    /\ c \in Range(Alphabetical)
    /\ Len(rs) \in Nat \ {0} /\ DOMAIN rs = 1 .. Len(rs) /\ rs = [k \in 1 .. Len(rs) |-> rs[k]]
    /\ \A k \in 1 .. Len(rs) : IsRun(rs[k]) /\ rs[k].condition = c

\* discover() gives cells.
LEMMA CellsAreCells ==
    ASSUME NEW runs, IsRuns(runs), NEW c \in DOMAIN discover(runs)
    PROVE  IsCell(c, discover(runs)[c])
<1>1. PICK I : I = PlacesOf(runs, c)
  OBVIOUS
<1>2. PICK f : f = OrderOf(runs, c)
  OBVIOUS
<1>3. PICK n : n = Cardinality(I)
  OBVIOUS
<1>4. /\ IsFiniteSet(I) /\ I # {} /\ Lists(f, I, Before(runs, I))
      /\ discover(runs)[c] = [k \in 1 .. n |-> runs[f[k]]]
  BY <1>1, <1>2, <1>3, Discovered
<1>5. n \in Nat /\ n # 0
  BY <1>3, <1>4, FS_CardinalityType, FS_EmptySet
<1>6. \A k \in 1 .. n : f[k] \in I
  BY <1>3, <1>4 DEF Lists
<1>7. \A i \in I : i \in 1 .. Len(runs) /\ IsRun(runs[i]) /\ runs[i].condition = c
  BY <1>1 DEF PlacesOf, IsRuns
<1>8. c \in Range(Alphabetical)
  BY <1>4, <1>7 DEF IsRun
<1>9. PICK rs : rs = discover(runs)[c]
  OBVIOUS
<1>10. DOMAIN rs = 1 .. n /\ \A k \in 1 .. n : rs[k] = runs[f[k]]
  BY <1>4, <1>9
<1>11. Len(rs) = n /\ rs = [k \in 1 .. n |-> rs[k]]
  BY <1>4, <1>5, <1>9
<1>. QED BY <1>5, <1>6, <1>7, <1>8, <1>9, <1>10, <1>11 DEF IsCell

-----------------------------------------------------------------------------
(* The order of the conditions *)

\* The place of an element.
LEMMA PositionIs ==
    ASSUME NEW s, NEW e \in Range(s)
    PROVE  Position(s, e) \in DOMAIN s /\ s[Position(s, e)] = e
<1>1. \E i \in DOMAIN s : s[i] = e
  BY DEF Range
<1>. QED BY <1>1 DEF Position

\* The conditions of the testbed are five different ones, numbered in run.sh's
\* order.
LEMMA KnownOrder ==
    /\ DOMAIN CONDITION_ORDER = 1 .. 5 /\ Len(CONDITION_ORDER) = 5
    /\ CONDITION_ORDER[1] = <<"fifo">>
    /\ \A k \in 1 .. 5 : /\ CONDITION_ORDER[k] \in Range(CONDITION_ORDER)
                         /\ _order(CONDITION_ORDER[k]) = k
<1>1. DOMAIN CONDITION_ORDER = 1 .. 5 /\ Len(CONDITION_ORDER) = 5
  BY DEF CONDITION_ORDER
<1>2. /\ CONDITION_ORDER[1][1] = "fifo" /\ CONDITION_ORDER[2][1] = "fq_codel"
      /\ CONDITION_ORDER[3][1] = "pfifo_fast_noclsf"
      /\ CONDITION_ORDER[4][1] = "pfifo_fast_clsf" /\ CONDITION_ORDER[5][1] = "prio_clsf"
      /\ CONDITION_ORDER[1] = <<"fifo">>
  BY DEF CONDITION_ORDER
<1>3. \A k, l \in 1 .. 5 : CONDITION_ORDER[k] = CONDITION_ORDER[l] => k = l
  <2>1. \A k \in 1 .. 5 : k = 1 \/ k = 2 \/ k = 3 \/ k = 4 \/ k = 5
    OBVIOUS
  <2>2. \A k, l \in 1 .. 5 : CONDITION_ORDER[k][1] = CONDITION_ORDER[l][1] => k = l
    BY <1>2, <2>1
  <2>. QED BY <2>2
<1>4. ASSUME NEW k \in 1 .. 5
      PROVE  /\ CONDITION_ORDER[k] \in Range(CONDITION_ORDER)
             /\ _order(CONDITION_ORDER[k]) = k
  <2>1. PICK c : c = CONDITION_ORDER[k]
    OBVIOUS
  <2>2. c \in Range(CONDITION_ORDER)
    BY <1>1, <2>1 DEF Range
  <2>3. /\ Position(CONDITION_ORDER, c) \in 1 .. 5
        /\ CONDITION_ORDER[Position(CONDITION_ORDER, c)] = c
    BY <1>1, <2>2, PositionIs
  <2>4. Position(CONDITION_ORDER, c) = k
    BY <1>3, <2>1, <2>3
  <2>5. _order(c) = k
    BY <2>2, <2>4 DEF _order
  <2>. QED BY <2>1, <2>2, <2>5
<1>. QED BY <1>1, <1>2, <1>4

\* The number of a condition; all others come after those of the testbed.
LEMMA OrderNumber ==
    ASSUME NEW c \in Range(Alphabetical)
    PROVE  /\ _order(c) \in Nat \ {0}
           /\ c \in Range(CONDITION_ORDER) =>
                 _order(c) \in 1 .. 5 /\ CONDITION_ORDER[_order(c)] = c
           /\ c \notin Range(CONDITION_ORDER) =>
                 /\ _order(c) > 5 /\ _order(c) - 5 \in DOMAIN Alphabetical
                 /\ Alphabetical[_order(c) - 5] = c
<1>1. CASE c \in Range(CONDITION_ORDER)
  <2>1. /\ Position(CONDITION_ORDER, c) \in 1 .. 5
        /\ CONDITION_ORDER[Position(CONDITION_ORDER, c)] = c
    BY <1>1, KnownOrder, PositionIs
  <2>2. _order(c) = Position(CONDITION_ORDER, c)
    BY <1>1 DEF _order
  <2>. QED BY <1>1, <2>1, <2>2
<1>2. CASE c \notin Range(CONDITION_ORDER)
  <2>1. DOMAIN Alphabetical = 1 .. Len(Alphabetical) /\ Len(Alphabetical) \in Nat
    BY DatasetAssumption
  <2>2. PICK n \in DOMAIN Alphabetical : n = Position(Alphabetical, c) /\ Alphabetical[n] = c
    BY PositionIs
  <2>3. _order(c) = 5 + n
    BY <1>2, <2>2, KnownOrder DEF _order
  <2>4. n \in Nat /\ n >= 1
    BY <2>1
  <2>5. (5 + n) - 5 = n /\ 5 + n > 5 /\ 5 + n \in Nat \ {0}
    BY <2>4
  <2>. QED BY <1>2, <2>2, <2>3, <2>5
<1>. QED BY <1>1, <1>2

\* No two conditions have the same number.
LEMMA OrderDistinct ==
    ASSUME NEW c \in Range(Alphabetical), NEW d \in Range(Alphabetical), _order(c) = _order(d)
    PROVE  c = d
<1>1. PICK n \in Nat : n = _order(c)
  BY OrderNumber
<1>2. CASE n \in 1 .. 5
  <2>1. ~(n > 5)
    BY <1>2
  <2>. QED BY <1>1, <2>1, OrderNumber
<1>3. CASE n > 5
  <2>1. n \notin 1 .. 5
    BY <1>3
  <2>. QED BY <1>1, <2>1, OrderNumber
<1>. QED BY <1>1, <1>2, <1>3, OrderNumber

\* The pairs of S in the order of their numbers.
ByOrder(S) == {cd \in S \X S : _order(cd[1]) < _order(cd[2])}

\* Names() lists conditions in that order.
LEMMA NamesList ==
    ASSUME NEW S, IsFiniteSet(S), S \in SUBSET Range(Alphabetical)
    PROVE  /\ Lists(Names(S), S, ByOrder(S))
           /\ \A c, d \in S : <<c, d>> \in ByOrder(S) <=> _order(c) < _order(d)
<1>1. \A c, d \in S : <<c, d>> \in ByOrder(S) <=> _order(c) < _order(d)
  BY DEF ByOrder
<1>2. \A c \in S : _order(c) \in Nat
  BY OrderNumber
<1>3. \A c, d \in S : c # d => _order(c) # _order(d)
  BY OrderDistinct
<1>4. Orders(S, ByOrder(S))
  <2>1. \A c \in S : <<c, c>> \notin ByOrder(S)
    BY <1>1, <1>2
  <2>2. \A c, d, e \in S : <<c, d>> \in ByOrder(S) /\ <<d, e>> \in ByOrder(S)
                              => <<c, e>> \in ByOrder(S)
    BY <1>1, <1>2
  <2>3. \A c, d \in S : c # d => <<c, d>> \in ByOrder(S) \/ <<d, c>> \in ByOrder(S)
    BY <1>1, <1>2, <1>3
  <2>. QED BY <2>1, <2>2, <2>3 DEF Orders
<1>5. Lists(InOrder(S, ByOrder(S)), S, ByOrder(S))
  BY <1>4, InOrderLists
<1>6. Names(S) = InOrder(S, ByOrder(S))
  BY DEF Names, ByOrder
<1>. QED BY <1>1, <1>5, <1>6

\* Where Names() puts a condition.
LEMMA NamesPlace ==
    ASSUME NEW S, IsFiniteSet(S), S \in SUBSET Range(Alphabetical)
    PROVE  /\ \A c \in S : /\ Position(Names(S), c) \in 1 .. Cardinality(S)
                           /\ Names(S)[Position(Names(S), c)] = c
           /\ \A c, d \in S : _order(c) < _order(d) =>
                                Position(Names(S), c) < Position(Names(S), d)
<1>1. PICK f : f = Names(S)
  OBVIOUS
<1>2. /\ Lists(f, S, ByOrder(S))
      /\ \A c, d \in S : <<c, d>> \in ByOrder(S) <=> _order(c) < _order(d)
  BY <1>1, NamesList
<1>3. ASSUME NEW c \in S PROVE Position(f, c) \in 1 .. Cardinality(S) /\ f[Position(f, c)] = c
  <2>1. c \in Range(f) /\ DOMAIN f = 1 .. Cardinality(S)
    BY <1>2 DEF Lists, Range
  <2>. QED BY <2>1, PositionIs
<1>4. ASSUME NEW c \in S, NEW d \in S, _order(c) < _order(d)
      PROVE  Position(f, c) < Position(f, d)
  <2>1. PICK k \in DOMAIN f : k = Position(f, c) /\ f[k] = c
    BY <1>2, <1>3 DEF Lists
  <2>2. PICK l \in DOMAIN f : l = Position(f, d) /\ f[l] = d
    BY <1>2, <1>3 DEF Lists
  <2>3. <<f[k], f[l]>> \in ByOrder(S)
    BY <1>2, <1>4, <2>1, <2>2
  <2>4. k < l
    BY <1>2, <2>3 DEF Lists
  <2>. QED BY <2>1, <2>2, <2>4
<1>. QED BY <1>1, <1>3, <1>4

-----------------------------------------------------------------------------
(* Sums, unions and runs in a row *)

\* f holds the sizes of the sets A[1], A[2], ...
Sizes(f, A) ==
    f \in Seq(Int) /\ \A k \in 1 .. Len(f) : IsFiniteSet(A[k]) /\ f[k] = Cardinality(A[k])

\* The elements of the first n sets, each with the number of its set.
Tagged(A, n) == UNION {{k} \X A[k] : k \in 1 .. n}

\* The sizes add up to the number of all of them.
LEMMA SumUnion ==
    ASSUME NEW f, NEW A, Sizes(f, A)
    PROVE  /\ IsFiniteSet(Tagged(A, Len(f))) /\ Total(f) = Cardinality(Tagged(A, Len(f)))
           /\ Total(f) \in Nat
<1>0. /\ f \in Seq(Int) /\ Len(f) \in Nat
      /\ \A k \in 1 .. Len(f) : IsFiniteSet(A[k]) /\ f[k] = Cardinality(A[k])
  BY DEF Sizes
<1>1. PICK s : PartialSums(s, f) /\ Total(f) = s[Len(f)]
  BY <1>0, TotalSums
<1>2. PICK n \in Nat : n = Len(f)
  BY <1>0
<1>. DEFINE T(k) == Tagged(A, k)
            S == {k \in Nat : k <= n => IsFiniteSet(T(k)) /\ s[k] = Cardinality(T(k))}
<1>3. 0 \in S
  <2>1. T(0) = {}
    BY DEF Tagged
  <2>2. s[0] = 0
    BY <1>1 DEF PartialSums
  <2>. QED BY <2>1, <2>2, FS_EmptySet
<1>4. ASSUME NEW k \in Nat, k \in S PROVE k + 1 \in S
  <2>. HIDE DEF T
  <2>. SUFFICES ASSUME k + 1 <= n
                PROVE  IsFiniteSet(T(k + 1)) /\ s[k + 1] = Cardinality(T(k + 1))
    OBVIOUS
  <2>1. IsFiniteSet(T(k)) /\ s[k] = Cardinality(T(k))
    BY <1>4
  <2>2. k + 1 \in 1 .. n /\ (k + 1) - 1 = k
    OBVIOUS
  <2>3. PICK B : B = A[k + 1] /\ IsFiniteSet(B) /\ f[k + 1] = Cardinality(B)
    BY <1>0, <1>2, <2>2
  <2>4. s[k + 1] = s[k] + Cardinality(B)
    BY <1>1, <1>2, <2>2, <2>3 DEF PartialSums
  <2>. DEFINE New == {k + 1} \X B
  <2>5. T(k + 1) = T(k) \cup New
    <3>1. \A j : j \in 1 .. (k + 1) <=> j \in 1 .. k \/ j = k + 1
      OBVIOUS
    <3>2. \A e : e \in T(k + 1) <=> \E j \in 1 .. (k + 1) : e \in {j} \X A[j]
      BY DEF T, Tagged
    <3>3. \A e : e \in T(k) <=> \E j \in 1 .. k : e \in {j} \X A[j]
      BY DEF T, Tagged
    <3>4. \A e : e \in New <=> e \in {k + 1} \X A[k + 1]
      BY <2>3
    <3>. HIDE DEF New
    <3>5. \A e : e \in T(k + 1) <=> e \in T(k) \/ e \in New
      BY <3>1, <3>2, <3>3, <3>4
    <3>. QED BY <3>5
  <2>6. T(k) \cap New = {}
    <3>1. \A e \in T(k) : e[1] \in 1 .. k
      BY DEF T, Tagged
    <3>2. \A e \in New : e[1] = k + 1
      OBVIOUS
    <3>3. k + 1 \notin 1 .. k
      OBVIOUS
    <3>. QED BY <3>1, <3>2, <3>3
  <2>7. IsFiniteSet(New) /\ Cardinality(New) = Cardinality(B)
    <3>. DEFINE g == [j \in B |-> <<k + 1, j>>]
    <3>1. g \in [B -> New]
      OBVIOUS
    <3>2. \A i, j \in B : g[i] = g[j] => i = j
      OBVIOUS
    <3>3. \A e \in New : \E j \in B : g[j] = e
      OBVIOUS
    <3>. HIDE DEF New, g
    <3>4. g \in Bijection(B, New)
      BY <3>1, <3>2, <3>3 DEF Bijection, Injection, Surjection, IsInjective
    <3>. QED BY <2>3, <3>4, FS_Bijection DEF ExistsBijection
  <2>. HIDE DEF New
  <2>8. /\ IsFiniteSet(T(k) \cup New)
        /\ Cardinality(T(k) \cup New) =
               Cardinality(T(k)) + Cardinality(New) - Cardinality(T(k) \cap New)
    BY <2>1, <2>7, FS_Union
  <2>9. Cardinality({}) = 0 /\ Cardinality(T(k)) \in Nat /\ Cardinality(New) \in Nat
    BY <2>1, <2>7, FS_EmptySet, FS_CardinalityType
  <2>10. Cardinality(T(k + 1)) = Cardinality(T(k)) + Cardinality(New) - 0
    BY <2>5, <2>6, <2>8, <2>9
  <2>11. Cardinality(T(k + 1)) = Cardinality(T(k)) + Cardinality(New)
    BY <2>9, <2>10
  <2>. QED BY <2>1, <2>4, <2>5, <2>7, <2>8, <2>11
<1>. HIDE DEF S, T
<1>5. \A k \in Nat : k \in S
  BY <1>3, <1>4, SetInduction
<1>6. IsFiniteSet(T(n)) /\ s[n] = Cardinality(T(n))
  BY <1>5 DEF S
<1>7. Cardinality(T(n)) \in Nat
  BY <1>6, FS_CardinalityType
<1>. QED BY <1>1, <1>2, <1>6, <1>7 DEF T

\* Rules for the steps 1 to n, and the functions that follow one from c.
Rules(V, n) == [V \X (1 .. n) -> V]
Follows(g, V, c, n, F) ==
    g \in [0 .. n -> V] /\ g[0] = c /\ \A i \in 1 .. n : g[i] = F[<<g[i - 1], i>>]

\* A value for 0 and a rule for the step from each number to the next define
\* a function.
LEMMA RecursiveFunction ==
    ASSUME NEW V, NEW c \in V, NEW n \in Nat, NEW F \in Rules(V, n)
    PROVE  \E g : Follows(g, V, c, n, F)
<1>. DEFINE S == {k \in Nat : k <= n => \E g : Follows(g, V, c, k, F)}
<1>1. 0 \in S
  <2>1. Follows([i \in 0 .. 0 |-> c], V, c, 0, F)
    BY DEF Follows
  <2>. QED BY <2>1
<1>2. ASSUME NEW k \in Nat, k \in S PROVE k + 1 \in S
  <2>. SUFFICES ASSUME k + 1 <= n PROVE \E g : Follows(g, V, c, k + 1, F)
    OBVIOUS
  <2>1. PICK g : Follows(g, V, c, k, F)
    BY <1>2
  <2>2. k + 1 \in 1 .. n /\ g[k] \in V
    BY <2>1 DEF Follows
  <2>3. PICK w \in V : w = F[<<g[k], k + 1>>]
    BY <2>2 DEF Rules
  <2>. DEFINE h == [i \in 0 .. (k + 1) |-> IF i <= k THEN g[i] ELSE w]
  <2>4. h \in [0 .. (k + 1) -> V] /\ h[0] = c
    BY <2>1 DEF Follows
  <2>5. ASSUME NEW i \in 1 .. (k + 1) PROVE h[i] = F[<<h[i - 1], i>>]
    <3>1. i - 1 \in 0 .. (k + 1) /\ i - 1 <= k /\ h[i - 1] = g[i - 1]
      OBVIOUS
    <3>2. CASE i <= k
      BY <2>1, <3>1, <3>2 DEF Follows
    <3>3. CASE i = k + 1
      <4>1. i - 1 = k /\ ~(i <= k) /\ i \in 0 .. (k + 1)
        BY <3>3
      <4>. QED BY <2>3, <3>1, <3>3, <4>1
    <3>. QED BY <3>2, <3>3
  <2>6. Follows(h, V, c, k + 1, F)
    BY <2>4, <2>5 DEF Follows
  <2>. QED BY <2>6
<1>. HIDE DEF S
<1>3. \A k \in Nat : k \in S
  BY <1>1, <1>2, SetInduction
<1>. QED BY <1>3 DEF S

\* How many values of y are in V.
Count(y, V) == Cardinality({i \in DOMAIN y : y[i] \in V})

\* Counts of two sequences in a row add up.
LEMMA JoinCount ==
    ASSUME NEW a \in Seq(Int), NEW e \in Seq(Int), NEW V
    PROVE  /\ Count(a \o e, V) = Count(a, V) + Count(e, V)
           /\ Count(a, V) \in Nat /\ Count(e, V) \in Nat
<1>. DEFINE m == Len(a)
            n == Len(e)
            w == a \o e
            T == {i \in DOMAIN w : w[i] \in V}
            A == {i \in DOMAIN a : a[i] \in V}
            E == {i \in DOMAIN e : e[i] \in V}
            F == {i \in T : i > m}
            g == [i \in E |-> m + i]
<1>1. /\ m \in Nat /\ n \in Nat /\ DOMAIN a = 1 .. m /\ DOMAIN e = 1 .. n
      /\ w \in Seq(Int) /\ DOMAIN w = 1 .. (m + n)
  OBVIOUS
<1>2. Joins(w, a, e)
  BY Joined
<1>3. IsFiniteSet(A) /\ IsFiniteSet(E)
  BY Places
<1>. HIDE DEF m, n, w
<1>4. /\ \A i \in 1 .. m : w[i] = a[i]
      /\ \A i \in 1 .. n : w[m + i] = e[i] /\ m + i \in 1 .. (m + n) /\ m + i > m
  BY <1>1, <1>2 DEF Joins, m, n
<1>5. \A i \in 1 .. (m + n) : i > m => i - m \in 1 .. n /\ m + (i - m) = i
  BY <1>1
<1>6. T = A \cup F /\ A \cap F = {}
  BY <1>1, <1>4
<1>7. g \in [E -> F]
  BY <1>1, <1>4
<1>8. \A i, j \in E : g[i] = g[j] => i = j
  BY <1>1
<1>9. ASSUME NEW i \in F PROVE \E j \in E : g[j] = i
  <2>1. i \in 1 .. (m + n) /\ i > m /\ w[i] \in V
    BY <1>1
  <2>2. PICK j \in 1 .. n : m + j = i
    BY <1>5, <2>1
  <2>3. j \in E
    BY <1>1, <1>4, <2>1, <2>2
  <2>. QED BY <2>2, <2>3
<1>. HIDE DEF T, A, E, F, g
<1>10. g \in Bijection(E, F)
  BY <1>7, <1>8, <1>9 DEF Bijection, Injection, Surjection, IsInjective
<1>11. IsFiniteSet(F) /\ Cardinality(F) = Cardinality(E)
  BY <1>3, <1>10, FS_Bijection DEF ExistsBijection
<1>12. Cardinality(A \cup F) = Cardinality(A) + Cardinality(F) - Cardinality(A \cap F)
  BY <1>3, <1>11, FS_Union
<1>13. Cardinality(A) \in Nat /\ Cardinality(F) \in Nat /\ Cardinality({}) = 0
  BY <1>3, <1>11, FS_CardinalityType, FS_EmptySet
<1>14. Cardinality(T) = Cardinality(A) + Cardinality(F)
  <2>1. Cardinality(T) = Cardinality(A) + Cardinality(F) - 0
    BY <1>6, <1>12, <1>13
  <2>. QED BY <1>13, <2>1
<1>. QED BY <1>11, <1>13, <1>14 DEF Count, T, A, E, w

\* s holds n samples.
Samples(s, n) == n \in Nat \ {0} /\ Len(s) = n /\ \A k \in 1 .. n : s[k] \in Seq(Int)

\* g puts the samples of s in a row, one by one.
Flattens(g, s, n) ==
    /\ g \in [1 .. n -> Seq(Int)] /\ g[1] = s[1]
    /\ \A k \in 2 .. n : g[k] = g[k - 1] \o s[k]

\* What FlattenSeq() does, step by step.
LEMMA FlattenSteps ==
    ASSUME NEW s, NEW n, Samples(s, n)
    PROVE  \E g : Flattens(g, s, n) /\ FlattenSeq(s) = g[n]
<1>. DEFINE V == Seq(Int)
            F == [u \in V \X (1 .. n) |-> IF u[2] = 1 THEN s[u[2]] ELSE u[1] \o s[u[2]]]
            Rec(g) == g = [i \in 1 .. n |-> IF i = 1 THEN s[i] ELSE g[i - 1] \o s[i]]
<1>0. n \in Nat \ {0} /\ Len(s) = n /\ \A k \in 1 .. n : s[k] \in V
  BY DEF Samples
<1>1. \A a, e \in V : a \o e \in V
  OBVIOUS
<1>2. <<>> \in V
  OBVIOUS
<1>. HIDE DEF V
<1>3. F \in Rules(V, n)
  BY <1>0, <1>1 DEF Rules
<1>4. \A w \in V, i \in 1 .. n : F[<<w, i>>] = IF i = 1 THEN s[i] ELSE w \o s[i]
  OBVIOUS
<1>. HIDE DEF F
<1>5. PICK f : Follows(f, V, <<>>, n, F)
  BY <1>0, <1>2, <1>3, RecursiveFunction
<1>. DEFINE h == [i \in 1 .. n |-> f[i]]
<1>6. ASSUME NEW i \in 1 .. n PROVE h[i] = IF i = 1 THEN s[i] ELSE h[i - 1] \o s[i]
  <2>1. i - 1 \in 0 .. n /\ f[i - 1] \in V
    BY <1>0, <1>5 DEF Follows
  <2>2. f[i] = IF i = 1 THEN s[i] ELSE f[i - 1] \o s[i]
    BY <1>4, <1>5, <2>1 DEF Follows
  <2>3. i # 1 => i - 1 \in 1 .. n
    BY <1>0
  <2>. QED BY <2>2, <2>3
<1>7. Rec(h)
  <2>1. h = [i \in 1 .. n |-> h[i]]
    OBVIOUS
  <2>. HIDE DEF h
  <2>. QED BY <1>6, <2>1
<1>. HIDE DEF h
<1>8. PICK g : g = CHOOSE t : Rec(t)
  OBVIOUS
<1>9. Rec(g)
  BY <1>7, <1>8
<1>10. FlattenSeq(s) = g[n]
  BY <1>0, <1>8 DEF FlattenSeq
<1>11. \A i \in 1 .. n : g[i] = IF i = 1 THEN s[i] ELSE g[i - 1] \o s[i]
  BY <1>9
<1>12. 1 \in 1 .. n /\ \A k \in 2 .. n : k \in 1 .. n /\ k # 1
  BY <1>0
<1>13. g[1] = s[1] /\ \A k \in 2 .. n : g[k] = g[k - 1] \o s[k]
  BY <1>11, <1>12
<1>14. \A k \in 1 .. n : g[k] \in V
  <2>. DEFINE R == {k \in Nat : k + 1 <= n => g[k + 1] \in V}
  <2>1. 0 \in R
    BY <1>0, <1>13
  <2>2. ASSUME NEW k \in Nat, k \in R PROVE k + 1 \in R
    <3>. SUFFICES ASSUME (k + 1) + 1 <= n PROVE g[(k + 1) + 1] \in V
      OBVIOUS
    <3>1. PICK j \in 2 .. n : j = (k + 1) + 1 /\ j - 1 = k + 1 /\ j \in 1 .. n
      BY <1>0
    <3>2. g[k + 1] \in V
      BY <1>0, <2>2
    <3>3. g[j] = g[k + 1] \o s[j]
      BY <1>13, <3>1
    <3>. QED BY <1>0, <1>1, <3>1, <3>2, <3>3
  <2>. HIDE DEF R
  <2>3. \A k \in Nat : k \in R
    BY <2>1, <2>2, SetInduction
  <2>4. ASSUME NEW k \in 1 .. n PROVE g[k] \in V
    <3>1. PICK j \in Nat : k = j + 1 /\ j + 1 <= n
      <4>1. k - 1 \in Nat /\ k = (k - 1) + 1 /\ k <= n
        BY <1>0
      <4>. QED BY <4>1
    <3>. QED BY <2>3, <3>1 DEF R
  <2>. QED BY <2>4
<1>15. g \in [1 .. n -> V]
  BY <1>9, <1>14
<1>16. Flattens(g, s, n)
  BY <1>13, <1>15 DEF Flattens, V
<1>. QED BY <1>10, <1>16

\* The counts of the samples of s.
CountsIn(s, n, V) == [k \in 1 .. n |-> Count(s[k], V)]

\* A count over samples in a row is the sum of the counts over each.
LEMMA FlattenCount ==
    ASSUME NEW s, NEW n, Samples(s, n), NEW V
    PROVE  /\ FlattenSeq(s) \in Seq(Int)
           /\ CountsIn(s, n, V) \in Seq(Int) /\ Len(CountsIn(s, n, V)) = n
           /\ Count(FlattenSeq(s), V) = Total(CountsIn(s, n, V))
<1>0. n \in Nat \ {0} /\ Len(s) = n /\ \A k \in 1 .. n : s[k] \in Seq(Int)
  BY DEF Samples
<1>1. PICK g : Flattens(g, s, n) /\ FlattenSeq(s) = g[n]
  BY FlattenSteps
<1>2. /\ \A k \in 1 .. n : g[k] \in Seq(Int)
      /\ g[1] = s[1] /\ \A k \in 2 .. n : g[k] = g[k - 1] \o s[k]
  BY <1>1 DEF Flattens
<1>3. PICK f : f = CountsIn(s, n, V)
  OBVIOUS
<1>4. \A k \in 1 .. n : f[k] = Count(s[k], V) /\ f[k] \in Nat
  BY <1>0, <1>3, JoinCount DEF CountsIn
<1>5. f \in Seq(Int) /\ Len(f) = n
  <2>1. f \in [1 .. n -> Int]
    BY <1>3, <1>4 DEF CountsIn
  <2>. QED BY <1>0, <2>1
<1>6. PICK t : PartialSums(t, f) /\ Total(f) = t[n]
  BY <1>5, TotalSums
<1>7. /\ t[0] = 0 /\ \A i \in 1 .. n : t[i] = t[i - 1] + f[i]
  BY <1>5, <1>6 DEF PartialSums
<1>. DEFINE R == {k \in Nat : k + 1 <= n => Count(g[k + 1], V) = t[k + 1]}
<1>8. 0 \in R
  <2>1. 1 \in 1 .. n /\ 1 - 1 = 0
    BY <1>0
  <2>2. t[1] = 0 + f[1] /\ f[1] \in Nat /\ f[1] = Count(s[1], V)
    BY <1>4, <1>7, <2>1
  <2>3. Count(g[1], V) = t[1]
    BY <1>2, <2>2
  <2>. QED BY <2>3
<1>9. ASSUME NEW k \in Nat, k \in R PROVE k + 1 \in R
  <2>. SUFFICES ASSUME (k + 1) + 1 <= n PROVE Count(g[(k + 1) + 1], V) = t[(k + 1) + 1]
    OBVIOUS
  <2>1. PICK j \in 2 .. n : j = (k + 1) + 1 /\ j - 1 = k + 1 /\ j \in 1 .. n /\ k + 1 \in 1 .. n
    BY <1>0
  <2>2. Count(g[k + 1], V) = t[k + 1]
    BY <1>0, <1>9
  <2>3. g[j] = g[k + 1] \o s[j] /\ g[k + 1] \in Seq(Int) /\ s[j] \in Seq(Int)
    BY <1>0, <1>2, <2>1
  <2>4. Count(g[j], V) = Count(g[k + 1], V) + Count(s[j], V)
    BY <2>3, JoinCount
  <2>5. t[j] = t[k + 1] + f[j] /\ f[j] = Count(s[j], V)
    BY <1>4, <1>7, <2>1
  <2>. QED BY <2>1, <2>2, <2>4, <2>5
<1>. HIDE DEF R
<1>10. \A k \in Nat : k \in R
  BY <1>8, <1>9, SetInduction
<1>11. PICK j \in Nat : n = j + 1
  <2>1. n - 1 \in Nat /\ n = (n - 1) + 1
    BY <1>0
  <2>. QED BY <2>1
<1>12. Count(g[n], V) = t[n]
  BY <1>10, <1>11 DEF R
<1>13. n \in 1 .. n
  BY <1>0
<1>. QED BY <1>1, <1>2, <1>3, <1>5, <1>6, <1>12, <1>13

\* A count of all values is the length.
LEMMA CountAll ==
    ASSUME NEW y \in Seq(Int)
    PROVE  Count(y, Int) = Len(y) /\ Len(y) \in Nat
<1>1. DOMAIN y = 1 .. Len(y) /\ Len(y) \in Nat /\ \A i \in DOMAIN y : y[i] \in Int
  OBVIOUS
<1>2. {i \in DOMAIN y : y[i] \in Int} = 1 .. Len(y)
  BY <1>1
<1>. QED BY <1>1, <1>2, FirstPlaces DEF Count

\* A value is in a sequence when its count is not zero.
LEMMA CountRange ==
    ASSUME NEW y \in Seq(Int), NEW V
    PROVE  /\ Count(y, V) \in Nat
           /\ Count(y, V) = 0 <=> \A i \in DOMAIN y : y[i] \notin V
<1>. DEFINE T == {i \in DOMAIN y : y[i] \in V}
<1>1. IsFiniteSet(T)
  BY Places
<1>2. T = {} <=> \A i \in DOMAIN y : y[i] \notin V
  OBVIOUS
<1>. HIDE DEF T
<1>3. Cardinality(T) \in Nat /\ (Cardinality(T) = 0 <=> T = {})
  BY <1>1, FS_CardinalityType, FS_EmptySet
<1>. QED BY <1>2, <1>3 DEF Count, T

-----------------------------------------------------------------------------
(* The pooled samples *)

\* The jitters of one run: all rows but the first, without sign.
LEMMA JitterValues ==
    ASSUME NEW j \in Seq(Int), j # <<>>
    PROVE  /\ jitter_values(j) \in Seq(Int) /\ Len(jitter_values(j)) = Len(j) - 1
           /\ Len(j) \in Nat \ {0}
           /\ \A i \in 1 .. (Len(j) - 1) : jitter_values(j)[i] >= 0
           /\ \A v \in Nat : LET R == {i \in 2 .. Len(j) : j[i] \in {v, -v}}
                             IN  IsFiniteSet(R) /\ Count(jitter_values(j), {v}) = Cardinality(R)
<1>1. PICK n \in Nat \ {0} : n = Len(j) /\ DOMAIN j = 1 .. n
  BY NotEmpty
<1>2. PICK m \in Nat : m = n - 1 /\ n = m + 1
  <2>1. n - 1 \in Nat /\ n = (n - 1) + 1
    OBVIOUS
  <2>. QED BY <2>1
<1>3. PICK y : y = jitter_values(j)
  OBVIOUS
<1>4. y = [i \in 1 .. m |-> IF j[i + 1] < 0 THEN -j[i + 1] ELSE j[i + 1]]
  BY <1>1, <1>2, <1>3 DEF jitter_values
<1>5. \A i \in 1 .. m : i + 1 \in 2 .. n /\ i + 1 \in 1 .. n /\ j[i + 1] \in Int
  BY <1>1, <1>2
<1>6. \A i \in 1 .. m : y[i] \in Int /\ y[i] >= 0
  BY <1>4, <1>5
<1>7. y \in [1 .. m -> Int]
  BY <1>4, <1>6
<1>8. y \in Seq(Int) /\ Len(y) = m /\ DOMAIN y = 1 .. m
  BY <1>7
<1>9. ASSUME NEW v \in Nat
      PROVE  LET R == {i \in 2 .. n : j[i] \in {v, -v}}
             IN  IsFiniteSet(R) /\ Count(y, {v}) = Cardinality(R)
  <2>. DEFINE R == {i \in 2 .. n : j[i] \in {v, -v}}
              T == {i \in DOMAIN y : y[i] \in {v}}
              g == [i \in T |-> i + 1]
  <2>1. IsFiniteSet(T)
    BY <1>8, Places
  <2>2. \A i \in 1 .. m : y[i] = v <=> j[i + 1] \in {v, -v}
    <3>1. ASSUME NEW i \in 1 .. m PROVE y[i] = v <=> (j[i + 1] = v \/ j[i + 1] = -v)
      <4>1. PICK w \in Int : w = j[i + 1]
        BY <1>5
      <4>2. y[i] = IF w < 0 THEN -w ELSE w
        BY <1>4, <4>1
      <4>. QED BY <4>1, <4>2
    <3>. QED BY <3>1
  <2>3. T = {i \in 1 .. m : j[i + 1] \in {v, -v}}
    BY <1>8, <2>2
  <2>4. g \in [T -> R]
    BY <1>5, <2>3
  <2>5. \A i, k \in T : g[i] = g[k] => i = k
    BY <1>8
  <2>6. ASSUME NEW k \in R PROVE \E i \in T : g[i] = k
    <3>1. PICK i \in 1 .. m : i + 1 = k
      <4>1. k - 1 \in 1 .. m /\ (k - 1) + 1 = k
        BY <1>2
      <4>. QED BY <4>1
    <3>2. i \in T
      BY <2>3, <3>1
    <3>. QED BY <3>1, <3>2
  <2>. HIDE DEF T, R, g
  <2>7. g \in Bijection(T, R)
    BY <2>4, <2>5, <2>6 DEF Bijection, Injection, Surjection, IsInjective
  <2>8. IsFiniteSet(R) /\ Cardinality(R) = Cardinality(T)
    BY <2>1, <2>7, FS_Bijection DEF ExistsBijection
  <2>. QED BY <2>8 DEF Count, T, R
<1>. QED BY <1>1, <1>2, <1>3, <1>6, <1>8, <1>9

\* The samples of a cell, run by run, and the numbers of rows.
Latencies(rs) == [k \in DOMAIN rs |-> rs[k].latency_ms]
RowCounts(rs) == [k \in DOMAIN rs |-> Len(rs[k].seq)]

\* Every run of a cell gives one sample of each kind, and they are pooled in order.
LEMMA CellSamples ==
    ASSUME NEW c, NEW rs, IsCell(c, rs)
    PROVE  /\ Samples(Latencies(rs), Len(rs)) /\ Samples(JitterSamples(rs), Len(rs))
           /\ latency_ms(rs) = FlattenSeq(Latencies(rs))
           /\ jitter_us(rs) = FlattenSeq(JitterSamples(rs))
<1>1. PICK n \in Nat \ {0} : n = Len(rs) /\ DOMAIN rs = 1 .. n
  BY DEF IsCell
<1>2. \A k \in 1 .. n : /\ rs[k].latency_ms \in Seq(Int) /\ rs[k].jitter_us \in Seq(Int)
                        /\ rs[k].jitter_us # <<>>
  <2>1. ASSUME NEW k \in 1 .. n
        PROVE  /\ rs[k].latency_ms \in Seq(Int) /\ rs[k].jitter_us \in Seq(Int)
               /\ rs[k].jitter_us # <<>>
    <3>1. PICK r : r = rs[k] /\ IsRun(r)
      BY <1>1 DEF IsCell
    <3>2. /\ r.seq \in Seq(Nat) /\ r.seq # <<>> /\ r.latency_ms \in Seq(Int)
          /\ r.jitter_us \in Seq(Int) /\ Len(r.jitter_us) = Len(r.seq)
      BY <3>1 DEF IsRun
    <3>3. Len(r.seq) # 0
      BY <3>2
    <3>4. r.jitter_us # <<>>
      BY <3>2, <3>3
    <3>. QED BY <3>1, <3>2, <3>4
  <2>. QED BY <2>1
<1>3. Samples(Latencies(rs), n)
  BY <1>1, <1>2 DEF Samples, Latencies
<1>4. Samples(JitterSamples(rs), n)
  <2>1. \A k \in 1 .. n : jitter_values(rs[k].jitter_us) \in Seq(Int)
    BY <1>2, JitterValues
  <2>. QED BY <1>1, <2>1 DEF Samples, JitterSamples
<1>. QED BY <1>1, <1>3, <1>4 DEF latency_ms, jitter_us, Latencies, JitterSamples

\* The lengths of the pooled samples.
LEMMA PooledLengths ==
    ASSUME NEW c, NEW rs, IsCell(c, rs)
    PROVE  /\ latency_ms(rs) \in Seq(Int) /\ jitter_us(rs) \in Seq(Int)
           /\ RowCounts(rs) \in Seq(Int) /\ Len(RowCounts(rs)) = Len(rs)
           /\ Len(latency_ms(rs)) = Total(RowCounts(rs))
           /\ Len(jitter_us(rs)) = Len(latency_ms(rs)) - Len(rs)
<1>1. PICK n \in Nat \ {0} : n = Len(rs) /\ DOMAIN rs = 1 .. n
  BY DEF IsCell
<1>2. /\ Samples(Latencies(rs), n) /\ Samples(JitterSamples(rs), n)
      /\ latency_ms(rs) = FlattenSeq(Latencies(rs))
      /\ jitter_us(rs) = FlattenSeq(JitterSamples(rs))
  BY <1>1, CellSamples
<1>3. PICK f : f = CountsIn(Latencies(rs), n, Int)
  OBVIOUS
<1>4. PICK g : g = CountsIn(JitterSamples(rs), n, Int)
  OBVIOUS
<1>5. /\ latency_ms(rs) \in Seq(Int) /\ f \in Seq(Int) /\ Len(f) = n
      /\ Count(latency_ms(rs), Int) = Total(f)
  BY <1>2, <1>3, FlattenCount
<1>6. /\ jitter_us(rs) \in Seq(Int) /\ g \in Seq(Int) /\ Len(g) = n
      /\ Count(jitter_us(rs), Int) = Total(g)
  BY <1>2, <1>4, FlattenCount
<1>7. ASSUME NEW k \in 1 .. n
      PROVE  f[k] = Len(rs[k].seq) /\ f[k] = g[k] + 1 /\ f[k] \in Int
  <2>1. PICK r : r = rs[k] /\ IsRun(r)
    BY <1>1 DEF IsCell
  <2>2. /\ r.seq \in Seq(Nat) /\ r.seq # <<>> /\ r.latency_ms \in Seq(Int)
        /\ r.jitter_us \in Seq(Int) /\ Len(r.jitter_us) = Len(r.seq)
        /\ Len(r.latency_ms) = Len(r.seq)
    BY <2>1 DEF IsRun
  <2>3. Len(r.seq) # 0 /\ Len(r.seq) \in Nat
    BY <2>2
  <2>4. r.jitter_us # <<>>
    BY <2>2, <2>3
  <2>5. f[k] = Count(r.latency_ms, Int)
    BY <1>1, <1>3, <2>1 DEF CountsIn, Latencies
  <2>6. g[k] = Count(jitter_values(r.jitter_us), Int)
    BY <1>1, <1>4, <2>1 DEF CountsIn, JitterSamples
  <2>7. /\ jitter_values(r.jitter_us) \in Seq(Int)
        /\ Len(jitter_values(r.jitter_us)) = Len(r.jitter_us) - 1
    BY <2>2, <2>4, JitterValues
  <2>8. f[k] = Len(r.seq) /\ g[k] = Len(r.seq) - 1
    BY <2>2, <2>5, <2>6, <2>7, CountAll
  <2>. QED BY <2>1, <2>3, <2>8
<1>8. RowCounts(rs) = f
  <2>1. f = [k \in 1 .. n |-> f[k]]
    BY <1>3 DEF CountsIn
  <2>. QED BY <1>1, <1>7, <2>1 DEF RowCounts
<1>. DEFINE one == [k \in 1 .. n |-> 1]
<1>9. one \in Seq(Int) /\ Len(one) = n /\ \A k \in 1 .. n : one[k] = 1
  OBVIOUS
<1>. HIDE DEF one
<1>10. AddsUp(g, one, f)
  BY <1>5, <1>6, <1>7, <1>9 DEF AddsUp
<1>11. Total(f) = Total(g) + Total(one) /\ Total(g) \in Int /\ Total(one) \in Int
  BY <1>10, TotalAdds
<1>12. Total(one) = n
  <2>1. \A k \in 1 .. Len(one) : 1 <= one[k] /\ one[k] <= 1
    BY <1>9
  <2>2. Total(one) \in Int /\ n * 1 <= Total(one) /\ Total(one) <= n * 1
    BY <1>9, <2>1, TotalBetween
  <2>. QED BY <2>2
<1>13. Len(latency_ms(rs)) = Total(f) /\ Len(jitter_us(rs)) = Total(g)
  BY <1>5, <1>6, CountAll
<1>. QED BY <1>1, <1>5, <1>6, <1>8, <1>11, <1>12, <1>13

\* The jitters of a cell, value by value.
LEMMA JitterCounts ==
    ASSUME NEW c, NEW rs, IsCell(c, rs), NEW v \in Range(jitter_us(rs))
    PROVE  Histogram(jitter_us(rs), DOMAIN jitter_us(rs))[v] =
               Cardinality(UNION {{k} \X {i \in 2 .. Len(rs[k].jitter_us) :
                                            rs[k].jitter_us[i] \in {v, -v}} : k \in DOMAIN rs})
<1>1. PICK n \in Nat \ {0} : n = Len(rs) /\ DOMAIN rs = 1 .. n
  BY DEF IsCell
<1>2. PICK y : y = jitter_us(rs)
  OBVIOUS
<1>3. PICK s : s = JitterSamples(rs)
  OBVIOUS
<1>4. Samples(s, n) /\ y = FlattenSeq(s)
  BY <1>1, <1>2, <1>3, CellSamples
<1>5. y \in Seq(Int) /\ DOMAIN y = 1 .. Len(y)
  BY <1>4, FlattenCount
<1>6. \A k \in 1 .. n : /\ rs[k].jitter_us \in Seq(Int) /\ rs[k].jitter_us # <<>>
                        /\ s[k] = jitter_values(rs[k].jitter_us)
  <2>1. ASSUME NEW k \in 1 .. n PROVE rs[k].jitter_us \in Seq(Int) /\ rs[k].jitter_us # <<>>
    <3>1. PICK r : r = rs[k] /\ IsRun(r)
      BY <1>1 DEF IsCell
    <3>2. /\ r.seq \in Seq(Nat) /\ r.seq # <<>>
          /\ r.jitter_us \in Seq(Int) /\ Len(r.jitter_us) = Len(r.seq)
      BY <3>1 DEF IsRun
    <3>3. Len(r.seq) # 0
      BY <3>2
    <3>4. r.jitter_us # <<>>
      BY <3>2, <3>3
    <3>. QED BY <3>1, <3>2, <3>4
  <2>. QED BY <1>1, <1>3, <2>1 DEF JitterSamples
<1>7. v \in Nat
  <2>. DEFINE V == Int \ Nat
  <2>1. \A k \in 1 .. n : Count(s[k], V) = 0
    <3>1. ASSUME NEW k \in 1 .. n PROVE Count(s[k], V) = 0
      <4>1. /\ s[k] \in Seq(Int) /\ DOMAIN s[k] = 1 .. Len(s[k])
            /\ \A i \in 1 .. Len(s[k]) : s[k][i] >= 0
        <5>1. PICK j : j = rs[k].jitter_us
          OBVIOUS
        <5>2. j \in Seq(Int) /\ j # <<>> /\ s[k] = jitter_values(j)
          BY <1>6, <5>1
        <5>3. /\ jitter_values(j) \in Seq(Int) /\ Len(jitter_values(j)) = Len(j) - 1
              /\ \A i \in 1 .. (Len(j) - 1) : jitter_values(j)[i] >= 0
          BY <5>2, JitterValues
        <5>. QED BY <5>2, <5>3
      <4>2. \A i \in DOMAIN s[k] : s[k][i] \notin V
        BY <4>1
      <4>. HIDE DEF V
      <4>. QED BY <4>1, <4>2, CountRange
    <3>. QED BY <3>1
  <2>2. PICK f : f = CountsIn(s, n, V)
    OBVIOUS
  <2>3. f \in Seq(Int) /\ Len(f) = n /\ Count(y, V) = Total(f)
    BY <1>4, <2>2, FlattenCount
  <2>4. \A k \in 1 .. Len(f) : 0 <= f[k] /\ f[k] <= 0
    BY <2>1, <2>2, <2>3 DEF CountsIn
  <2>5. Total(f) = 0
    <3>1. Total(f) \in Int /\ Len(f) * 0 <= Total(f) /\ Total(f) <= Len(f) * 0
      BY <2>3, <2>4, TotalBetween
    <3>2. n * 0 = 0
      OBVIOUS
    <3>. QED BY <2>3, <3>1, <3>2
  <2>6. \A i \in DOMAIN y : y[i] \notin V
    BY <1>5, <2>3, <2>5, CountRange
  <2>7. v \in Int /\ v \notin V
    BY <1>2, <1>5, <2>6 DEF Range
  <2>. QED BY <2>7
<1>. DEFINE A == [k \in 1 .. n |-> {i \in 2 .. Len(rs[k].jitter_us) :
                                     rs[k].jitter_us[i] \in {v, -v}}]
<1>8. PICK f : f = CountsIn(s, n, {v})
  OBVIOUS
<1>9. f \in Seq(Int) /\ Len(f) = n /\ Count(y, {v}) = Total(f)
  BY <1>4, <1>8, FlattenCount
<1>10. ASSUME NEW k \in 1 .. n PROVE IsFiniteSet(A[k]) /\ f[k] = Cardinality(A[k])
  <2>1. PICK j : j = rs[k].jitter_us
    OBVIOUS
  <2>2. j \in Seq(Int) /\ j # <<>> /\ f[k] = Count(jitter_values(j), {v})
    BY <1>6, <1>8, <2>1 DEF CountsIn
  <2>3. A[k] = {i \in 2 .. Len(j) : j[i] \in {v, -v}}
    BY <2>1
  <2>4. LET R == {i \in 2 .. Len(j) : j[i] \in {v, -v}}
        IN  IsFiniteSet(R) /\ Count(jitter_values(j), {v}) = Cardinality(R)
    BY <1>7, <2>2, JitterValues
  <2>. QED BY <2>2, <2>3, <2>4
<1>11. Tagged(A, n) = UNION {{k} \X {i \in 2 .. Len(rs[k].jitter_us) :
                                       rs[k].jitter_us[i] \in {v, -v}} : k \in DOMAIN rs}
  BY <1>1 DEF Tagged
<1>. HIDE DEF A
<1>12. Sizes(f, A)
  BY <1>9, <1>10 DEF Sizes
<1>13. Total(f) = Cardinality(Tagged(A, n))
  BY <1>9, <1>12, SumUnion
<1>14. Histogram(y, DOMAIN y)[v] = Count(y, {v})
  <2>1. v \in {y[i] : i \in DOMAIN y}
    BY <1>2 DEF Range
  <2>2. Histogram(y, DOMAIN y)[v] = Cardinality({i \in DOMAIN y : y[i] = v})
    BY <2>1 DEF Histogram
  <2>3. {i \in DOMAIN y : y[i] = v} = {i \in DOMAIN y : y[i] \in {v}}
    OBVIOUS
  <2>. QED BY <2>2, <2>3 DEF Count
<1>. QED BY <1>2, <1>9, <1>11, <1>13, <1>14

-----------------------------------------------------------------------------
(* The loader and the dataset, as invariants *)

\* What AnalysisAssumption says of a directory.
GoodDir(d) ==
    /\ d \in Seq([stem : Seq(STRING), header : SUBSET STRING, rows : Seq(Row)])
    /\ \A i, j \in DOMAIN d : d[i].stem = d[j].stem => i = j
    /\ \A i \in DOMAIN d : parse_name(d[i].stem).condition \in Range(Alphabetical)

InputInv ==
    /\ args.cmd \in {"summary", "plot", "compare"}
    /\ args.cmd = "compare" => args.metric \in {"latency", "jitter"}
    /\ dir # NoDir => GoodDir(dir)

\* The runs so far are those of the first files.
LoadInv ==
    /\ loaded \in Seq({load_csv(dir[i]) : i \in DOMAIN dir})
    /\ dir = NoDir => loaded = <<>>
    /\ dir # NoDir =>
          /\ Len(loaded) <= Len(dir)
          /\ \A i \in 1 .. Len(loaded) : loaded[i] = load_csv(dir[i]) /\ ~Malformed(dir[i])

\* All files were read and the cells were built from them.
Built == dir # NoDir /\ Len(loaded) = Len(dir) /\ cells = discover(loaded)

\* Where a command may be before the cells are built, and after.
Loading == {"main", "load", "end"}
Working == {"summary", "cells", "markdown", "json", "plot", "cdf", "compare"}

CellsInv ==
    /\ pc \in Loading \cup Working
    /\ pc = "load" => dir # NoDir
    /\ cells = <<>> \/ Built
    /\ pc \in Working \/ status = 0 => Built

StatusInv == status \in {-1, 0, 1, 2} /\ (status = -1 <=> pc # "end")

DataInv == InputInv /\ LoadInv /\ CellsInv /\ StatusInv

\* Nothing is read or built in the beginning.
LEMMA InitData == Init => DataInv
<1>. SUFFICES ASSUME Init PROVE DataInv
  OBVIOUS
<1>1. PICK i \in Inputs : dir = i.dir /\ args = i.args
  BY DEF Init
<1>2. InputInv
  BY <1>1, AnalysisAssumption DEF InputInv, GoodDir
<1>3. pc = "main" /\ loaded = <<>> /\ cells = <<>> /\ status = -1
  BY DEF Init
<1>4. LoadInv
  <2>1. loaded \in Seq({load_csv(dir[k]) : k \in DOMAIN dir}) /\ Len(loaded) = 0
    BY <1>3
  <2>2. dir # NoDir => Len(dir) \in Nat
    BY <1>2 DEF InputInv, GoodDir
  <2>. QED BY <1>3, <2>1, <2>2 DEF LoadInv
<1>5. CellsInv /\ StatusInv
  BY <1>3 DEF CellsInv, StatusInv, Loading, Working
<1>. QED BY <1>2, <1>4, <1>5 DEF DataInv

\* Steps after which the command is done, or still at work, and the data are as
\* they were.
Ends ==
    /\ UNCHANGED <<dir, args, loaded, cells>>
    /\ pc' = "end" /\ status' \in {0, 1, 2} /\ (status' = 0 => pc \in Working)
Works ==
    /\ UNCHANGED <<dir, args, loaded, cells>>
    /\ pc \in Working /\ pc' \in Working /\ UNCHANGED status

\* Every step is one of these, or reads a file, or builds the cells.
LEMMA StepKinds ==
    Next => Ends \/ Works \/ Main \/ Load \/ Build \/ Terminated
<1>. SUFFICES ASSUME Next PROVE Ends \/ Works \/ Main \/ Load \/ Build \/ Terminated
  OBVIOUS
<1>. USE DEF Ends, Works, Working, Fail, Exit, input, report
<1>1. CASE NoDirectory \/ LoadFails \/ NoBaseline \/ SummariseRaises \/ NothingToPlot \/ NotFound
             \/ BadStatistic
  BY <1>1 DEF NoDirectory, LoadFails, NoBaseline, SummariseRaises, NothingToPlot, NotFound,
              BadStatistic
<1>2. CASE ChooseBaseline \/ Summarise \/ Compare \/ Rendered
  BY <1>2 DEF ChooseBaseline, Summarise, Compare, Rendered
<1>3. CASE EmitMarkdown \/ EmitJson
  BY <1>3 DEF EmitMarkdown, EmitJson
<1>4. CASE PlotPercentiles \/ PlotCdf \/ CompareTwo
  BY <1>4 DEF PlotPercentiles, PlotCdf, CompareTwo
<1>. QED BY <1>1, <1>2, <1>3, <1>4 DEF Next

\* Every step of the command keeps what is known of files, runs and cells.
LEMMA NextData == DataInv /\ [Next]_vars => DataInv'
<1>. SUFFICES ASSUME DataInv, [Next]_vars PROVE DataInv'
  OBVIOUS
<1>0. InputInv /\ LoadInv /\ CellsInv /\ StatusInv
  BY DEF DataInv
<1>1. CASE UNCHANGED <<dir, args, loaded, cells, pc, status>>
  <2>1. InputInv'
    BY <1>0, <1>1 DEF InputInv, GoodDir
  <2>2. LoadInv'
    BY <1>0, <1>1 DEF LoadInv
  <2>3. CellsInv' /\ StatusInv'
    BY <1>0, <1>1 DEF CellsInv, StatusInv, Built
  <2>. QED BY <2>1, <2>2, <2>3 DEF DataInv
<1>2. CASE Ends \/ Works
  <2>0. UNCHANGED <<dir, args, loaded, cells>>
    BY <1>2 DEF Ends, Works
  <2>1. InputInv' /\ LoadInv'
    BY <1>0, <2>0 DEF InputInv, LoadInv, GoodDir
  <2>2. Built' <=> Built
    BY <2>0 DEF Built
  <2>3. CASE Ends
    BY <1>0, <2>0, <2>1, <2>2, <2>3 DEF Ends, CellsInv, StatusInv, Loading, Working, DataInv
  <2>4. CASE Works
    BY <1>0, <2>0, <2>1, <2>2, <2>4 DEF Works, CellsInv, StatusInv, Loading, Working, DataInv
  <2>. QED BY <1>2, <2>3, <2>4
<1>3. CASE Main
  <2>1. /\ UNCHANGED <<dir, args, loaded, cells, status>> /\ pc' = "load" /\ pc = "main"
        /\ dir # NoDir
    BY <1>3 DEF Main, input
  <2>2. InputInv' /\ LoadInv'
    BY <1>0, <2>1 DEF InputInv, LoadInv, GoodDir
  <2>3. Built' <=> Built
    BY <2>1 DEF Built
  <2>. QED BY <1>0, <2>1, <2>2, <2>3 DEF CellsInv, StatusInv, Loading, Working, DataInv
<1>4. CASE Load
  <2>1. /\ UNCHANGED <<dir, args, cells, pc, status>> /\ pc = "load" /\ Len(loaded) < Len(dir)
        /\ ~Malformed(dir[Len(loaded) + 1])
        /\ loaded' = Append(loaded, load_csv(dir[Len(loaded) + 1]))
    BY <1>4 DEF Load, input
  <2>2. dir # NoDir
    BY <1>0, <2>1 DEF CellsInv
  <2>3. PICK m \in Nat : m = Len(dir) /\ DOMAIN dir = 1 .. m
    BY <1>0, <2>2 DEF InputInv, GoodDir
  <2>4. PICK n \in Nat : n = Len(loaded) /\ n < m
    BY <1>0, <2>1, <2>3 DEF LoadInv
  <2>5. PICK e : e = load_csv(dir[n + 1])
    OBVIOUS
  <2>6. PICK V : V = {load_csv(dir[i]) : i \in DOMAIN dir}
    OBVIOUS
  <2>7. e \in V /\ loaded \in Seq(V)
    BY <1>0, <2>3, <2>4, <2>5, <2>6 DEF LoadInv
  <2>8. /\ loaded' \in Seq(V) /\ Len(loaded') = n + 1 /\ loaded'[n + 1] = e
        /\ \A i \in 1 .. n : loaded'[i] = loaded[i]
    BY <2>1, <2>4, <2>5, <2>7
  <2>9. \A i \in 1 .. (n + 1) : i \in 1 .. n \/ i = n + 1
    OBVIOUS
  <2>10. \A i \in 1 .. (n + 1) : loaded'[i] = load_csv(dir[i]) /\ ~Malformed(dir[i])
    BY <1>0, <2>1, <2>2, <2>4, <2>5, <2>8, <2>9 DEF LoadInv
  <2>11. LoadInv'
    BY <2>1, <2>2, <2>3, <2>4, <2>6, <2>8, <2>10 DEF LoadInv
  <2>12. InputInv'
    BY <1>0, <2>1 DEF InputInv, GoodDir
  <2>13. ~Built
    BY <2>3, <2>4 DEF Built
  <2>. QED BY <1>0, <2>1, <2>11, <2>12, <2>13
           DEF CellsInv, StatusInv, Loading, Working, DataInv
<1>5. CASE Build
  <2>1. /\ UNCHANGED <<dir, args, loaded, status>> /\ pc = "load" /\ Len(loaded) = Len(dir)
        /\ cells' = discover(loaded) /\ pc' = args.cmd
    BY <1>5 DEF Build, input
  <2>2. InputInv' /\ LoadInv'
    BY <1>0, <2>1 DEF InputInv, LoadInv, GoodDir
  <2>3. Built' /\ dir # NoDir
    BY <1>0, <2>1 DEF Built, CellsInv
  <2>4. pc' \in Working /\ pc' # "end" /\ pc # "end"
    BY <1>0, <2>1 DEF InputInv, Working
  <2>. QED BY <1>0, <2>1, <2>2, <2>3, <2>4 DEF CellsInv, StatusInv, Loading, Working, DataInv
<1>6. CASE Terminated
  BY <1>1, <1>6 DEF Terminated, vars, input
<1>7. CASE UNCHANGED vars
  BY <1>1, <1>7 DEF vars, input
<1>. QED BY <1>2, <1>3, <1>4, <1>5, <1>6, <1>7, StepKinds

\* So it holds from the first step to the last.
LEMMA DataAlways == Spec => []DataInv
BY InitData, NextData, PTL DEF Spec

\* What is loaded when the cells are built.
LEMMA LoadedRuns ==
    ASSUME DataInv, Built
    PROVE  /\ IsRuns(loaded) /\ Len(loaded) = Len(dir) /\ DOMAIN dir = 1 .. Len(dir)
           /\ GoodDir(dir)
           /\ \A i \in 1 .. Len(dir) : /\ IsFile(dir[i]) /\ loaded[i] = load_csv(dir[i])
                                       /\ \A j \in DOMAIN dir[i].rows : dir[i].rows[j].width >= 6
<1>1. dir # NoDir /\ Len(loaded) = Len(dir) /\ GoodDir(dir) /\ LoadInv
  BY DEF DataInv, Built, InputInv
<1>2. PICK n \in Nat : n = Len(dir) /\ DOMAIN dir = 1 .. n
  BY <1>1 DEF GoodDir
<1>3. \A i \in 1 .. n : /\ IsFile(dir[i]) /\ loaded[i] = load_csv(dir[i]) /\ ~Malformed(dir[i])
                        /\ parse_name(dir[i].stem).condition \in Range(Alphabetical)
  <2>1. \A i \in 1 .. n : dir[i] \in [stem : Seq(STRING), header : SUBSET STRING,
                                       rows : Seq(Row)]
    <3>1. PICK F : F = [stem : Seq(STRING), header : SUBSET STRING, rows : Seq(Row)]
      OBVIOUS
    <3>2. dir \in Seq(F)
      BY <1>1, <3>1 DEF GoodDir
    <3>3. \A i \in 1 .. n : dir[i] \in F
      BY <1>2, <3>2
    <3>. QED BY <3>1, <3>3
  <2>2. \A i \in 1 .. n : parse_name(dir[i].stem).condition \in Range(Alphabetical)
    BY <1>1, <1>2 DEF GoodDir
  <2>3. \A i \in 1 .. n : loaded[i] = load_csv(dir[i]) /\ ~Malformed(dir[i])
    BY <1>1, <1>2 DEF LoadInv
  <2>. QED BY <2>1, <2>2, <2>3 DEF IsFile
<1>4. \A i \in 1 .. n : IsRun(loaded[i]) /\ \A j \in DOMAIN dir[i].rows : dir[i].rows[j].width >= 6
  BY <1>3, LoadedRun
<1>5. DOMAIN loaded = 1 .. n
  BY <1>1, <1>2 DEF LoadInv
<1>6. IsRuns(loaded)
  BY <1>1, <1>2, <1>4, <1>5 DEF IsRuns
<1>. QED BY <1>1, <1>2, <1>3, <1>4, <1>6

\* What the cells are.
LEMMA CellsFacts ==
    ASSUME DataInv
    PROVE  /\ IsFiniteSet(DOMAIN cells) /\ DOMAIN cells \in SUBSET Range(Alphabetical)
           /\ \A c \in DOMAIN cells : IsCell(c, cells[c])
<1>1. CASE cells = <<>>
  <2>1. DOMAIN cells = {}
    BY <1>1
  <2>. QED BY <2>1, FS_EmptySet
<1>2. CASE Built
  <2>1. IsRuns(loaded) /\ cells = discover(loaded)
    BY <1>2, LoadedRuns DEF Built
  <2>2. \A c \in DOMAIN cells : IsCell(c, cells[c])
    BY <2>1, CellsAreCells
  <2>3. DOMAIN cells \in SUBSET Range(Alphabetical)
    BY <2>2 DEF IsCell
  <2>4. PICK n \in Nat : n = Len(loaded) /\ DOMAIN loaded = 1 .. n
    BY <2>1 DEF IsRuns
  <2>5. DOMAIN cells = {loaded[i].condition : i \in 1 .. n}
    BY <2>1, <2>4 DEF discover
  <2>. DEFINE g == [i \in 1 .. n |-> loaded[i].condition]
  <2>6. g \in Surjection(1 .. n, DOMAIN cells)
    <3>1. g \in [1 .. n -> DOMAIN cells]
      BY <2>5
    <3>2. \A c \in DOMAIN cells : \E i \in 1 .. n : g[i] = c
      BY <2>5
    <3>. HIDE DEF g
    <3>. QED BY <3>1, <3>2 DEF Surjection
  <2>. HIDE DEF g
  <2>7. IsFiniteSet(DOMAIN cells)
    BY <2>6, FirstPlaces, FS_Surjection
  <2>. QED BY <2>2, <2>3, <2>7
<1>. QED BY <1>1, <1>2 DEF DataInv, CellsInv

\* Every run is in its cell, once.
LEMMA Pooling == DataInv => EveryRunPooled
<1>. SUFFICES ASSUME DataInv, status = 0, NEW i \in DOMAIN dir
     PROVE  /\ \A r \in Range(dir[i].rows) : r.width >= 6
            /\ Cardinality({ck \in UNION {{c} \X DOMAIN cells[c] : c \in DOMAIN cells} :
                               cells[ck[1]][ck[2]].name = dir[i].stem}) = 1
            /\ \E c \in DOMAIN cells : \E k \in DOMAIN cells[c] :
                  /\ cells[c][k].name = dir[i].stem
                  /\ \/ dir[i].stem = c
                     \/ \E d \in DOMAIN IntOf : dir[i].stem = c \o <<"_run", d>>
                  /\ Len(cells[c][k].send_ns) = Len(dir[i].rows)
                  /\ \A j \in DOMAIN dir[i].rows :
                        LET cell == dir[i].rows[j].send
                            error == cell.val - cells[c][k].send_ns[j]
                        IN  IF cell.digits THEN error = 0 ELSE 2 * error \in -FloatStep .. FloatStep
  BY DEF EveryRunPooled
<1>1. Built
  BY DEF DataInv, CellsInv
<1>2. PICK n \in Nat : n = Len(dir) /\ DOMAIN dir = 1 .. n /\ DOMAIN loaded = 1 .. n
  BY <1>1, LoadedRuns DEF IsRuns
<1>3. /\ IsRuns(loaded) /\ GoodDir(dir) /\ cells = discover(loaded)
      /\ \A l \in 1 .. n : /\ IsFile(dir[l]) /\ loaded[l] = load_csv(dir[l])
                           /\ \A j \in DOMAIN dir[l].rows : dir[l].rows[j].width >= 6
  BY <1>1, <1>2, LoadedRuns DEF Built
<1>4. \A l \in 1 .. n : /\ loaded[l].name = dir[l].stem
                        /\ loaded[l].condition = parse_name(dir[l].stem).condition
  <2>1. ASSUME NEW l \in 1 .. n
        PROVE  /\ loaded[l].name = dir[l].stem
               /\ loaded[l].condition = parse_name(dir[l].stem).condition
    <3>1. PICK D : D = DOMAIN dir[l].rows
      OBVIOUS
    <3>2. Columns(loaded[l], dir[l], D)
      BY <1>3, <3>1, LoadFields
    <3>. QED BY <3>2 DEF Columns
  <2>. QED BY <2>1
<1>5. PICK c : c = loaded[i].condition
  OBVIOUS
<1>6. c \in DOMAIN cells /\ i \in PlacesOf(loaded, c)
  BY <1>2, <1>3, <1>5 DEF discover, PlacesOf
<1>7. ASSUME NEW d \in DOMAIN cells
      PROVE  /\ DOMAIN cells[d] = DOMAIN OrderOf(loaded, d)
             /\ \A k \in DOMAIN cells[d] : /\ cells[d][k] = loaded[OrderOf(loaded, d)[k]]
                                           /\ OrderOf(loaded, d)[k] \in 1 .. n
                                           /\ loaded[OrderOf(loaded, d)[k]].condition = d
             /\ \A k, l \in DOMAIN cells[d] : OrderOf(loaded, d)[k] = OrderOf(loaded, d)[l] => k = l
             /\ \A l \in PlacesOf(loaded, d) : \E k \in DOMAIN cells[d] : OrderOf(loaded, d)[k] = l
  <2>1. PICK f : f = OrderOf(loaded, d)
    OBVIOUS
  <2>2. PICK I : I = PlacesOf(loaded, d)
    OBVIOUS
  <2>3. /\ Lists(f, I, Before(loaded, I))
        /\ cells[d] = [k \in 1 .. Cardinality(I) |-> loaded[f[k]]]
    BY <1>3, <2>1, <2>2, Discovered
  <2>4. /\ DOMAIN f = 1 .. Cardinality(I) /\ \A k \in DOMAIN f : f[k] \in I
        /\ \A l \in I : \E k \in DOMAIN f : f[k] = l
        /\ \A k, l \in DOMAIN f : f[k] = f[l] => k = l
    BY <2>3 DEF Lists
  <2>5. \A l \in I : l \in 1 .. n /\ loaded[l].condition = d
    BY <1>2, <2>2 DEF PlacesOf
  <2>. QED BY <2>1, <2>2, <2>3, <2>4, <2>5
<1>8. PICK k \in DOMAIN cells[c] : OrderOf(loaded, c)[k] = i
  BY <1>6, <1>7
<1>9. cells[c][k] = loaded[i]
  BY <1>6, <1>7, <1>8
<1>10. \A r \in Range(dir[i].rows) : r.width >= 6
  BY <1>2, <1>3 DEF Range
<1>11. Cardinality({ck \in UNION {{d} \X DOMAIN cells[d] : d \in DOMAIN cells} :
                       cells[ck[1]][ck[2]].name = dir[i].stem}) = 1
  <2>. DEFINE T == {ck \in UNION {{d} \X DOMAIN cells[d] : d \in DOMAIN cells} :
                       cells[ck[1]][ck[2]].name = dir[i].stem}
  <2>1. ASSUME NEW d \in DOMAIN cells, NEW l \in DOMAIN cells[d], cells[d][l].name = dir[i].stem
        PROVE  d = c /\ l = k
    <3>1. PICK j \in 1 .. n : /\ j = OrderOf(loaded, d)[l] /\ cells[d][l] = loaded[j]
                              /\ loaded[j].condition = d
      BY <1>7
    <3>2. dir[j].stem = dir[i].stem
      BY <1>4, <2>1, <3>1
    <3>3. j = i
      BY <1>2, <1>3, <3>2 DEF GoodDir
    <3>4. d = c
      BY <1>5, <3>1, <3>3
    <3>5. l \in DOMAIN cells[c] /\ OrderOf(loaded, c)[l] = OrderOf(loaded, c)[k]
      BY <1>8, <3>1, <3>3, <3>4
    <3>6. l = k
      BY <1>6, <1>7, <1>8, <3>5
    <3>. QED BY <3>4, <3>6
  <2>2. <<c, k>> \in T
    <3>1. cells[c][k].name = dir[i].stem
      BY <1>2, <1>4, <1>9
    <3>2. <<c, k>> \in UNION {{d} \X DOMAIN cells[d] : d \in DOMAIN cells}
      BY <1>6, <1>8
    <3>. QED BY <3>1, <3>2
  <2>3. ASSUME NEW ck \in T PROVE ck = <<c, k>>
    <3>1. PICK d \in DOMAIN cells : ck \in {d} \X DOMAIN cells[d]
      OBVIOUS
    <3>2. PICK l \in DOMAIN cells[d] : ck = <<d, l>>
      BY <3>1
    <3>3. cells[d][l].name = dir[i].stem
      BY <3>2
    <3>. QED BY <2>1, <3>2, <3>3
  <2>. HIDE DEF T
  <2>4. T = {<<c, k>>}
    BY <2>2, <2>3
  <2>5. Cardinality(T) = 1
    BY <2>4, FS_Singleton
  <2>. QED BY <2>5 DEF T
<1>12. \/ dir[i].stem = c
       \/ \E d \in DOMAIN IntOf : dir[i].stem = c \o <<"_run", d>>
  <2>1. dir[i].stem \in Seq(STRING)
    BY <1>2, <1>3 DEF IsFile
  <2>2. c = parse_name(dir[i].stem).condition
    BY <1>2, <1>4, <1>5
  <2>. QED BY <2>1, <2>2, ParseName
<1>13. PICK rows : rows = dir[i].rows
  OBVIOUS
<1>14. rows \in Seq(Row)
  BY <1>2, <1>3, <1>13 DEF IsFile
<1>15. PICK m \in Nat : m = Len(rows) /\ DOMAIN rows = 1 .. m
  BY <1>14
<1>16. loaded[i].send_ns = [j \in 1 .. m |-> _to_int(rows[j].send)]
  <2>1. Columns(loaded[i], dir[i], 1 .. m)
    BY <1>2, <1>3, <1>13, <1>15, LoadFields
  <2>. QED BY <1>13, <2>1 DEF Columns
<1>17. Len(loaded[i].send_ns) = m
  BY <1>16
<1>18. ASSUME NEW j \in 1 .. m
       PROVE  LET cell == rows[j].send
                  error == cell.val - loaded[i].send_ns[j]
              IN  IF cell.digits THEN error = 0 ELSE 2 * error \in -FloatStep .. FloatStep
  <2>1. rows[j].send \in [val : Int, digits : BOOLEAN]
    <3>1. rows[j] \in Row
      BY <1>14, <1>15
    <3>. QED BY <3>1 DEF Row
  <2>2. loaded[i].send_ns[j] = _to_int(rows[j].send)
    BY <1>16
  <2>. QED BY <2>1, <2>2, StampError
<1>19. /\ cells[c][k].name = dir[i].stem
       /\ Len(cells[c][k].send_ns) = Len(dir[i].rows)
       /\ \A j \in DOMAIN dir[i].rows :
             LET cell == dir[i].rows[j].send
                 error == cell.val - cells[c][k].send_ns[j]
             IN  IF cell.digits THEN error = 0 ELSE 2 * error \in -FloatStep .. FloatStep
  <2>1. cells[c][k].name = dir[i].stem
    BY <1>2, <1>4, <1>9
  <2>2. Len(cells[c][k].send_ns) = Len(dir[i].rows)
    BY <1>9, <1>13, <1>15, <1>17
  <2>. QED BY <1>9, <1>13, <1>15, <1>18, <2>1, <2>2
<1>. QED BY <1>6, <1>10, <1>11, <1>12, <1>19

\* Runs and conditions are in the order that the code promises.
LEMMA Ordering == DataInv => OrderFixed
<1>. SUFFICES ASSUME DataInv PROVE OrderFixed
  OBVIOUS
<1>1. ASSUME NEW c \in DOMAIN cells, NEW k \in DOMAIN cells[c], NEW l \in DOMAIN cells[c], k < l
      PROVE  SortKey(cells[c][k]) <= SortKey(cells[c][l])
  <2>1. Built
    BY DEF DataInv, CellsInv
  <2>2. IsRuns(loaded) /\ cells = discover(loaded)
    BY <2>1, LoadedRuns DEF Built
  <2>3. PICK f : f = OrderOf(loaded, c)
    OBVIOUS
  <2>4. PICK I : I = PlacesOf(loaded, c)
    OBVIOUS
  <2>5. /\ Lists(f, I, Before(loaded, I))
        /\ cells[c] = [j \in 1 .. Cardinality(I) |-> loaded[f[j]]]
    BY <2>2, <2>3, <2>4, Discovered
  <2>6. /\ k \in DOMAIN f /\ l \in DOMAIN f /\ <<f[k], f[l]>> \in Before(loaded, I)
        /\ cells[c][k] = loaded[f[k]] /\ cells[c][l] = loaded[f[l]]
    BY <1>1, <2>5 DEF Lists
  <2>7. IsRun(cells[c][k]) /\ IsRun(cells[c][l])
    BY CellsFacts DEF IsCell
  <2>8. SortKey(cells[c][k]) \in Int /\ SortKey(cells[c][l]) \in Int
    <3>1. ASSUME NEW r, IsRun(r) PROVE SortKey(r) \in Int
      <4>1. r.run_index \in Nat \cup {None}
        BY <3>1 DEF IsRun
      <4>. QED BY <4>1 DEF SortKey
    <3>. QED BY <2>7, <3>1
  <2>9. \/ SortKey(loaded[f[k]]) < SortKey(loaded[f[l]])
        \/ SortKey(loaded[f[k]]) = SortKey(loaded[f[l]]) /\ f[k] < f[l]
    BY <2>6 DEF Before
  <2>. QED BY <2>6, <2>8, <2>9
<1>2. PICK S : S = DOMAIN cells
  OBVIOUS
<1>3. IsFiniteSet(S) /\ S \in SUBSET Range(Alphabetical) /\ names = Names(S)
  BY <1>2, CellsFacts DEF names
<1>4. \A c, d \in S : _order(c) < _order(d) => Position(names, c) < Position(names, d)
  BY <1>3, NamesPlace
<1>5. ASSUME NEW k \in DOMAIN CONDITION_ORDER, NEW l \in DOMAIN CONDITION_ORDER, k < l,
             {CONDITION_ORDER[k], CONDITION_ORDER[l]} \subseteq S
      PROVE  Position(names, CONDITION_ORDER[k]) < Position(names, CONDITION_ORDER[l])
  BY <1>4, <1>5, KnownOrder
<1>6. ASSUME NEW k \in DOMAIN CONDITION_ORDER, NEW c \in S, CONDITION_ORDER[k] \in S,
             c \notin Range(CONDITION_ORDER)
      PROVE  Position(names, CONDITION_ORDER[k]) < Position(names, c)
  <2>1. _order(CONDITION_ORDER[k]) = k /\ k \in 1 .. 5
    BY KnownOrder
  <2>2. _order(c) > 5 /\ _order(c) \in Nat
    BY <1>3, <1>6, OrderNumber
  <2>3. _order(CONDITION_ORDER[k]) < _order(c)
    BY <2>1, <2>2
  <2>. QED BY <1>4, <1>6, <2>3
<1>. QED BY <1>1, <1>2, <1>5, <1>6 DEF OrderFixed

\* Pooled jitter is that of the single runs.
LEMMA Jitters == DataInv => JitterWithinRuns
<1>. SUFFICES ASSUME DataInv, NEW c \in DOMAIN cells
     PROVE  /\ Len(jitter_us(cells[c])) = Len(latency_ms(cells[c])) - Len(cells[c])
            /\ \A v \in Range(jitter_us(cells[c])) :
                  Histogram(jitter_us(cells[c]), DOMAIN jitter_us(cells[c]))[v] =
                      Cardinality(UNION {{k} \X {i \in 2 .. Len(cells[c][k].jitter_us) :
                          cells[c][k].jitter_us[i] \in {v, -v}} : k \in DOMAIN cells[c]})
  BY DEF JitterWithinRuns
<1>1. PICK rs : rs = cells[c]
  OBVIOUS
<1>2. IsCell(c, rs)
  BY <1>1, CellsFacts
<1>3. Len(jitter_us(rs)) = Len(latency_ms(rs)) - Len(rs)
  BY <1>2, PooledLengths
<1>4. \A v \in Range(jitter_us(rs)) :
          Histogram(jitter_us(rs), DOMAIN jitter_us(rs))[v] =
              Cardinality(UNION {{k} \X {i \in 2 .. Len(rs[k].jitter_us) :
                                           rs[k].jitter_us[i] \in {v, -v}} : k \in DOMAIN rs})
  BY <1>2, JitterCounts
<1>. QED BY <1>1, <1>3, <1>4

\* From the directory to the samples: for every directory of results, after a
\* success every CSV is in the cell of its condition, once, with all its rows
\* and stamps; runs and conditions are in their order; and the pooled jitter is
\* exactly that of the rows of each run but the first (discover(),
\* build_dataset(), Cell).
THEOREM SamplesFaithfulSafe == Spec => []SamplesFaithful
<1>1. DataInv => SamplesFaithful
  BY Pooling, Ordering, Jitters DEF SamplesFaithful
<1>. QED BY <1>1, DataAlways, PTL

-----------------------------------------------------------------------------
(* Loss *)

\* m is the largest of the first i numbers.
IsMax(q, i, m) == (\A j \in 1 .. i : q[j] <= m) /\ (\E j \in 1 .. i : q[j] = m)

\* The running maximum, step by step.
Runs(g, q, n) ==
    /\ g[1] = q[1]
    /\ \A i \in 2 .. n : g[i] = IF q[i] > g[i - 1] THEN q[i] ELSE g[i - 1]

\* The running maximum is its steps, one after the other.
LEMMA RunningSteps ==
    ASSUME NEW q \in Seq(Nat), NEW n \in Nat \ {0}, n = Len(q)
    PROVE  Runs(running_max(q), q, n)
<1>. DEFINE F == [u \in Nat \X (1 .. n) |-> IF u[2] = 1 \/ q[u[2]] > u[1] THEN q[u[2]] ELSE u[1]]
            Rec(g) == g = [i \in 1 .. n |-> IF i = 1 \/ q[i] > g[i - 1] THEN q[i] ELSE g[i - 1]]
<1>0. \A i \in 1 .. n : q[i] \in Nat
  OBVIOUS
<1>1. F \in Rules(Nat, n)
  BY <1>0 DEF Rules
<1>2. \A w \in Nat, i \in 1 .. n : F[<<w, i>>] = IF i = 1 \/ q[i] > w THEN q[i] ELSE w
  OBVIOUS
<1>. HIDE DEF F
<1>3. PICK f : Follows(f, Nat, 0, n, F)
  BY <1>1, RecursiveFunction
<1>. DEFINE h == [i \in 1 .. n |-> f[i]]
<1>4. ASSUME NEW i \in 1 .. n
      PROVE  h[i] = IF i = 1 \/ q[i] > h[i - 1] THEN q[i] ELSE h[i - 1]
  <2>1. i - 1 \in 0 .. n /\ f[i - 1] \in Nat
    BY <1>3 DEF Follows
  <2>2. f[i] = IF i = 1 \/ q[i] > f[i - 1] THEN q[i] ELSE f[i - 1]
    BY <1>2, <1>3, <2>1, ZenonT(60) DEF Follows
  <2>3. i # 1 => i - 1 \in 1 .. n
    OBVIOUS
  <2>. QED BY <2>2, <2>3
<1>5. Rec(h)
  <2>1. h = [i \in 1 .. n |-> h[i]]
    OBVIOUS
  <2>. HIDE DEF h
  <2>. QED BY <1>4, <2>1
<1>. HIDE DEF h
<1>6. PICK g : g = CHOOSE t : Rec(t)
  OBVIOUS
<1>7. Rec(g)
  BY <1>5, <1>6
<1>8. running_max(q) = g
  BY <1>6 DEF running_max
<1>9. \A i \in 1 .. n : g[i] = IF i = 1 \/ q[i] > g[i - 1] THEN q[i] ELSE g[i - 1]
  BY <1>7
<1>10. 1 \in 1 .. n /\ \A i \in 2 .. n : i \in 1 .. n /\ i # 1
  OBVIOUS
<1>11. Runs(g, q, n)
  BY <1>9, <1>10 DEF Runs
<1>. QED BY <1>8, <1>11

\* It ends at the largest number.
LEMMA RunningMax ==
    ASSUME NEW q \in Seq(Nat), q # <<>>
    PROVE  running_max(q)[Len(q)] \in Nat /\ IsMax(q, Len(q), running_max(q)[Len(q)])
<1>1. PICK n \in Nat \ {0} : n = Len(q)
  BY NotEmpty
<1>2. PICK g : g = running_max(q)
  OBVIOUS
<1>3. Runs(g, q, n)
  BY <1>1, <1>2, RunningSteps
<1>4. \A i \in 1 .. n : q[i] \in Nat
  BY <1>1
<1>. DEFINE S == {k \in Nat : k + 1 <= n => g[k + 1] \in Nat /\ IsMax(q, k + 1, g[k + 1])}
<1>5. 0 \in S
  <2>1. g[1] = q[1] /\ q[1] \in Nat
    BY <1>3, <1>4 DEF Runs
  <2>2. IsMax(q, 1, g[1])
    BY <2>1 DEF IsMax
  <2>. QED BY <2>1, <2>2
<1>6. ASSUME NEW k \in Nat, k \in S PROVE k + 1 \in S
  <2>. SUFFICES ASSUME (k + 1) + 1 <= n
                PROVE  g[(k + 1) + 1] \in Nat /\ IsMax(q, (k + 1) + 1, g[(k + 1) + 1])
    OBVIOUS
  <2>1. PICK m \in Nat : m = k + 1 /\ m + 1 \in 2 .. n /\ m + 1 \in 1 .. n /\ (m + 1) - 1 = m
    <3>1. k + 1 \in Nat /\ (k + 1) + 1 \in 2 .. n /\ (k + 1) + 1 \in 1 .. n
          /\ ((k + 1) + 1) - 1 = k + 1
      OBVIOUS
    <3>. QED BY <3>1
  <2>2. g[m] \in Nat /\ IsMax(q, m, g[m])
    BY <1>6, <2>1
  <2>3. PICK a \in Nat : a = g[m]
    BY <2>2
  <2>4. PICK e \in Nat : e = q[m + 1]
    BY <1>4, <2>1
  <2>5. g[m + 1] = IF e > a THEN e ELSE a
    BY <1>3, <2>1, <2>3, <2>4 DEF Runs
  <2>6. PICK w \in Nat : w = g[m + 1] /\ w >= a /\ w >= e /\ (w = a \/ w = e)
    BY <2>5
  <2>7. (\A j \in 1 .. m : q[j] <= a) /\ (\E j \in 1 .. m : q[j] = a)
    BY <2>2, <2>3 DEF IsMax
  <2>8. \A j \in 1 .. (m + 1) : j \in 1 .. m \/ j = m + 1
    OBVIOUS
  <2>9. \A j \in 1 .. m : q[j] \in Nat /\ j \in 1 .. (m + 1)
    BY <1>4, <2>1
  <2>10. ASSUME NEW j \in 1 .. (m + 1) PROVE q[j] <= w
    <3>1. CASE j \in 1 .. m
      <4>1. q[j] \in Nat /\ q[j] <= a
        BY <2>7, <2>9, <3>1
      <4>. QED BY <2>6, <4>1
    <3>2. CASE j = m + 1
      BY <2>4, <2>6, <3>2
    <3>. QED BY <2>8, <3>1, <3>2
  <2>11. \E j \in 1 .. (m + 1) : q[j] = w
    <3>1. CASE w = a
      BY <2>7, <2>9, <3>1
    <3>2. CASE w = e
      BY <2>4, <3>2
    <3>. QED BY <2>6, <3>1, <3>2
  <2>12. IsMax(q, m + 1, w)
    BY <2>10, <2>11 DEF IsMax
  <2>. QED BY <2>1, <2>6, <2>12
<1>. HIDE DEF S
<1>7. \A k \in Nat : k \in S
  BY <1>5, <1>6, SetInduction
<1>8. PICK k \in Nat : n = k + 1
  <2>1. n - 1 \in Nat /\ n = (n - 1) + 1
    OBVIOUS
  <2>. QED BY <2>1
<1>9. g[n] \in Nat /\ IsMax(q, n, g[n])
  BY <1>7, <1>8 DEF S
<1>. QED BY <1>1, <1>2, <1>9

\* The loss of one run: the numbers below its highest that it does not have.
LEMMA LossOfRun ==
    ASSUME NEW q \in Seq(Nat), q # <<>>
    PROVE  LET M == 0 .. Max(Range(q)) \ Range(q)
               l == loss_summary(q)
           IN  /\ IsFiniteSet(M) /\ l.lost = Cardinality(M) /\ l.lost \in Nat
               /\ l.expected \in Nat \ {0} /\ l.lost <= l.expected
               /\ l.duplicates \in Int
               /\ Len(q) - l.duplicates + l.lost = l.expected
<1>1. PICK n \in Nat \ {0} : n = Len(q) /\ DOMAIN q = 1 .. n
  BY NotEmpty
<1>2. PICK m \in Nat : m = running_max(q)[n] /\ IsMax(q, n, m)
  BY <1>1, RunningMax
<1>3. PICK U : U = Range(q)
  OBVIOUS
<1>4. U = {q[i] : i \in 1 .. n} /\ \A i \in 1 .. n : q[i] \in Nat
  BY <1>1, <1>3 DEF Range
<1>5. m \in U /\ \A v \in U : v \in Nat /\ v <= m
  BY <1>2, <1>4 DEF IsMax
<1>6. Max(U) = m
  <2>1. \E v \in U : \A w \in U : v >= w
    BY <1>5
  <2>2. Max(U) \in U /\ \A w \in U : Max(U) >= w
    BY <2>1 DEF Max
  <2>3. PICK e \in Nat : e = Max(U)
    BY <1>5, <2>2
  <2>4. e <= m /\ e >= m
    BY <1>5, <2>2, <2>3
  <2>. QED BY <2>3, <2>4
<1>7. U \in SUBSET (0 .. m)
  BY <1>5
<1>8. IsFiniteSet(0 .. m) /\ Cardinality(0 .. m) = m + 1
  <2>1. /\ IsFiniteSet(0 .. m)
        /\ Cardinality(0 .. m) = IF 0 > m THEN 0 ELSE m - 0 + 1
    BY FS_Interval
  <2>. QED BY <2>1
<1>9. PICK u : u = Cardinality(U)
  OBVIOUS
<1>10. IsFiniteSet(U) /\ u \in Nat /\ u <= m + 1
  BY <1>7, <1>8, <1>9, FS_Subset, FS_CardinalityType
<1>11. PICK M : M = (0 .. m) \ U
  OBVIOUS
<1>12. IsFiniteSet(M) /\ Cardinality(M) = (m + 1) - u
  <2>1. (0 .. m) \cap U = U
    BY <1>7
  <2>2. /\ IsFiniteSet((0 .. m) \ U)
        /\ Cardinality((0 .. m) \ U) = Cardinality(0 .. m) - Cardinality((0 .. m) \cap U)
    BY <1>8, FS_Difference
  <2>. QED BY <1>8, <1>9, <1>11, <2>1, <2>2
<1>13. Unique(q) = u
  BY <1>1, <1>4, <1>9 DEF Unique
<1>14. /\ loss_summary(q).expected = m + 1 /\ loss_summary(q).lost = (m + 1) - u
       /\ loss_summary(q).duplicates = n - u
  BY <1>1, <1>2, <1>13 DEF loss_summary
<1>15. /\ (m + 1) - u \in Nat /\ m + 1 \in Nat \ {0} /\ (m + 1) - u <= m + 1 /\ n - u \in Int
       /\ n - (n - u) + ((m + 1) - u) = m + 1
  BY <1>10
<1>. QED BY <1>1, <1>3, <1>6, <1>11, <1>12, <1>14, <1>15

\* A sum of numbers that are at least lo.
LEMMA TotalAtLeast ==
    ASSUME NEW f \in Seq(Int), f # <<>>, NEW lo \in Int, \A k \in 1 .. Len(f) : lo <= f[k]
    PROVE  Total(f) \in Int /\ Len(f) * lo <= Total(f)
<1>1. PICK hi \in Int : \A i \in DOMAIN f : f[i] <= hi
  BY MinMax
<1>2. \A k \in 1 .. Len(f) : lo <= f[k] /\ f[k] <= hi
  BY <1>1, NotEmpty
<1>. QED BY <1>2, TotalBetween

\* The loss fields of the runs of a cell.
Expecteds(rs) == [k \in DOMAIN rs |-> loss_summary(rs[k].seq).expected]
Losts(rs) == [k \in DOMAIN rs |-> loss_summary(rs[k].seq).lost]
Duplicates(rs) == [k \in DOMAIN rs |-> loss_summary(rs[k].seq).duplicates]

\* _aggregate_loss() adds them up.
LEMMA LossFields ==
    ASSUME NEW rs
    PROVE  LET l == _aggregate_loss(rs)
           IN  /\ l.expected = Total(Expecteds(rs)) /\ l.lost = Total(Losts(rs))
               /\ l.duplicates = Total(Duplicates(rs)) /\ l.received = Total(RowCounts(rs))
               /\ l.loss_pct = IF Total(Expecteds(rs)) = 0 THEN NaN
                               ELSE (100 * Total(Losts(rs))) \div Total(Expecteds(rs))
BY DEF _aggregate_loss, Expecteds, Losts, Duplicates, RowCounts

\* The loss of a condition is that of its runs.
LEMMA CellLoss ==
    ASSUME NEW c, NEW rs, IsCell(c, rs)
    PROVE  LET l == _aggregate_loss(rs)
               missing == UNION {{k} \X (0 .. Max(Range(rs[k].seq)) \ Range(rs[k].seq)) :
                                    k \in DOMAIN rs}
           IN  /\ l.lost = Cardinality(missing) /\ l.received = Len(latency_ms(rs))
               /\ l.received - l.duplicates + l.lost = l.expected
               /\ l.loss_pct \in 0 .. 100
<1>1. PICK n \in Nat \ {0} : n = Len(rs) /\ DOMAIN rs = 1 .. n
  BY DEF IsCell
<1>2. PICK fe : fe = Expecteds(rs)
  OBVIOUS
<1>3. PICK fl : fl = Losts(rs)
  OBVIOUS
<1>4. PICK fd : fd = Duplicates(rs)
  OBVIOUS
<1>5. PICK fr : fr = RowCounts(rs)
  OBVIOUS
<1>. DEFINE A == [k \in 1 .. n |-> (0 .. Max(Range(rs[k].seq))) \ Range(rs[k].seq)]
<1>6. ASSUME NEW k \in 1 .. n
      PROVE  /\ IsFiniteSet(A[k]) /\ fl[k] = Cardinality(A[k]) /\ fl[k] \in Nat
             /\ fe[k] \in Nat \ {0} /\ fl[k] <= fe[k] /\ fd[k] \in Int /\ fr[k] \in Int
             /\ fr[k] - fd[k] + fl[k] = fe[k]
  <2>1. PICK q : q = rs[k].seq
    OBVIOUS
  <2>2. q \in Seq(Nat) /\ q # <<>>
    BY <1>1, <2>1 DEF IsCell, IsRun
  <2>3. PICK M : M = (0 .. Max(Range(q))) \ Range(q)
    OBVIOUS
  <2>4. PICK l : l = loss_summary(q)
    OBVIOUS
  <2>5. /\ IsFiniteSet(M) /\ l.lost = Cardinality(M) /\ l.lost \in Nat
        /\ l.expected \in Nat \ {0} /\ l.lost <= l.expected
        /\ l.duplicates \in Int
        /\ Len(q) - l.duplicates + l.lost = l.expected
    BY <2>2, <2>3, <2>4, LossOfRun
  <2>6. A[k] = M /\ fe[k] = l.expected /\ fl[k] = l.lost /\ fd[k] = l.duplicates /\ fr[k] = Len(q)
    BY <1>1, <1>2, <1>3, <1>4, <1>5, <2>1, <2>3, <2>4
       DEF Expecteds, Losts, Duplicates, RowCounts
  <2>7. Len(q) \in Int
    BY <2>2
  <2>. QED BY <2>5, <2>6, <2>7
<1>7. Tagged(A, n) = UNION {{k} \X (0 .. Max(Range(rs[k].seq)) \ Range(rs[k].seq)) :
                               k \in DOMAIN rs}
  BY <1>1 DEF Tagged
<1>. HIDE DEF A
<1>8. /\ fe \in [1 .. n -> Int] /\ fl \in [1 .. n -> Int]
      /\ fd \in [1 .. n -> Int] /\ fr \in [1 .. n -> Int]
  BY <1>1, <1>2, <1>3, <1>4, <1>5, <1>6 DEF Expecteds, Losts, Duplicates, RowCounts
<1>9. /\ fe \in Seq(Int) /\ fl \in Seq(Int) /\ fd \in Seq(Int) /\ fr \in Seq(Int)
      /\ Len(fe) = n /\ Len(fl) = n /\ Len(fd) = n /\ Len(fr) = n
  BY <1>8, Listed
<1>10. Total(fl) = Cardinality(Tagged(A, n)) /\ Total(fl) \in Nat
  <2>1. Sizes(fl, A)
    BY <1>6, <1>9 DEF Sizes
  <2>. QED BY <1>9, <2>1, SumUnion
<1>. DEFINE g == [k \in 1 .. n |-> fd[k] + fe[k]]
            h == [k \in 1 .. n |-> fe[k] - fl[k]]
<1>11. g \in [1 .. n -> Int] /\ h \in [1 .. n -> Int]
  <2>1. \A k \in 1 .. n : fd[k] + fe[k] \in Int /\ fe[k] - fl[k] \in Int
    BY <1>8, SMTT(30)
  <2>. QED BY <2>1
<1>12. \A k \in 1 .. n : /\ g[k] = fd[k] + fe[k] /\ h[k] = fe[k] - fl[k]
                         /\ g[k] = fr[k] + fl[k] /\ fe[k] = fl[k] + h[k] /\ h[k] >= 0
  <2>1. ASSUME NEW k \in 1 .. n
        PROVE  /\ g[k] = fd[k] + fe[k] /\ h[k] = fe[k] - fl[k]
               /\ g[k] = fr[k] + fl[k] /\ fe[k] = fl[k] + h[k] /\ h[k] >= 0
    <3>1. PICK e \in Int, l \in Int, d \in Int, r \in Int :
              e = fe[k] /\ l = fl[k] /\ d = fd[k] /\ r = fr[k]
      BY <1>6
    <3>2. r - d + l = e /\ l <= e
      BY <1>6, <3>1
    <3>3. d + e = r + l /\ e = l + (e - l) /\ e - l >= 0
      BY <3>2
    <3>. QED BY <3>1, <3>3
  <2>. QED BY <2>1
<1>. HIDE DEF g, h
<1>13. g \in Seq(Int) /\ Len(g) = n /\ h \in Seq(Int) /\ Len(h) = n
  BY <1>11, Listed
<1>14. AddsUp(fd, fe, g) /\ AddsUp(fr, fl, g) /\ AddsUp(fl, h, fe)
  BY <1>9, <1>12, <1>13 DEF AddsUp
<1>15. Total(g) = Total(fd) + Total(fe) /\ Total(fd) \in Int /\ Total(fe) \in Int
  BY <1>14, TotalAdds
<1>16. Total(g) = Total(fr) + Total(fl) /\ Total(fr) \in Int
  BY <1>14, TotalAdds
<1>17. Total(fe) = Total(fl) + Total(h) /\ Total(h) \in Int
  BY <1>14, TotalAdds
<1>18. Total(h) >= 0
  <2>1. h # <<>> /\ \A k \in 1 .. Len(h) : 0 <= h[k]
    <3>1. h # <<>>
      BY <1>13
    <3>2. \A k \in 1 .. n : h[k] \in Int
      BY <1>11
    <3>. QED BY <1>12, <1>13, <3>1, <3>2
  <2>2. Len(h) * 0 <= Total(h)
    BY <1>13, <2>1, TotalAtLeast
  <2>. QED BY <1>13, <1>17, <2>2
<1>19. Total(fe) >= 1
  <2>1. fe # <<>> /\ \A k \in 1 .. Len(fe) : 1 <= fe[k]
    <3>1. fe # <<>>
      BY <1>9
    <3>2. \A k \in 1 .. n : 1 <= fe[k]
      BY <1>6
    <3>. QED BY <1>9, <3>1, <3>2
  <2>2. Len(fe) * 1 <= Total(fe)
    BY <1>9, <2>1, TotalAtLeast
  <2>. QED BY <1>9, <1>15, <2>2
<1>20. PICK E \in Nat \ {0}, L \in Nat, D \in Int, W \in Int :
           E = Total(fe) /\ L = Total(fl) /\ D = Total(fd) /\ W = Total(fr)
  BY <1>10, <1>15, <1>16, <1>19
<1>21. W + L = D + E /\ L <= E
  BY <1>15, <1>16, <1>17, <1>18, <1>20
<1>22. W - D + L = E
  BY <1>21
<1>23. (100 * L) \div E \in 0 .. 100
  <2>1. E * 0 <= 100 * L /\ 100 * L <= E * 100 /\ 100 * L \in Int
    BY <1>21
  <2>2. PICK t \in Int : t = 100 * L
    BY <2>1
  <2>3. t \div E \in Int /\ 0 <= t \div E /\ t \div E <= 100
    BY <2>1, <2>2, Quotient
  <2>. QED BY <2>2, <2>3
<1>24. W = Len(latency_ms(rs))
  BY <1>5, <1>20, PooledLengths
<1>25. PICK l : l = _aggregate_loss(rs)
  OBVIOUS
<1>26. l.expected = E /\ l.lost = L /\ l.duplicates = D /\ l.received = W
  BY <1>2, <1>3, <1>4, <1>5, <1>20, <1>25, LossFields
<1>27. l.loss_pct = (100 * L) \div E
  BY <1>2, <1>3, <1>20, <1>25, LossFields
<1>. QED BY <1>7, <1>10, <1>20, <1>22, <1>23, <1>24, <1>25, <1>26, <1>27

-----------------------------------------------------------------------------
(* DSCP *)

\* A set of numbers has a least one.
LEMMA LeastOf ==
    ASSUME NEW T \in SUBSET Nat, T # {}
    PROVE  Min(T) \in T /\ \A k \in T : Min(T) <= k
<1>1. \E m \in T : \A k \in T : m <= k
  <2>. SUFFICES ASSUME \A m \in T : \E k \in T : ~(m <= k) PROVE FALSE
    OBVIOUS
  <2>. DEFINE S == {n \in Nat : \A k \in 0 .. n : k \notin T}
  <2>1. 0 \in S
    <3>1. \A k \in 0 .. 0 : k = 0
      OBVIOUS
    <3>2. 0 \notin T
      <4>1. \A k \in T : 0 <= k
        OBVIOUS
      <4>. QED BY <4>1
    <3>. QED BY <3>1, <3>2
  <2>2. ASSUME NEW n \in Nat, n \in S PROVE n + 1 \in S
    <3>1. \A k \in 0 .. (n + 1) : k \in 0 .. n \/ k = n + 1
      OBVIOUS
    <3>2. \A k \in T : k \in Nat /\ k \notin 0 .. n
      BY <2>2
    <3>3. \A k \in T : n + 1 <= k
      BY <3>2
    <3>4. n + 1 \notin T
      BY <3>3
    <3>. QED BY <2>2, <3>1, <3>4
  <2>. HIDE DEF S
  <2>3. \A n \in Nat : n \in S
    BY <2>1, <2>2, SetInduction
  <2>4. PICK n \in T : TRUE
    OBVIOUS
  <2>. QED BY <2>3, <2>4 DEF S
<1>. QED BY <1>1 DEF Min

\* The rows of t whose DSCP is v, and those without.
Under6(t, v) == {i \in DOMAIN t : t[i] \in (4 * v) .. (4 * v + 3)}
NoByte(t) == {i \in DOMAIN t : t[i] \in {-1}}

\* What dscp_distribution() counts in one run.
LEMMA DscpOfRun ==
    ASSUME NEW t \in Seq(-1 .. 255)
    PROVE  LET d == dscp_distribution(t)
           IN  /\ DOMAIN d.dscp = {v \in 0 .. 63 : Under6(t, v) # {}}
               /\ \A v \in DOMAIN d.dscp : d.dscp[v] = Cardinality(Under6(t, v))
               /\ d.missing = Cardinality(NoByte(t))
               /\ IsFiniteSet(NoByte(t)) /\ \A v : IsFiniteSet(Under6(t, v))
<1>0. PICK n \in Nat : n = Len(t) /\ DOMAIN t = 1 .. n /\ \A i \in 1 .. n : t[i] \in -1 .. 255
  <2>1. PICK V : V = -1 .. 255
    OBVIOUS
  <2>2. t \in Seq(V)
    BY <2>1
  <2>3. Len(t) \in Nat /\ DOMAIN t = 1 .. Len(t) /\ \A i \in 1 .. Len(t) : t[i] \in V
    BY <2>2
  <2>. QED BY <2>1, <2>3
<1>1. \A U \in SUBSET (1 .. n) : IsFiniteSet(U)
  BY FirstPlaces, FS_Subset
<1>2. IsFiniteSet(NoByte(t)) /\ \A v : IsFiniteSet(Under6(t, v))
  BY <1>0, <1>1 DEF NoByte, Under6
<1>. DEFINE valid == {i \in DOMAIN t : t[i] >= 0}
            y == [i \in DOMAIN t |-> t[i] \div 4]
<1>3. ASSUME NEW i \in valid PROVE y[i] \in 0 .. 63
  <2>1. PICK u \in -1 .. 255 : u = t[i]
    BY <1>0
  <2>2. u >= 0
    BY <2>1
  <2>3. u \div 4 \in 0 .. 63
    BY <2>2
  <2>. QED BY <2>1, <2>3
<1>4. \A i \in 1 .. n, v \in 0 .. 63 :
          i \in valid /\ y[i] = v <=> t[i] \in (4 * v) .. (4 * v + 3)
  <2>1. ASSUME NEW i \in 1 .. n, NEW v \in 0 .. 63
        PROVE  i \in valid /\ y[i] = v <=> t[i] \in (4 * v) .. (4 * v + 3)
    <3>1. PICK u \in -1 .. 255 : u = t[i]
      BY <1>0
    <3>2. u >= 0 /\ u \div 4 = v <=> u \in (4 * v) .. (4 * v + 3)
      OBVIOUS
    <3>. QED BY <1>0, <3>1, <3>2
  <2>. QED BY <2>1
<1>5. dscp_distribution(t).dscp = Histogram(y, valid)
  BY DEF dscp_distribution
<1>6. dscp_distribution(t).missing = n - Cardinality(valid)
  BY <1>0 DEF dscp_distribution
<1>7. valid \in SUBSET (1 .. n) /\ NoByte(t) = (1 .. n) \ valid
  <2>1. ASSUME NEW i \in 1 .. n PROVE t[i] \in {-1} <=> ~(t[i] >= 0)
    <3>1. PICK u \in -1 .. 255 : u = t[i]
      BY <1>0
    <3>2. u \in {-1} <=> ~(u >= 0)
      OBVIOUS
    <3>. QED BY <3>1, <3>2
  <2>. QED BY <1>0, <2>1 DEF NoByte
<1>. HIDE DEF valid, y
<1>8. DOMAIN Histogram(y, valid) = {v \in 0 .. 63 : Under6(t, v) # {}}
  <2>1. DOMAIN Histogram(y, valid) = {y[i] : i \in valid}
    BY DEF Histogram
  <2>2. ASSUME NEW i \in valid PROVE y[i] \in 0 .. 63 /\ Under6(t, y[i]) # {}
    <3>1. PICK v \in 0 .. 63 : v = y[i]
      BY <1>3
    <3>2. i \in Under6(t, v)
      BY <1>0, <1>4, <1>7, <3>1, ZenonT(60) DEF Under6
    <3>. QED BY <3>1, <3>2
  <2>3. ASSUME NEW v \in 0 .. 63, Under6(t, v) # {} PROVE \E i \in valid : y[i] = v
    <3>1. PICK i : i \in Under6(t, v)
      BY <2>3
    <3>2. i \in 1 .. n /\ t[i] \in (4 * v) .. (4 * v + 3)
      BY <1>0, <3>1 DEF Under6
    <3>. QED BY <1>4, <3>2
  <2>. QED BY <2>1, <2>2, <2>3
<1>9. ASSUME NEW v \in DOMAIN Histogram(y, valid)
      PROVE  Histogram(y, valid)[v] = Cardinality(Under6(t, v))
  <2>1. v \in 0 .. 63
    BY <1>8
  <2>2. Histogram(y, valid)[v] = Cardinality({i \in valid : y[i] = v})
    BY DEF Histogram
  <2>3. {i \in valid : y[i] = v} = Under6(t, v)
    BY <1>0, <1>4, <1>7, <2>1, ZenonT(60) DEF Under6
  <2>. QED BY <2>2, <2>3
<1>10. n - Cardinality(valid) = Cardinality(NoByte(t))
  <2>1. IsFiniteSet(1 .. n) /\ Cardinality(1 .. n) = n
    BY FirstPlaces
  <2>2. (1 .. n) \cap valid = valid
    BY <1>7
  <2>3. Cardinality((1 .. n) \ valid) = Cardinality(1 .. n) - Cardinality((1 .. n) \cap valid)
    BY <2>1, FS_Difference
  <2>. QED BY <1>7, <2>1, <2>2, <2>3
<1>. QED BY <1>2, <1>5, <1>6, <1>8, <1>9, <1>10

\* The runs with TOS bytes, and their distributions.
WithTos(rs) == {i \in DOMAIN rs : rs[i].tos # None}
Dists(rs) == [i \in WithTos(rs) |-> dscp_distribution(rs[i].tos)]

\* The DSCPs of all runs, the counts of one, run by run, and the missing bytes.
DscpsOf(rs) == UNION {DOMAIN Dists(rs)[i].dscp : i \in WithTos(rs)}
DscpCounts(rs, v) ==
    [i \in DOMAIN rs |-> IF i \in WithTos(rs) /\ v \in DOMAIN Dists(rs)[i].dscp
                         THEN Dists(rs)[i].dscp[v] ELSE 0]
MissingCounts(rs) == [i \in DOMAIN rs |-> IF i \in WithTos(rs) THEN Dists(rs)[i].missing ELSE 0]
MergedDscps(rs) == [v \in DscpsOf(rs) |-> Total(DscpCounts(rs, v))]

\* The most frequent ones, the first run that has one, and max()'s choice.
ModesOf(f) == {v \in DOMAIN f : \A w \in DOMAIN f : f[w] <= f[v]}
Since(rs, v) == Min({i \in WithTos(rs) : v \in DOMAIN Dists(rs)[i].dscp})
Sooner(rs, v, w) == Since(rs, v) < Since(rs, w) \/ (Since(rs, v) = Since(rs, w) /\ v < w)
Soonest(rs, S) == CHOOSE v \in S : \A w \in S \ {v} : Sooner(rs, v, w)

\* The fields of _aggregate_dscp().
LEMMA DscpFields ==
    ASSUME NEW rs
    PROVE  /\ WithTos(rs) = {} => _aggregate_dscp(rs) = <<>>
           /\ WithTos(rs) # {} =>
                 LET a == _aggregate_dscp(rs)
                     S == ModesOf(MergedDscps(rs))
                 IN  /\ a.dscp = MergedDscps(rs) /\ a.missing = Total(MissingCounts(rs))
                     /\ a.dominant = IF S = {} THEN None ELSE Soonest(rs, S)
<1>1. WithTos(rs) = {} => _aggregate_dscp(rs) = <<>>
  BY DEF _aggregate_dscp, WithTos
<1>2. ASSUME WithTos(rs) # {} PROVE _aggregate_dscp(rs).dscp = MergedDscps(rs)
  BY <1>2 DEF _aggregate_dscp, WithTos, Dists, DscpsOf, DscpCounts, MergedDscps
<1>3. ASSUME WithTos(rs) # {} PROVE _aggregate_dscp(rs).missing = Total(MissingCounts(rs))
  BY <1>3 DEF _aggregate_dscp, WithTos, Dists, MissingCounts
<1>4. ASSUME WithTos(rs) # {}
      PROVE  _aggregate_dscp(rs).dominant =
                 IF ModesOf(MergedDscps(rs)) = {} THEN None
                 ELSE Soonest(rs, ModesOf(MergedDscps(rs)))
  BY <1>4 DEF _aggregate_dscp, WithTos, Dists, DscpsOf, DscpCounts, MergedDscps, ModesOf, Since,
              Sooner, Soonest
<1>. QED BY <1>1, <1>2, <1>3, <1>4

\* With TOS bytes there is a table.
LEMMA DscpTable ==
    ASSUME NEW rs, WithTos(rs) # {}
    PROVE  _aggregate_dscp(rs) # <<>>
<1>1. "missing" \in DOMAIN _aggregate_dscp(rs)
  BY DEF _aggregate_dscp, WithTos
<1>2. DOMAIN <<>> = {}
  OBVIOUS
<1>. QED BY <1>1, <1>2

\* The rows of each run that have DSCP v, and those without a byte.
RowsUnder(rs, v) == [i \in DOMAIN rs |-> IF i \in WithTos(rs) THEN Under6(rs[i].tos, v) ELSE {}]
RowsWithout(rs) == [i \in DOMAIN rs |-> IF i \in WithTos(rs) THEN NoByte(rs[i].tos) ELSE {}]

\* d is the distribution of the TOS bytes t.
IsDist(d, t) ==
    /\ \A v \in DOMAIN d.dscp : v \in 0 .. 63 /\ d.dscp[v] = Cardinality(Under6(t, v))
    /\ \A v \in 0 .. 63 : v \in DOMAIN d.dscp <=> Under6(t, v) # {}
    /\ d.missing = Cardinality(NoByte(t))
    /\ IsFiniteSet(NoByte(t)) /\ \A v : IsFiniteSet(Under6(t, v))

\* The distribution of each run with TOS bytes.
LEMMA CellDists ==
    ASSUME NEW c, NEW rs, IsCell(c, rs), NEW i \in WithTos(rs)
    PROVE  IsDist(Dists(rs)[i], rs[i].tos)
<1>1. i \in 1 .. Len(rs) /\ rs[i].tos # None
  BY DEF IsCell, WithTos
<1>2. PICK t \in Seq(-1 .. 255) : t = rs[i].tos
  BY <1>1 DEF IsCell, IsRun
<1>3. PICK d : d = dscp_distribution(t)
  OBVIOUS
<1>4. Dists(rs)[i] = d
  BY <1>2, <1>3 DEF Dists
<1>5. PICK D : D = DOMAIN d.dscp
  OBVIOUS
<1>6. /\ D = {v \in 0 .. 63 : Under6(t, v) # {}}
      /\ \A v \in D : d.dscp[v] = Cardinality(Under6(t, v))
      /\ d.missing = Cardinality(NoByte(t))
      /\ IsFiniteSet(NoByte(t)) /\ \A v : IsFiniteSet(Under6(t, v))
  BY <1>3, <1>5, DscpOfRun
<1>7. /\ \A v \in D : v \in 0 .. 63
      /\ \A v \in 0 .. 63 : v \in D <=> Under6(t, v) # {}
  BY <1>6
<1>8. IsDist(d, t)
  BY <1>5, <1>6, <1>7 DEF IsDist
<1>. QED BY <1>2, <1>4, <1>8

\* The merged counts are numbers of rows.
LEMMA DscpRows ==
    ASSUME NEW c, NEW rs, IsCell(c, rs), NEW n \in Nat, n = Len(rs)
    PROVE  /\ DscpsOf(rs) \in SUBSET (0 .. 63)
           /\ \A v \in 0 .. 63 :
                 /\ IsFiniteSet(Tagged(RowsUnder(rs, v), n))
                 /\ Total(DscpCounts(rs, v)) = Cardinality(Tagged(RowsUnder(rs, v), n))
                 /\ v \in DscpsOf(rs) <=> Tagged(RowsUnder(rs, v), n) # {}
           /\ Total(MissingCounts(rs)) = Cardinality(Tagged(RowsWithout(rs), n))
<1>1. DOMAIN rs = 1 .. n /\ WithTos(rs) \in SUBSET (1 .. n)
  BY DEF IsCell, WithTos
<1>0. ASSUME NEW i \in WithTos(rs)
      PROVE  /\ \A v \in DOMAIN Dists(rs)[i].dscp : v \in 0 .. 63
             /\ \A v \in 0 .. 63 : v \in DOMAIN Dists(rs)[i].dscp <=> Under6(rs[i].tos, v) # {}
             /\ \A v \in DOMAIN Dists(rs)[i].dscp :
                   Dists(rs)[i].dscp[v] = Cardinality(Under6(rs[i].tos, v))
             /\ \A v : IsFiniteSet(Under6(rs[i].tos, v))
  <2>1. IsDist(Dists(rs)[i], rs[i].tos)
    BY CellDists
  <2>. QED BY <2>1 DEF IsDist
<1>2. DscpsOf(rs) \in SUBSET (0 .. 63)
  BY <1>0 DEF DscpsOf
<1>3. ASSUME NEW v \in 0 .. 63
      PROVE  /\ IsFiniteSet(Tagged(RowsUnder(rs, v), n))
             /\ Total(DscpCounts(rs, v)) = Cardinality(Tagged(RowsUnder(rs, v), n))
  <2>1. PICK A : A = RowsUnder(rs, v)
    OBVIOUS
  <2>2. PICK f : f = DscpCounts(rs, v)
    OBVIOUS
  <2>3. ASSUME NEW i \in 1 .. n
        PROVE  IsFiniteSet(A[i]) /\ f[i] = Cardinality(A[i]) /\ f[i] \in Int
    <3>1. CASE i \in WithTos(rs) /\ v \in DOMAIN Dists(rs)[i].dscp
      <4>1. A[i] = Under6(rs[i].tos, v) /\ f[i] = Dists(rs)[i].dscp[v]
        BY <1>1, <2>1, <2>2, <3>1 DEF RowsUnder, DscpCounts
      <4>2. IsFiniteSet(A[i]) /\ f[i] = Cardinality(A[i])
        BY <1>0, <3>1, <4>1
      <4>. QED BY <4>2, FS_CardinalityType
    <3>2. CASE i \in WithTos(rs) /\ v \notin DOMAIN Dists(rs)[i].dscp
      <4>1. A[i] = Under6(rs[i].tos, v) /\ f[i] = 0
        BY <1>1, <2>1, <2>2, <3>2 DEF RowsUnder, DscpCounts
      <4>2. Under6(rs[i].tos, v) = {}
        BY <1>0, <3>2
      <4>. QED BY <4>1, <4>2, FS_EmptySet
    <3>3. CASE i \notin WithTos(rs)
      <4>1. A[i] = {} /\ f[i] = 0
        BY <1>1, <2>1, <2>2, <3>3 DEF RowsUnder, DscpCounts
      <4>. QED BY <4>1, FS_EmptySet
    <3>. QED BY <3>1, <3>2, <3>3
  <2>4. f \in [1 .. n -> Int]
    BY <1>1, <2>2, <2>3 DEF DscpCounts
  <2>5. f \in Seq(Int) /\ Len(f) = n
    BY <2>4, Listed
  <2>6. Sizes(f, A)
    BY <2>3, <2>5 DEF Sizes
  <2>. QED BY <2>1, <2>2, <2>5, <2>6, SumUnion
<1>4. ASSUME NEW v \in 0 .. 63
      PROVE  v \in DscpsOf(rs) <=> Tagged(RowsUnder(rs, v), n) # {}
  <2>1. ASSUME v \in DscpsOf(rs) PROVE Tagged(RowsUnder(rs, v), n) # {}
    <3>1. PICK i \in WithTos(rs) : v \in DOMAIN Dists(rs)[i].dscp
      BY <2>1 DEF DscpsOf
    <3>2. PICK k : k \in Under6(rs[i].tos, v)
      BY <1>0, <3>1
    <3>3. RowsUnder(rs, v)[i] = Under6(rs[i].tos, v) /\ i \in 1 .. n
      BY <1>1 DEF RowsUnder
    <3>4. <<i, k>> \in {i} \X RowsUnder(rs, v)[i]
      BY <3>2, <3>3
    <3>5. <<i, k>> \in Tagged(RowsUnder(rs, v), n)
      BY <3>3, <3>4 DEF Tagged
    <3>. QED BY <3>5
  <2>2. ASSUME Tagged(RowsUnder(rs, v), n) # {} PROVE v \in DscpsOf(rs)
    <3>1. PICK i \in 1 .. n : {i} \X RowsUnder(rs, v)[i] # {}
      BY <2>2 DEF Tagged
    <3>2. RowsUnder(rs, v)[i] # {}
      BY <3>1
    <3>3. i \in WithTos(rs) /\ Under6(rs[i].tos, v) # {}
      BY <1>1, <3>2 DEF RowsUnder
    <3>4. v \in DOMAIN Dists(rs)[i].dscp
      BY <1>0, <3>3
    <3>. QED BY <3>3, <3>4 DEF DscpsOf
  <2>. QED BY <2>1, <2>2
<1>5. Total(MissingCounts(rs)) = Cardinality(Tagged(RowsWithout(rs), n))
  <2>1. PICK A : A = RowsWithout(rs)
    OBVIOUS
  <2>2. PICK f : f = MissingCounts(rs)
    OBVIOUS
  <2>3. ASSUME NEW i \in 1 .. n
        PROVE  IsFiniteSet(A[i]) /\ f[i] = Cardinality(A[i]) /\ f[i] \in Int
    <3>1. CASE i \in WithTos(rs)
      <4>1. A[i] = NoByte(rs[i].tos) /\ f[i] = Dists(rs)[i].missing
        BY <1>1, <2>1, <2>2, <3>1 DEF RowsWithout, MissingCounts
      <4>2. IsDist(Dists(rs)[i], rs[i].tos)
        BY <3>1, CellDists
      <4>3. IsFiniteSet(A[i]) /\ f[i] = Cardinality(A[i])
        BY <4>1, <4>2 DEF IsDist
      <4>. QED BY <4>3, FS_CardinalityType
    <3>2. CASE i \notin WithTos(rs)
      <4>1. A[i] = {} /\ f[i] = 0
        BY <1>1, <2>1, <2>2, <3>2 DEF RowsWithout, MissingCounts
      <4>. QED BY <4>1, FS_EmptySet
    <3>. QED BY <3>1, <3>2
  <2>4. f \in [1 .. n -> Int]
    BY <1>1, <2>2, <2>3 DEF MissingCounts
  <2>5. f \in Seq(Int) /\ Len(f) = n
    BY <2>4, Listed
  <2>6. Sizes(f, A)
    BY <2>3, <2>5 DEF Sizes
  <2>. QED BY <2>1, <2>2, <2>5, <2>6, SumUnion
<1>. QED BY <1>2, <1>3, <1>4, <1>5

\* The first run that has a DSCP.
LEMMA SinceIs ==
    ASSUME NEW c, NEW rs, IsCell(c, rs), NEW v \in DscpsOf(rs)
    PROVE  Since(rs, v) \in 1 .. Len(rs)
<1>1. PICK T : T = {i \in WithTos(rs) : v \in DOMAIN Dists(rs)[i].dscp}
  OBVIOUS
<1>2. T # {}
  BY <1>1 DEF DscpsOf
<1>3. T \in SUBSET (1 .. Len(rs)) /\ Len(rs) \in Nat
  BY <1>1 DEF IsCell, WithTos
<1>4. T \in SUBSET Nat
  BY <1>3
<1>5. Min(T) \in T
  BY <1>2, <1>4, LeastOf
<1>6. Since(rs, v) = Min(T)
  BY <1>1 DEF Since
<1>. QED BY <1>3, <1>5, <1>6

\* max() has a first key with the highest count; in one run it is the lowest.
LEMMA SoonestIs ==
    ASSUME NEW c, NEW rs, IsCell(c, rs), NEW S \in SUBSET DscpsOf(rs), S # {}
    PROVE  /\ Soonest(rs, S) \in S
           /\ Len(rs) = 1 => Soonest(rs, S) = Min(S)
<1>0. DscpsOf(rs) \in SUBSET (0 .. 63)
  BY DscpRows DEF IsCell
<1>1. S \in SUBSET (0 .. 63) /\ S \in SUBSET Nat
  BY <1>0
<1>2. IsFiniteSet(S)
  <2>1. PICK i \in Int, j \in Int : i = 0 /\ j = 63
    OBVIOUS
  <2>2. IsFiniteSet(i .. j)
    BY FS_Interval
  <2>3. S \in SUBSET (i .. j)
    BY <1>1, <2>1
  <2>. QED BY <2>2, <2>3, FS_Subset
<1>. DEFINE h == [v \in S |-> Since(rs, v)]
            R == {vw \in S \X S : Sooner(rs, vw[1], vw[2])}
<1>3. \A v \in S : h[v] \in Nat /\ h[v] \in 1 .. Len(rs) /\ h[v] = Since(rs, v)
  <2>1. ASSUME NEW v \in S PROVE Since(rs, v) \in 1 .. Len(rs) /\ Len(rs) \in Nat
    BY SinceIs DEF IsCell
  <2>. QED BY <2>1
<1>. HIDE DEF h
<1>4. \A v, w \in S : <<v, w>> \in R <=> h[v] < h[w] \/ (h[v] = h[w] /\ v < w)
  <2>1. \A v, w \in S : Sooner(rs, v, w) <=> h[v] < h[w] \/ (h[v] = h[w] /\ v < w)
    BY <1>3 DEF Sooner
  <2>2. \A v, w \in S : <<v, w>> \in R <=> Sooner(rs, v, w)
    OBVIOUS
  <2>. QED BY <2>1, <2>2
<1>5. \A v, w \in S : <<v, w>> \in R <=> Sooner(rs, v, w)
  OBVIOUS
<1>. HIDE DEF R
<1>6. Orders(S, R)
  <2>1. \A v \in S : v \in Nat /\ h[v] \in Nat
    BY <1>1, <1>3
  <2>2. \A s \in S : <<s, s>> \notin R
    BY <1>4, <2>1
  <2>3. ASSUME NEW s \in S, NEW t \in S, NEW u \in S, <<s, t>> \in R, <<t, u>> \in R
        PROVE  <<s, u>> \in R
    <3>1. PICK i \in Nat, j \in Nat, k \in Nat : i = h[s] /\ j = h[t] /\ k = h[u]
      BY <2>1
    <3>2. s \in Nat /\ t \in Nat /\ u \in Nat
      BY <2>1
    <3>3. i < j \/ (i = j /\ s < t)
      BY <1>4, <2>3, <3>1
    <3>4. j < k \/ (j = k /\ t < u)
      BY <1>4, <2>3, <3>1
    <3>5. i < k \/ (i = k /\ s < u)
      BY <3>2, <3>3, <3>4
    <3>. QED BY <1>4, <3>1, <3>5
  <2>4. ASSUME NEW s \in S, NEW t \in S, s # t PROVE <<s, t>> \in R \/ <<t, s>> \in R
    <3>1. PICK i \in Nat, j \in Nat : i = h[s] /\ j = h[t]
      BY <2>1
    <3>2. s \in Nat /\ t \in Nat
      BY <2>1
    <3>3. (i < j \/ (i = j /\ s < t)) \/ (j < i \/ (j = i /\ t < s))
      BY <2>4, <3>2
    <3>. QED BY <1>4, <3>1, <3>3
  <2>. QED BY <2>2, <2>3, <2>4 DEF Orders
<1>7. PICK f : Lists(f, S, R)
  BY <1>2, <1>6, InOrderLists
<1>8. PICK m \in S : \A w \in S \ {m} : Sooner(rs, m, w)
  <2>1. PICK s \in S : TRUE
    OBVIOUS
  <2>2. PICK n \in Nat : DOMAIN f = 1 .. n
    BY <1>7 DEF Lists
  <2>3. 1 \in 1 .. n /\ \A k \in 1 .. n : k # 1 => 1 < k
    <3>1. \E k \in 1 .. n : f[k] = s
      BY <1>7, <2>2 DEF Lists
    <3>. QED BY <3>1
  <2>4. f[1] \in S
    BY <1>7, <2>2, <2>3 DEF Lists
  <2>5. ASSUME NEW w \in S, w # f[1] PROVE Sooner(rs, f[1], w)
    <3>1. PICK k \in 1 .. n : f[k] = w
      BY <1>7, <2>2 DEF Lists
    <3>2. k # 1
      BY <2>5, <3>1
    <3>3. 1 < k
      BY <2>3, <3>2
    <3>4. <<f[1], f[k]>> \in R
      BY <1>7, <2>2, <2>3, <3>3 DEF Lists
    <3>. QED BY <1>5, <2>4, <3>1, <3>4
  <2>. QED BY <2>4, <2>5
<1>9. PICK e : e = Soonest(rs, S)
  OBVIOUS
<1>10. e \in S /\ \A w \in S \ {e} : Sooner(rs, e, w)
  BY <1>8, <1>9 DEF Soonest
<1>11. ASSUME Len(rs) = 1 PROVE e = Min(S)
  <2>1. \A v \in S : h[v] = 1
    BY <1>3, <1>11
  <2>2. ASSUME NEW w \in S \ {e} PROVE e < w
    <3>1. h[e] < h[w] \/ (h[e] = h[w] /\ e < w)
      BY <1>4, <1>5, <1>10
    <3>2. h[e] = 1 /\ h[w] = 1
      BY <1>10, <2>1
    <3>. QED BY <3>1, <3>2
  <2>3. PICK k : k = Min(S)
    OBVIOUS
  <2>4. k \in S /\ k <= e
    BY <1>1, <1>10, <2>3, LeastOf
  <2>5. e \in Nat /\ k \in Nat
    BY <1>1, <1>10, <2>4
  <2>6. k # e => e < k
    BY <2>2, <2>4
  <2>. QED BY <2>3, <2>4, <2>5, <2>6
<1>. QED BY <1>9, <1>10, <1>11

\* DscpExact's own counts: rows whose byte is in T, and under a DSCP, the DSCPs
\* found and the most frequent of them.
RowsWithin(rs, T) ==
    Cardinality(UNION {{k} \X {i \in DOMAIN rs[k].tos : rs[k].tos[i] \in T} : k \in WithTos(rs)})
CountOf(rs, v) == RowsWithin(rs, (4 * v) .. (4 * v + 3))
Found(rs) == {v \in 0 .. 63 : CountOf(rs, v) > 0}
Modes(rs) == {v \in Found(rs) : \A w \in Found(rs) : CountOf(rs, w) <= CountOf(rs, v)}

\* DscpExact's count of a DSCP is the merged one.
LEMMA CountsAre ==
    ASSUME NEW c, NEW rs, IsCell(c, rs), NEW v \in 0 .. 63
    PROVE  /\ CountOf(rs, v) \in Nat /\ CountOf(rs, v) = Total(DscpCounts(rs, v))
           /\ v \in DscpsOf(rs) <=> CountOf(rs, v) > 0
<1>1. PICK n \in Nat \ {0} : n = Len(rs) /\ DOMAIN rs = 1 .. n
  BY DEF IsCell
<1>2. WithTos(rs) \in SUBSET (1 .. n)
  BY <1>1 DEF WithTos
<1>3. CountOf(rs, v) = Cardinality(Tagged(RowsUnder(rs, v), n))
  <2>1. UNION {{k} \X Under6(rs[k].tos, v) : k \in WithTos(rs)} = Tagged(RowsUnder(rs, v), n)
    <3>1. PICK A : A = RowsUnder(rs, v)
      OBVIOUS
    <3>2. \A k \in WithTos(rs) : A[k] = Under6(rs[k].tos, v)
      BY <1>1, <1>2, <3>1 DEF RowsUnder
    <3>3. \A k \in 1 .. n : k \notin WithTos(rs) => A[k] = {}
      BY <1>1, <3>1 DEF RowsUnder
    <3>. QED BY <1>2, <3>1, <3>2, <3>3 DEF Tagged
  <2>. QED BY <2>1 DEF CountOf, RowsWithin, Under6
<1>4. PICK B : B = Tagged(RowsUnder(rs, v), n)
  OBVIOUS
<1>5. /\ IsFiniteSet(B) /\ Total(DscpCounts(rs, v)) = Cardinality(B)
      /\ v \in DscpsOf(rs) <=> B # {}
  <2>1. \A w \in 0 .. 63 :
            /\ IsFiniteSet(Tagged(RowsUnder(rs, w), n))
            /\ Total(DscpCounts(rs, w)) = Cardinality(Tagged(RowsUnder(rs, w), n))
            /\ w \in DscpsOf(rs) <=> Tagged(RowsUnder(rs, w), n) # {}
    BY <1>1, DscpRows, ZenonT(60)
  <2>. QED BY <1>4, <2>1
<1>6. Cardinality(B) \in Nat /\ (Cardinality(B) = 0 <=> B = {})
  BY <1>5, FS_CardinalityType, FS_EmptySet
<1>. QED BY <1>3, <1>4, <1>5, <1>6

\* The merged histogram of a condition is that of its rows.
LEMMA CellDscp ==
    ASSUME NEW c, NEW rs, IsCell(c, rs), WithTos(rs) # {}
    PROVE  LET a == _aggregate_dscp(rs)
           IN  /\ a.dscp = [v \in Found(rs) |-> CountOf(rs, v)]
               /\ a.missing = RowsWithin(rs, {-1})
               /\ IF Modes(rs) = {} THEN a.dominant = None ELSE a.dominant \in Modes(rs)
               /\ Len(rs) = 1 /\ Modes(rs) # {} => a.dominant = Min(Modes(rs))
<1>1. PICK n \in Nat \ {0} : n = Len(rs) /\ DOMAIN rs = 1 .. n
  BY DEF IsCell
<1>2. WithTos(rs) \in SUBSET (1 .. n)
  BY <1>1 DEF WithTos
<1>4. RowsWithin(rs, {-1}) = Cardinality(Tagged(RowsWithout(rs), n))
  <2>1. UNION {{k} \X NoByte(rs[k].tos) : k \in WithTos(rs)} = Tagged(RowsWithout(rs), n)
    <3>1. PICK A : A = RowsWithout(rs)
      OBVIOUS
    <3>2. \A k \in WithTos(rs) : A[k] = NoByte(rs[k].tos)
      BY <1>1, <1>2, <3>1 DEF RowsWithout
    <3>3. \A k \in 1 .. n : k \notin WithTos(rs) => A[k] = {}
      BY <1>1, <3>1 DEF RowsWithout
    <3>. QED BY <1>2, <3>1, <3>2, <3>3 DEF Tagged
  <2>. QED BY <2>1 DEF RowsWithin, NoByte
<1>5. ASSUME NEW v \in 0 .. 63
      PROVE  /\ CountOf(rs, v) \in Nat /\ CountOf(rs, v) = Total(DscpCounts(rs, v))
             /\ v \in DscpsOf(rs) <=> CountOf(rs, v) > 0
  BY CountsAre
<1>6. Found(rs) = DscpsOf(rs)
  <2>1. DscpsOf(rs) \in SUBSET (0 .. 63)
    BY <1>1, DscpRows
  <2>. QED BY <1>5, <2>1 DEF Found
<1>7. MergedDscps(rs) = [v \in Found(rs) |-> CountOf(rs, v)]
  <2>1. \A v \in Found(rs) : v \in 0 .. 63
    BY DEF Found
  <2>2. \A v \in Found(rs) : CountOf(rs, v) = Total(DscpCounts(rs, v))
    BY <1>5, <2>1
  <2>. QED BY <1>6, <2>2 DEF MergedDscps
<1>8. ModesOf(MergedDscps(rs)) = Modes(rs)
  <2>1. PICK f : f = MergedDscps(rs)
    OBVIOUS
  <2>2. DOMAIN f = Found(rs) /\ \A v \in Found(rs) : f[v] = CountOf(rs, v)
    BY <1>7, <2>1
  <2>3. ModesOf(f) = {v \in Found(rs) : \A w \in Found(rs) : f[w] <= f[v]}
    BY <2>2 DEF ModesOf
  <2>. QED BY <2>1, <2>2, <2>3 DEF Modes
<1>9. Modes(rs) \in SUBSET DscpsOf(rs)
  BY <1>6 DEF Modes
<1>10. PICK a : a = _aggregate_dscp(rs)
  OBVIOUS
<1>11. /\ a.dscp = MergedDscps(rs) /\ a.missing = Total(MissingCounts(rs))
       /\ a.dominant = IF Modes(rs) = {} THEN None ELSE Soonest(rs, Modes(rs))
  BY <1>8, <1>10, DscpFields
<1>12. Total(MissingCounts(rs)) = RowsWithin(rs, {-1})
  BY <1>1, <1>4, DscpRows
<1>13. Modes(rs) # {} => /\ Soonest(rs, Modes(rs)) \in Modes(rs)
                         /\ Len(rs) = 1 => Soonest(rs, Modes(rs)) = Min(Modes(rs))
  BY <1>9, SoonestIs
<1>. QED BY <1>7, <1>10, <1>11, <1>12, <1>13

-----------------------------------------------------------------------------
(* The report, as invariants *)

\* The baseline is the one that choose_baseline() gives.
Chosen == ~BaselineMissing(names, args.baseline) /\ base = choose_baseline(names, args.baseline)

\* The summaries and the comparisons that there can be.
Summaries == {cell_summary(c, cells[c]) : c \in {d \in DOMAIN cells : ~CellRaises(cells[d])}}
ComparisonOf(c) ==
    [condition |-> c, baseline |-> base, metrics |-> compare_cells(cells[base], cells[c])]
Comparisons == {ComparisonOf(c) : c \in DOMAIN cells \ {base}}

\* A summary is being made, or was.
Reporting == pc \in {"cells", "markdown", "json"} \/ (status = 0 /\ args.cmd = "summary")
Complete == pc \in {"markdown", "json"} \/ (status = 0 /\ args.cmd = "summary")

CommandInv ==
    /\ pc \in {"summary", "cells", "markdown", "json"} => args.cmd = "summary"
    /\ pc \in {"plot", "cdf"} => args.cmd = "plot"
    /\ pc = "compare" => args.cmd = "compare"
FreshInv ==
    pc \in {"main", "load", "summary"} => base = None /\ summaries = <<>> /\ comparisons = <<>>
BaseInv == (base = None \/ Chosen) /\ (Reporting => Chosen)
SummariesInv == summaries \in Seq(Summaries)
ComparisonsInv ==
    Reporting => /\ comparisons \in Seq(Comparisons) /\ Len(comparisons) <= Len(Others(base))
                 /\ \A i \in 1 .. Len(comparisons) :
                       comparisons[i] = ComparisonOf(Others(base)[i])
CompleteInv == Complete => Len(comparisons) = Len(Others(base))

ReportInv ==
    CommandInv /\ FreshInv /\ BaseInv /\ SummariesInv /\ ComparisonsInv /\ CompleteInv

\* There is no report in the beginning.
LEMMA InitReport == Init => ReportInv
<1>. SUFFICES ASSUME Init PROVE ReportInv
  OBVIOUS
<1>1. pc = "main" /\ status = -1 /\ base = None /\ summaries = <<>> /\ comparisons = <<>>
  BY DEF Init
<1>2. ~Reporting /\ ~Complete
  BY <1>1 DEF Reporting, Complete
<1>. QED BY <1>1, <1>2 DEF ReportInv, CommandInv, FreshInv, BaseInv, SummariesInv, ComparisonsInv,
                         CompleteInv

\* Steps that leave the report alone.
Quiet ==
    /\ UNCHANGED <<dir, args, cells, base, summaries, comparisons>>
    /\ pc' \in {"main", "load", "summary"} => pc \in {"main", "load", "summary"}
    /\ pc' \in {"cells", "markdown", "json"} => pc \in {"cells", "markdown", "json"}
    /\ pc' \in {"plot", "cdf"} => pc \in {"plot", "cdf"}
    /\ pc' \in {"summary", "compare"} => pc = pc'
    /\ Reporting' => Reporting
    /\ Complete' /\ ~Complete => Len(comparisons) = Len(Others(base))

\* Every step is one of these or makes a part of the report.
LEMMA ReportSteps ==
    ASSUME ReportInv, [Next]_vars
    PROVE  Quiet \/ Build \/ ChooseBaseline \/ Summarise \/ Compare \/ CompareTwo
<1>. USE DEF report, input
<1>1. CASE UNCHANGED vars
  BY <1>1 DEF vars, Quiet, Reporting, Complete
<1>2. CASE NoDirectory
  BY <1>2 DEF NoDirectory, Fail, Exit, Quiet, Reporting, Complete
<1>3. CASE Main
  BY <1>3 DEF Main, Quiet, Reporting, Complete
<1>4. CASE LoadFails
  BY <1>4 DEF LoadFails, Fail, Exit, Quiet, Reporting, Complete
<1>5. CASE Load
  BY <1>5 DEF Load, Quiet, Reporting, Complete
<1>6. CASE NoBaseline
  BY <1>6 DEF NoBaseline, Fail, Exit, Quiet, Reporting, Complete
<1>7. CASE SummariseRaises
  BY <1>7 DEF SummariseRaises, Fail, Exit, Quiet, Reporting, Complete
<1>8. CASE Rendered
  BY <1>8 DEF Rendered, Quiet, Reporting, Complete
<1>9. CASE EmitMarkdown
  BY <1>9 DEF EmitMarkdown, Quiet, Reporting, Complete
<1>10. CASE EmitJson
  BY <1>10 DEF EmitJson, Exit, Quiet, Reporting, Complete
<1>11. CASE NothingToPlot
  BY <1>11 DEF NothingToPlot, Fail, Exit, Quiet, Reporting, Complete
<1>12. CASE PlotPercentiles
  BY <1>12 DEF PlotPercentiles, Quiet, Reporting, Complete
<1>13. CASE PlotCdf
  <2>1. args.cmd = "plot"
    BY <1>13 DEF PlotCdf, ReportInv, CommandInv
  <2>. QED BY <1>13, <2>1 DEF PlotCdf, Exit, Quiet, Reporting, Complete
<1>14. CASE NotFound
  BY <1>14 DEF NotFound, Fail, Exit, Quiet, Reporting, Complete
<1>15. CASE BadStatistic
  BY <1>15 DEF BadStatistic, Fail, Exit, Quiet, Reporting, Complete
<1>16. CASE Terminated
  BY <1>1, <1>16 DEF Terminated
<1>. QED BY <1>1, <1>2, <1>3, <1>4, <1>5, <1>6, <1>7, <1>8, <1>9, <1>10, <1>11, <1>12, <1>13,
            <1>14, <1>15, <1>16 DEF Next

\* They keep the invariant.
LEMMA QuietReport == ReportInv /\ Quiet => ReportInv'
<1>. SUFFICES ASSUME ReportInv, Quiet PROVE ReportInv'
  OBVIOUS
<1>1. /\ dir' = dir /\ args' = args /\ cells' = cells /\ base' = base
      /\ summaries' = summaries /\ comparisons' = comparisons
  BY DEF Quiet
<1>2. CommandInv'
  BY <1>1 DEF ReportInv, CommandInv, Quiet
<1>3. FreshInv'
  BY <1>1 DEF ReportInv, FreshInv, Quiet
<1>4. BaseInv'
  BY <1>1 DEF ReportInv, BaseInv, Quiet, Chosen, names
<1>5. SummariesInv'
  BY <1>1 DEF ReportInv, SummariesInv, Summaries
<1>6. ComparisonsInv'
  BY <1>1 DEF ReportInv, ComparisonsInv, Comparisons, ComparisonOf, Others, Quiet
<1>7. CompleteInv'
  BY <1>1 DEF ReportInv, CompleteInv, Others, Quiet
<1>. QED BY <1>2, <1>3, <1>4, <1>5, <1>6, <1>7 DEF ReportInv

\* Others() lists the other conditions.
LEMMA OthersList ==
    ASSUME DataInv, NEW d
    PROVE  /\ Lists(Others(d), DOMAIN cells \ {d}, ByOrder(DOMAIN cells \ {d}))
           /\ Len(Others(d)) \in Nat
<1>1. PICK S : S = DOMAIN cells \ {d}
  OBVIOUS
<1>2. IsFiniteSet(DOMAIN cells) /\ DOMAIN cells \in SUBSET Range(Alphabetical)
  BY CellsFacts
<1>3. IsFiniteSet(S) /\ S \in SUBSET Range(Alphabetical)
  BY <1>1, <1>2, FS_Subset
<1>4. Lists(Names(S), S, ByOrder(S))
  BY <1>3, NamesList
<1>5. Others(d) = Names(S)
  BY <1>1 DEF Others
<1>6. Len(Names(S)) \in Nat
  BY <1>4 DEF Lists
<1>. QED BY <1>1, <1>4, <1>5, <1>6

\* build_dataset() finds no report yet.
LEMMA BuildReport == DataInv /\ ReportInv /\ Build => ReportInv'
<1>. SUFFICES ASSUME DataInv, ReportInv, Build PROVE ReportInv'
  OBVIOUS
<1>1. /\ pc = "load" /\ pc' = args.cmd /\ args' = args
      /\ status' = status /\ base' = base /\ summaries' = summaries /\ comparisons' = comparisons
  BY DEF Build, report, input
<1>2. base = None /\ summaries = <<>> /\ comparisons = <<>>
  BY <1>1 DEF ReportInv, FreshInv
<1>3. args.cmd \in {"summary", "plot", "compare"} /\ status # 0
  BY <1>1 DEF DataInv, InputInv, StatusInv
<1>4. ~Reporting' /\ ~Complete'
  BY <1>1, <1>3 DEF Reporting, Complete
<1>5. CommandInv' /\ FreshInv'
  BY <1>1, <1>2, <1>3 DEF CommandInv, FreshInv
<1>. QED BY <1>1, <1>2, <1>4, <1>5 DEF ReportInv, BaseInv, SummariesInv, ComparisonsInv, CompleteInv

\* choose_baseline().
LEMMA ChooseReport == DataInv /\ ReportInv /\ ChooseBaseline /\ DataInv' => ReportInv'
<1>. SUFFICES ASSUME DataInv, ReportInv, ChooseBaseline, DataInv' PROVE ReportInv'
  OBVIOUS
<1>1. /\ pc = "summary" /\ pc' = "cells" /\ args' = args /\ cells' = cells /\ status' = status
      /\ base' = choose_baseline(names, args.baseline) /\ ~BaselineMissing(names, args.baseline)
      /\ summaries' = summaries /\ comparisons' = comparisons
  BY DEF ChooseBaseline, input
<1>2. summaries = <<>> /\ comparisons = <<>>
  BY <1>1 DEF ReportInv, FreshInv
<1>3. args.cmd = "summary" /\ status # 0
  BY <1>1 DEF ReportInv, CommandInv, DataInv, StatusInv
<1>4. ~Complete'
  BY <1>1, <1>3 DEF Complete
<1>5. CommandInv' /\ FreshInv'
  BY <1>1, <1>3 DEF CommandInv, FreshInv
<1>6. Chosen'
  BY <1>1 DEF Chosen, names
<1>7. ComparisonsInv'
  <2>1. PICK e : e = base'
    OBVIOUS
  <2>2. Len(Others(e)) \in Nat
    BY OthersList
  <2>3. Others(base)' = Others(e)
    BY <1>1, <2>1 DEF Others
  <2>4. Len(Others(base))' \in Nat
    BY <2>2, <2>3
  <2>5. comparisons' = <<>> /\ Len(comparisons') = 0 /\ \A i \in 1 .. 0 : FALSE
    BY <1>1, <1>2
  <2>. QED BY <2>4, <2>5 DEF ComparisonsInv
<1>. QED BY <1>1, <1>2, <1>4, <1>5, <1>6, <1>7 DEF ReportInv, BaseInv, SummariesInv, CompleteInv

\* The condition to be summarised next.
LEMMA HereIs ==
    ASSUME DataInv, ReportInv, Len(summaries) < Len(names)
    PROVE  Here \in DOMAIN cells
<1>1. IsFiniteSet(DOMAIN cells) /\ DOMAIN cells \in SUBSET Range(Alphabetical)
  BY CellsFacts
<1>2. Lists(names, DOMAIN cells, ByOrder(DOMAIN cells))
  BY <1>1, NamesList DEF names
<1>3. PICK m \in Nat : m = Len(names) /\ DOMAIN names = 1 .. m
  BY <1>2 DEF Lists
<1>4. PICK V : V = Summaries
  OBVIOUS
<1>5. summaries \in Seq(V)
  BY <1>4 DEF ReportInv, SummariesInv
<1>6. Len(summaries) \in Nat
  BY <1>5
<1>7. Len(summaries) + 1 \in 1 .. m
  BY <1>3, <1>6
<1>. QED BY <1>2, <1>3, <1>7 DEF Lists, Here

\* _cell_summary() of the next condition.
LEMMA SummariseReport == DataInv /\ ReportInv /\ Summarise => ReportInv'
<1>. SUFFICES ASSUME DataInv, ReportInv, Summarise PROVE ReportInv'
  OBVIOUS
<1>1. /\ pc = "cells" /\ pc' = "cells" /\ args' = args /\ cells' = cells /\ status' = status
      /\ base' = base /\ comparisons' = comparisons /\ Len(summaries) < Len(names)
      /\ ~CellRaises(cells[Here]) /\ summaries' = Append(summaries, cell_summary(Here, cells[Here]))
  BY DEF Summarise, input
<1>2. ~Complete'
  <2>1. status # 0
    BY <1>1 DEF DataInv, StatusInv
  <2>. QED BY <1>1, <2>1 DEF Complete
<1>3. CommandInv' /\ FreshInv'
  BY <1>1 DEF ReportInv, CommandInv, FreshInv
<1>4. BaseInv'
  <2>1. Reporting
    BY <1>1 DEF Reporting
  <2>2. Chosen
    BY <2>1 DEF ReportInv, BaseInv
  <2>. QED BY <1>1, <2>2 DEF BaseInv, Chosen, names
<1>5. ComparisonsInv'
  <2>1. Reporting
    BY <1>1 DEF Reporting
  <2>. QED BY <1>1, <2>1 DEF ReportInv, ComparisonsInv, Comparisons, ComparisonOf, Others
<1>6. SummariesInv'
  <2>1. Here \in DOMAIN cells
    BY <1>1, HereIs
  <2>2. PICK e : e = cell_summary(Here, cells[Here])
    OBVIOUS
  <2>3. PICK V : V = Summaries
    OBVIOUS
  <2>4. e \in V /\ summaries \in Seq(V)
    BY <1>1, <2>1, <2>2, <2>3 DEF ReportInv, SummariesInv, Summaries
  <2>5. summaries' \in Seq(V)
    BY <1>1, <2>2, <2>4
  <2>6. Summaries' = V
    BY <1>1, <2>3 DEF Summaries
  <2>. QED BY <2>5, <2>6 DEF SummariesInv
<1>. QED BY <1>2, <1>3, <1>4, <1>5, <1>6 DEF ReportInv, CompleteInv

\* compare() of the next condition with the baseline.
LEMMA CompareReport == DataInv /\ ReportInv /\ Compare => ReportInv'
<1>. SUFFICES ASSUME DataInv, ReportInv, Compare PROVE ReportInv'
  OBVIOUS
<1>1. /\ pc = "cells" /\ pc' = "cells" /\ args' = args /\ cells' = cells /\ status' = status
      /\ base' = base /\ summaries' = summaries /\ Len(comparisons) < Len(Others(base))
      /\ comparisons' = Append(comparisons, ComparisonOf(Others(base)[Len(comparisons) + 1]))
  BY DEF Compare, input, ComparisonOf
<1>2. ~Complete' /\ Reporting
  <2>1. status # 0
    BY <1>1 DEF DataInv, StatusInv
  <2>. QED BY <1>1, <2>1 DEF Complete, Reporting
<1>3. CommandInv' /\ FreshInv'
  BY <1>1 DEF ReportInv, CommandInv, FreshInv
<1>4. BaseInv'
  <2>1. Chosen
    BY <1>2 DEF ReportInv, BaseInv
  <2>. QED BY <1>1, <2>1 DEF BaseInv, Chosen, names
<1>5. SummariesInv'
  BY <1>1 DEF ReportInv, SummariesInv, Summaries
<1>6. ComparisonsInv'
  <2>1. PICK V : V = Comparisons
    OBVIOUS
  <2>2. PICK f : f = Others(base)
    OBVIOUS
  <2>3. PICK m \in Nat : m = Len(f) /\ DOMAIN f = 1 .. m /\ \A k \in 1 .. m : f[k] \in DOMAIN cells \ {base}
    BY <2>2, OthersList, ZenonT(60) DEF Lists
  <2>4. comparisons \in Seq(V) /\ \A i \in 1 .. Len(comparisons) : comparisons[i] = ComparisonOf(f[i])
    BY <1>2, <2>1, <2>2 DEF ReportInv, ComparisonsInv
  <2>5. PICK n \in Nat : n = Len(comparisons) /\ n < m
    BY <1>1, <2>2, <2>3, <2>4
  <2>6. PICK e : e = ComparisonOf(f[n + 1])
    OBVIOUS
  <2>7. n + 1 \in 1 .. m
    BY <2>5
  <2>8. e \in V
    BY <2>1, <2>3, <2>6, <2>7 DEF Comparisons
  <2>9. /\ comparisons' \in Seq(V) /\ Len(comparisons') = n + 1 /\ comparisons'[n + 1] = e
        /\ \A i \in 1 .. n : comparisons'[i] = comparisons[i]
    BY <1>1, <2>2, <2>4, <2>5, <2>6, <2>8
  <2>10. \A i \in 1 .. (n + 1) : i \in 1 .. n \/ i = n + 1
    OBVIOUS
  <2>11. \A i \in 1 .. (n + 1) : comparisons'[i] = ComparisonOf(f[i])
    BY <2>4, <2>5, <2>6, <2>9, <2>10
  <2>12. Comparisons' = V /\ Others(base)' = f /\ \A d : ComparisonOf(d)' = ComparisonOf(d)
    BY <1>1, <2>1, <2>2 DEF Comparisons, Others, ComparisonOf
  <2>13. n + 1 <= m
    BY <2>5
  <2>. QED BY <2>3, <2>9, <2>11, <2>12, <2>13 DEF ComparisonsInv, Others, ComparisonOf
<1>. QED BY <1>2, <1>3, <1>4, <1>5, <1>6 DEF ReportInv, CompleteInv

\* cmd_compare() makes no summary.
LEMMA CompareTwoReport == DataInv /\ ReportInv /\ CompareTwo => ReportInv'
<1>. SUFFICES ASSUME DataInv, ReportInv, CompareTwo PROVE ReportInv'
  OBVIOUS
<1>1. /\ pc = "compare" /\ pc' = "end" /\ args' = args /\ cells' = cells /\ status' = 0
      /\ base' = base /\ summaries' = summaries
  BY DEF CompareTwo, Exit, input
<1>2. args.cmd = "compare"
  BY <1>1 DEF ReportInv, CommandInv
<1>3. ~Complete' /\ ~Reporting'
  BY <1>1, <1>2 DEF Complete, Reporting
<1>4. CommandInv' /\ FreshInv'
  BY <1>1 DEF CommandInv, FreshInv
<1>5. BaseInv'
  BY <1>1, <1>3 DEF ReportInv, BaseInv, Chosen, names
<1>6. SummariesInv'
  BY <1>1 DEF ReportInv, SummariesInv, Summaries
<1>. QED BY <1>3, <1>4, <1>5, <1>6 DEF ReportInv, ComparisonsInv, CompleteInv

\* Every step keeps it.
LEMMA NextReport == DataInv /\ ReportInv /\ [Next]_vars => ReportInv'
BY NextData, ReportSteps, QuietReport, BuildReport, ChooseReport, SummariseReport, CompareReport,
   CompareTwoReport

\* So it holds in every state.
LEMMA ReportAlways == Spec => [](DataInv /\ ReportInv)
BY InitData, NextData, InitReport, NextReport, PTL DEF Spec

\* A summary is that of a condition that was measured.
LEMMA SummaryOf ==
    ASSUME ReportInv, NEW s \in Range(summaries)
    PROVE  \E c \in DOMAIN cells : s = cell_summary(c, cells[c]) /\ ~CellRaises(cells[c])
<1>1. PICK V : V = Summaries
  OBVIOUS
<1>2. summaries \in Seq(V)
  BY <1>1 DEF ReportInv, SummariesInv
<1>3. s \in V
  BY <1>2 DEF Range
<1>. QED BY <1>1, <1>3 DEF Summaries

\* The fields of a summary.
LEMMA SummaryFields ==
    ASSUME NEW c, NEW rs
    PROVE  LET s == cell_summary(c, rs)
           IN  /\ s.condition = c /\ s.n_runs = Len(rs)
               /\ s.latency = distribution_summary(latency_ms(rs))
               /\ s.jitter = distribution_summary(jitter_us(rs))
               /\ s.loss = _aggregate_loss(rs) /\ s.dscp = _aggregate_dscp(rs)
               /\ s.per_run = IF Len(rs) <= 1 THEN <<>>
                              ELSE [latency_p99 |-> per_run_aggregate(
                                                        [i \in DOMAIN rs |-> rs[i].latency_ms]),
                                    jitter_p99  |-> per_run_aggregate(JitterSamples(rs))]
BY DEF cell_summary

\* The size of a sample is in its summary.
LEMMA SampleSize ==
    ASSUME NEW y \in Seq(Int)
    PROVE  distribution_summary(y).n = Len(y)
<1>1. CASE y = <<>>
  BY <1>1 DEF distribution_summary
<1>2. CASE y # <<>>
  BY <1>2 DEF distribution_summary
<1>. QED BY <1>1, <1>2

\* Loss is counted within runs.
LEMMA Losses == DataInv /\ ReportInv => LossPerRun
<1>. SUFFICES ASSUME DataInv, ReportInv, NEW s \in Range(summaries)
              PROVE  LET runs == cells[s.condition]
                         top(k) == Max(Range(runs[k].seq))
                         missing == UNION {{k} \X (0 .. top(k) \ Range(runs[k].seq)) :
                                              k \in DOMAIN runs}
                     IN  /\ s.loss.lost = Cardinality(missing)
                         /\ s.loss.received = s.latency.n
                         /\ s.loss.received - s.loss.duplicates + s.loss.lost = s.loss.expected
                         /\ s.loss.loss_pct \in 0 .. 100
  BY DEF LossPerRun
<1>1. PICK c \in DOMAIN cells : s = cell_summary(c, cells[c])
  BY SummaryOf
<1>2. PICK rs : rs = cells[c]
  OBVIOUS
<1>3. IsCell(c, rs)
  BY <1>2, CellsFacts
<1>4. /\ s.condition = c /\ s.loss = _aggregate_loss(rs)
      /\ s.latency = distribution_summary(latency_ms(rs))
  BY <1>1, <1>2, SummaryFields, ZenonT(60)
<1>5. s.latency.n = Len(latency_ms(rs))
  <2>1. latency_ms(rs) \in Seq(Int)
    BY <1>3, PooledLengths
  <2>. QED BY <1>4, <2>1, SampleSize
<1>6. PICK l : l = _aggregate_loss(rs)
  OBVIOUS
<1>7. /\ l.lost = Cardinality(UNION {{k} \X (0 .. Max(Range(rs[k].seq)) \ Range(rs[k].seq)) :
                                        k \in DOMAIN rs})
      /\ l.received = Len(latency_ms(rs))
      /\ l.received - l.duplicates + l.lost = l.expected
      /\ l.loss_pct \in 0 .. 100
  BY <1>3, <1>6, CellLoss
<1>. QED BY <1>2, <1>4, <1>5, <1>6, <1>7

\* Every TOS byte is counted under its DSCP.
LEMMA DscpCounted == DataInv /\ ReportInv => DscpExact
<1>. SUFFICES ASSUME DataInv, ReportInv, NEW s \in Range(summaries), s.dscp # <<>>
              PROVE  LET rs == cells[s.condition]
                     IN  /\ s.dscp.dscp = [v \in Found(rs) |-> CountOf(rs, v)]
                         /\ s.dscp.missing = RowsWithin(rs, {-1})
                         /\ IF Modes(rs) = {} THEN s.dscp.dominant = None
                            ELSE s.dscp.dominant \in Modes(rs)
                         /\ s.n_runs = 1 /\ Modes(rs) # {} => s.dscp.dominant = Min(Modes(rs))
  BY DEF DscpExact, Found, CountOf, Modes, RowsWithin, WithTos
<1>1. PICK c \in DOMAIN cells : s = cell_summary(c, cells[c])
  BY SummaryOf
<1>2. PICK rs : rs = cells[c]
  OBVIOUS
<1>3. IsCell(c, rs)
  BY <1>2, CellsFacts
<1>4. s.condition = c /\ s.dscp = _aggregate_dscp(rs) /\ s.n_runs = Len(rs)
  BY <1>1, <1>2 DEF cell_summary
<1>5. WithTos(rs) # {}
  BY <1>4, DscpFields
<1>6. PICK a : a = _aggregate_dscp(rs)
  OBVIOUS
<1>7. /\ a.dscp = [v \in Found(rs) |-> CountOf(rs, v)]
      /\ a.missing = RowsWithin(rs, {-1})
      /\ IF Modes(rs) = {} THEN a.dominant = None ELSE a.dominant \in Modes(rs)
      /\ Len(rs) = 1 /\ Modes(rs) # {} => a.dominant = Min(Modes(rs))
  BY <1>3, <1>5, <1>6, CellDscp
<1>. QED BY <1>2, <1>4, <1>6, <1>7

\* The baseline was measured, and is FIFO by default if that was.
LEMMA ChosenIs ==
    ASSUME DataInv, Chosen
    PROVE  /\ base \in DOMAIN cells
           /\ args.baseline = None /\ <<"fifo">> \in DOMAIN cells => base = <<"fifo">>
<1>1. IsFiniteSet(DOMAIN cells) /\ DOMAIN cells \in SUBSET Range(Alphabetical)
  BY CellsFacts
<1>2. Lists(names, DOMAIN cells, ByOrder(DOMAIN cells))
  BY <1>1, NamesList DEF names
<1>3. \A c, d \in DOMAIN cells : <<c, d>> \in ByOrder(DOMAIN cells) <=> _order(c) < _order(d)
  BY <1>1, NamesList
<1>4. PICK n \in Nat : DOMAIN names = 1 .. n /\ n = Len(names)
  BY <1>2 DEF Lists
<1>5. CASE args.baseline # None
  <2>1. Contains(names, base) /\ base = args.baseline
    BY <1>5 DEF Chosen, BaselineMissing, choose_baseline
  <2>2. \E k \in DOMAIN names : names[k] = base
    BY <1>4, <2>1 DEF Contains
  <2>3. base \in DOMAIN cells
    BY <1>2, <2>2 DEF Lists
  <2>. QED BY <1>5, <2>3
<1>6. CASE args.baseline = None
  <2>1. base = names[1] /\ names # <<>>
    BY <1>6 DEF Chosen, BaselineMissing, choose_baseline
  <2>2. 1 \in 1 .. n
    <3>1. names \in Seq(DOMAIN cells)
      BY <1>2 DEF Lists
    <3>2. n # 0
      BY <1>4, <2>1, <3>1
    <3>. QED BY <3>2
  <2>3. base \in DOMAIN cells
    BY <1>2, <1>4, <2>1, <2>2 DEF Lists
  <2>4. ASSUME <<"fifo">> \in DOMAIN cells, base # <<"fifo">> PROVE FALSE
    <3>1. PICK e : e = <<"fifo">>
      OBVIOUS
    <3>2. PICK k \in 1 .. n : names[k] = e
      BY <1>2, <1>4, <2>4, <3>1 DEF Lists
    <3>3. 1 < k
      <4>1. k # 1
        BY <2>1, <2>4, <3>1, <3>2
      <4>. QED BY <4>1
    <3>4. <<base, e>> \in ByOrder(DOMAIN cells)
      BY <1>2, <1>4, <2>1, <2>2, <3>2, <3>3 DEF Lists
    <3>5. _order(base) < _order(e)
      BY <1>3, <2>3, <2>4, <3>1, <3>4
    <3>6. _order(e) = 1
      <4>1. 1 \in 1 .. 5
        OBVIOUS
      <4>. QED BY <3>1, <4>1, KnownOrder
    <3>7. _order(base) \in Nat \ {0}
      BY <1>1, <2>3, OrderNumber
    <3>. QED BY <3>5, <3>6, <3>7
  <2>. QED BY <2>3, <2>4
<1>. QED BY <1>5, <1>6

\* Every other condition is compared, once.
LEMMA Compared == DataInv /\ ReportInv => ComparedWithBaseline
<1>. SUFFICES ASSUME DataInv, ReportInv PROVE ComparedWithBaseline
  OBVIOUS
<1>1. ASSUME base # None, args.baseline = None, <<"fifo">> \in DOMAIN cells
      PROVE  base = <<"fifo">>
  <2>1. Chosen
    BY <1>1 DEF ReportInv, BaseInv
  <2>. QED BY <1>1, <2>1, ChosenIs
<1>2. ASSUME status = 0, args.cmd = "summary"
      PROVE  /\ {comparisons[i].condition : i \in DOMAIN comparisons} = DOMAIN cells \ {base}
             /\ Len(comparisons) = Cardinality(DOMAIN cells) - 1
  <2>1. Reporting /\ Complete
    BY <1>2 DEF Reporting, Complete
  <2>2. base \in DOMAIN cells
    BY <2>1, ChosenIs DEF ReportInv, BaseInv
  <2>3. PICK S : S = DOMAIN cells \ {base}
    OBVIOUS
  <2>4. PICK f : f = Others(base)
    OBVIOUS
  <2>5. Lists(f, S, ByOrder(S))
    BY <2>3, <2>4, OthersList
  <2>6. PICK n \in Nat : n = Cardinality(S) /\ DOMAIN f = 1 .. n /\ Len(f) = n
    BY <2>5 DEF Lists
  <2>7. Len(comparisons) = n /\ \A i \in 1 .. n : comparisons[i] = ComparisonOf(f[i])
    BY <2>1, <2>4, <2>6 DEF ReportInv, ComparisonsInv, CompleteInv
  <2>8. DOMAIN comparisons = 1 .. n
    <3>1. PICK V : V = Comparisons
      OBVIOUS
    <3>2. comparisons \in Seq(V)
      BY <2>1, <3>1 DEF ReportInv, ComparisonsInv
    <3>. QED BY <2>7, <3>2
  <2>9. \A i \in 1 .. n : comparisons[i].condition = f[i]
    BY <2>7 DEF ComparisonOf
  <2>10. {comparisons[i].condition : i \in DOMAIN comparisons} = S
    <3>1. (\A k \in 1 .. n : f[k] \in S) /\ (\A s \in S : \E k \in 1 .. n : f[k] = s)
      BY <2>5, <2>6 DEF Lists
    <3>. QED BY <2>8, <2>9, <3>1
  <2>11. n = Cardinality(DOMAIN cells) - 1
    <3>1. IsFiniteSet(DOMAIN cells)
      BY CellsFacts
    <3>2. Cardinality(DOMAIN cells \ {base}) = Cardinality(DOMAIN cells) - 1
      BY <2>2, <3>1, FS_RemoveElement
    <3>. QED BY <2>3, <2>6, <3>2
  <2>. QED BY <2>3, <2>7, <2>10, <2>11
<1>. QED BY <1>1, <1>2 DEF ComparedWithBaseline

\* From the samples to the report: for every directory of results, the loss of
\* a condition is the number of packets missing within each of its runs, its
\* DSCP histogram counts every row with a TOS byte, with a most frequent value
\* as the dominant one, and the summary compares every other condition once,
\* with FIFO by default (_aggregate_loss(), _aggregate_dscp(), build_summary()).
THEOREM ReportFaithfulSafe == Spec => []ReportFaithful
<1>1. DataInv /\ ReportInv => ReportFaithful
  BY Losses, DscpCounted, Compared DEF ReportFaithful
<1>. QED BY <1>1, ReportAlways, PTL

-----------------------------------------------------------------------------
(* The output, as invariants *)

\* The figure of the distributions.
Figure == [c \in DOMAIN cells |-> [style |-> condition_styles(names)[c],
                                   curve |-> Curve(latency_ms(cells[c]))]]

\* Where nothing has been put out yet.
Early == {"main", "load", "summary", "cells", "markdown", "plot", "compare"}

\* Files hold what was computed.
FilesInv ==
    /\ DOMAIN files \in SUBSET {"markdown", "json", "percentiles", "cdf"}
    /\ "cdf" \in DOMAIN files => files["cdf"] = Figure
    /\ "json" \in DOMAIN files => Complete /\ files["json"] = to_json
    /\ "markdown" \in DOMAIN files => Complete /\ files["markdown"] = render_markdown
\* What has been put out after the Markdown, and after the first figure.
StageInv ==
    /\ pc \in Early => stdout = <<>> /\ files = <<>>
    /\ pc = "json" =>
          IF args.markdown = None
          THEN files = <<>> /\ stdout = IF args.json = None THEN <<"markdown">> ELSE <<>>
          ELSE IF args.markdown = "-" THEN files = <<>> /\ stdout = <<"markdown">>
          ELSE DOMAIN files = {"markdown"}
    /\ pc = "cdf" => DOMAIN files = {"percentiles"}

\* What ExitMeans says but for the errors behind a status.
ExitInv ==
    /\ status = 2 => stdout = <<>> /\ files = <<>>
    /\ status = 1 => OneRowRun
    /\ status = 0 /\ args.cmd = "plot" => DOMAIN files = {"percentiles", "cdf"}
    /\ status = 0 /\ args.cmd = "summary" =>
           /\ (args.json \notin {None, "-"}) = ("json" \in DOMAIN files)
           /\ (args.markdown \notin {None, "-"}) = ("markdown" \in DOMAIN files)
           /\ args.json = "-" /\ args.markdown = None => stdout = <<"json">>
           /\ args.json = None /\ args.markdown \in {None, "-"} => stdout = <<"markdown">>

OutputInv == FilesInv /\ StageInv /\ ExitInv

\* No file, no names.
LEMMA NoFiles == DOMAIN <<>> = {}
OBVIOUS

\* There is no output in the beginning.
LEMMA InitOutput == Init => OutputInv
<1>. SUFFICES ASSUME Init PROVE OutputInv
  OBVIOUS
<1>1. pc = "main" /\ status = -1 /\ stdout = <<>> /\ files = <<>>
  BY DEF Init
<1>2. FilesInv
  BY <1>1, NoFiles DEF FilesInv
<1>3. StageInv
  BY <1>1 DEF StageInv
<1>4. ExitInv
  BY <1>1 DEF ExitInv
<1>. QED BY <1>2, <1>3, <1>4 DEF OutputInv

\* Steps before any output.
Mute ==
    /\ UNCHANGED <<stdout, files, args>> /\ pc \in Early
    /\ (pc' \in Early /\ status' = status) \/ (pc' = "end" /\ status' = 2)

\* Every step is one of these, or puts something out, or raises.
LEMMA OutputSteps ==
    ASSUME DataInv, Next
    PROVE  \/ Mute \/ SummariseRaises \/ EmitMarkdown \/ EmitJson
           \/ PlotPercentiles \/ PlotCdf \/ CompareTwo \/ Terminated
<1>. USE DEF Mute, Early, Fail, Exit, input, report
<1>1. CASE NoDirectory \/ LoadFails \/ NoBaseline \/ NothingToPlot \/ NotFound \/ BadStatistic
  BY <1>1 DEF NoDirectory, LoadFails, NoBaseline, NothingToPlot, NotFound, BadStatistic
<1>2. CASE Main \/ Load
  BY <1>2 DEF Main, Load
<1>3. CASE Build
  <2>1. args.cmd \in {"summary", "plot", "compare"}
    BY DEF DataInv, InputInv
  <2>. QED BY <1>3, <2>1 DEF Build
<1>4. CASE ChooseBaseline \/ Summarise \/ Compare \/ Rendered
  BY <1>4 DEF ChooseBaseline, Summarise, Compare, Rendered
<1>. QED BY <1>1, <1>2, <1>3, <1>4 DEF Next

\* Before any output there is none.
LEMMA MuteOutput == DataInv /\ OutputInv /\ Mute => OutputInv'
<1>. SUFFICES ASSUME DataInv, OutputInv, Mute PROVE OutputInv'
  OBVIOUS
<1>1. stdout' = <<>> /\ files' = <<>>
  BY DEF OutputInv, StageInv, Mute
<1>2. FilesInv'
  BY <1>1, NoFiles DEF FilesInv
<1>3. pc' # "json" /\ pc' # "cdf"
  BY DEF Mute, Early
<1>4. StageInv'
  BY <1>1, <1>3 DEF StageInv
<1>5. status' \notin {0, 1}
  <2>1. CASE status' = 2
    BY <2>1
  <2>2. CASE status' = status
    <3>1. status = -1
      BY DEF DataInv, StatusInv, Mute, Early
    <3>. QED BY <2>2, <3>1
  <2>. QED BY <2>1, <2>2 DEF Mute
<1>6. ExitInv'
  BY <1>1, <1>5 DEF ExitInv
<1>. QED BY <1>2, <1>4, <1>6 DEF OutputInv

\* The only traceback: a run of one row among several.
LEMMA RaisesOutput == DataInv /\ ReportInv /\ OutputInv /\ SummariseRaises => OutputInv'
<1>. SUFFICES ASSUME DataInv, ReportInv, OutputInv, SummariseRaises PROVE OutputInv'
  OBVIOUS
<1>1. /\ pc = "cells" /\ Len(summaries) < Len(names) /\ CellRaises(cells[Here])
      /\ pc' = "end" /\ status' = 1
      /\ args' = args /\ cells' = cells /\ stdout' = stdout /\ files' = files
  BY DEF SummariseRaises, Fail, Exit, input
<1>2. stdout' = <<>> /\ files' = <<>>
  BY <1>1 DEF OutputInv, StageInv, Early
<1>3. FilesInv'
  BY <1>2, NoFiles DEF FilesInv
<1>4. StageInv'
  BY <1>1, <1>2 DEF StageInv
<1>5. args.cmd = "summary"
  BY <1>1 DEF ReportInv, CommandInv
<1>6. Here \in DOMAIN cells
  BY <1>1, HereIs
<1>7. PICK rs : rs = cells[Here]
  OBVIOUS
<1>8. IsCell(Here, rs)
  BY <1>6, <1>7, CellsFacts
<1>9. Len(rs) > 1 /\ \E i \in DOMAIN JitterSamples(rs) : JitterSamples(rs)[i] = <<>>
  BY <1>1, <1>7 DEF CellRaises, RaisesIndexError
<1>10. PICK i \in DOMAIN rs : jitter_values(rs[i].jitter_us) = <<>>
  BY <1>9 DEF JitterSamples
<1>11. Len(rs[i].seq) = 1
  <2>1. PICK j : j = rs[i].jitter_us
    OBVIOUS
  <2>2. j \in Seq(Int) /\ Len(j) = Len(rs[i].seq) /\ rs[i].seq \in Seq(Nat) /\ rs[i].seq # <<>>
    BY <1>8, <2>1 DEF IsCell, IsRun
  <2>3. Len(j) # 0
    BY <2>2
  <2>4. j # <<>>
    BY <2>2, <2>3
  <2>5. Len(jitter_values(j)) = Len(j) - 1 /\ Len(j) \in Nat
    BY <2>2, <2>4, JitterValues
  <2>6. Len(jitter_values(j)) = 0
    BY <1>10, <2>1
  <2>7. Len(j) = 1
    BY <2>5, <2>6
  <2>. QED BY <2>2, <2>7
<1>12. ExitInv'
  BY <1>1, <1>2, <1>5, <1>6, <1>7, <1>9, <1>10, <1>11 DEF ExitInv, OneRowRun
<1>. QED BY <1>3, <1>4, <1>12 DEF OutputInv

\* The views of a report that does not change do not change.
LEMMA SameViews ==
    ASSUME UNCHANGED <<cells, base, summaries, comparisons>>
    PROVE  render_markdown' = render_markdown /\ to_json' = to_json /\ Figure' = Figure
<1>1. Leaves' = Leaves
  BY DEF Leaves, ComparisonLeaves
<1>2. Figure' = Figure
  BY DEF Figure, names
<1>. QED BY <1>1, <1>2 DEF render_markdown, to_json

\* _emit() of the Markdown.
LEMMA MarkdownOutput == DataInv /\ ReportInv /\ OutputInv /\ EmitMarkdown => OutputInv'
<1>. SUFFICES ASSUME DataInv, ReportInv, OutputInv, EmitMarkdown PROVE OutputInv'
  OBVIOUS
<1>1. /\ pc = "markdown" /\ pc' = "json" /\ args' = args /\ status' = status
      /\ _emit("markdown", render_markdown, args.markdown, JsonUnasked)
  BY DEF EmitMarkdown, input
<1>2. render_markdown' = render_markdown
  BY SameViews DEF EmitMarkdown, report
<1>3. stdout = <<>> /\ files = <<>> /\ DOMAIN files = {}
  BY <1>1, NoFiles DEF OutputInv, StageInv, Early
<1>4. status = -1
  BY <1>1 DEF DataInv, StatusInv
<1>5. ExitInv'
  BY <1>1, <1>4 DEF ExitInv
<1>6. Complete'
  BY <1>1 DEF Complete
<1>7. Append(<<>>, "markdown") = <<"markdown">>
  OBVIOUS
<1>8. CASE args.markdown = None
  <2>1. files' = files /\ stdout' = IF args.json = None THEN <<"markdown">> ELSE <<>>
    BY <1>1, <1>3, <1>7, <1>8 DEF _emit, JsonUnasked
  <2>2. FilesInv'
    BY <1>3, <2>1 DEF FilesInv
  <2>3. StageInv'
    BY <1>1, <1>3, <1>8, <2>1 DEF StageInv, Early
  <2>. QED BY <1>5, <2>2, <2>3 DEF OutputInv
<1>9. CASE args.markdown # None /\ args.markdown = "-"
  <2>1. files' = files /\ stdout' = <<"markdown">>
    BY <1>1, <1>3, <1>7, <1>9 DEF _emit
  <2>2. FilesInv'
    BY <1>3, <2>1 DEF FilesInv
  <2>3. StageInv'
    BY <1>1, <1>3, <1>9, <2>1 DEF StageInv, Early
  <2>. QED BY <1>5, <2>2, <2>3 DEF OutputInv
<1>10. CASE args.markdown # None /\ args.markdown # "-"
  <2>1. files' = Write("markdown", render_markdown)
    BY <1>1, <1>10 DEF _emit
  <2>2. DOMAIN files' = {"markdown"} /\ files'["markdown"] = render_markdown
    BY <1>3, <2>1 DEF Write
  <2>3. FilesInv'
    BY <1>2, <1>6, <2>2 DEF FilesInv
  <2>4. StageInv'
    BY <1>1, <1>10, <2>2 DEF StageInv, Early
  <2>. QED BY <1>5, <2>3, <2>4 DEF OutputInv
<1>. QED BY <1>8, <1>9, <1>10

\* _emit() of the JSON.
LEMMA JsonOutput == DataInv /\ ReportInv /\ OutputInv /\ EmitJson => OutputInv'
<1>. SUFFICES ASSUME DataInv, ReportInv, OutputInv, EmitJson PROVE OutputInv'
  OBVIOUS
<1>1. /\ pc = "json" /\ pc' = "end" /\ args' = args /\ status' = 0
      /\ _emit("json", to_json, args.json, FALSE)
  BY DEF EmitJson, Exit, input
<1>2. to_json' = to_json /\ render_markdown' = render_markdown
  BY SameViews DEF EmitJson, report
<1>3. args.cmd = "summary"
  BY <1>1 DEF ReportInv, CommandInv
<1>4. Complete'
  BY <1>1, <1>3 DEF Complete
<1>5. StageInv'
  BY <1>1 DEF StageInv, Early
<1>6. None # "-"
  BY AnalysisAssumption
<1>7. Append(<<>>, "json") = <<"json">>
  OBVIOUS
<1>8. /\ args.markdown \in {None, "-"} => files = <<>> /\ DOMAIN files = {}
      /\ args.markdown \notin {None, "-"} => DOMAIN files = {"markdown"}
      /\ args.markdown = None /\ args.json # None => stdout = <<>>
      /\ args.markdown \in {None, "-"} /\ args.json = None => stdout = <<"markdown">>
  BY <1>1, NoFiles DEF OutputInv, StageInv
<1>9. "markdown" \in DOMAIN files => files["markdown"] = render_markdown
  BY DEF OutputInv, FilesInv
<1>10. args.json \in {None, "-"} =>
           files' = files /\ (args.json = None => stdout' = stdout)
                          /\ (args.json = "-" => stdout' = Append(stdout, "json"))
  BY <1>1, <1>6 DEF _emit
<1>11. args.json \notin {None, "-"} => files' = Write("json", to_json)
  BY <1>1 DEF _emit
<1>12. /\ DOMAIN files' = DOMAIN files \cup (IF args.json \in {None, "-"} THEN {} ELSE {"json"})
       /\ "json" \in DOMAIN files' => files'["json"] = to_json
       /\ "markdown" \in DOMAIN files' => files'["markdown"] = render_markdown
  <2>1. CASE args.json \in {None, "-"}
    BY <1>8, <1>9, <1>10, <2>1
  <2>2. CASE args.json \notin {None, "-"}
    <3>1. PICK g : g = Write("json", to_json)
      OBVIOUS
    <3>2. /\ DOMAIN g = DOMAIN files \cup {"json"} /\ g["json"] = to_json
          /\ \A j \in DOMAIN files : j # "json" => g[j] = files[j]
      BY <3>1 DEF Write
    <3>3. files' = g
      BY <1>11, <2>2, <3>1
    <3>. QED BY <1>9, <2>2, <3>2, <3>3
  <2>. QED BY <2>1, <2>2
<1>13. DOMAIN files = IF args.markdown \in {None, "-"} THEN {} ELSE {"markdown"}
  BY <1>8
<1>14. FilesInv'
  BY <1>2, <1>4, <1>12, <1>13 DEF FilesInv
<1>15. ExitInv'
  <2>1. (args.json \notin {None, "-"}) = ("json" \in DOMAIN files')
    BY <1>12, <1>13
  <2>2. (args.markdown \notin {None, "-"}) = ("markdown" \in DOMAIN files')
    BY <1>12, <1>13
  <2>3. args.json = "-" /\ args.markdown = None => stdout' = <<"json">>
    BY <1>6, <1>7, <1>8, <1>10
  <2>4. args.json = None /\ args.markdown \in {None, "-"} => stdout' = <<"markdown">>
    BY <1>8, <1>10
  <2>. QED BY <1>1, <1>3, <2>1, <2>2, <2>3, <2>4 DEF ExitInv
<1>. QED BY <1>5, <1>14, <1>15 DEF OutputInv

\* plots.py: the first figure.
LEMMA PercentilesOutput == DataInv /\ ReportInv /\ OutputInv /\ PlotPercentiles => OutputInv'
<1>. SUFFICES ASSUME DataInv, ReportInv, OutputInv, PlotPercentiles PROVE OutputInv'
  OBVIOUS
<1>1. /\ pc = "plot" /\ pc' = "cdf" /\ args' = args /\ status' = status
      /\ files' = Write("percentiles", Bars)
  BY DEF PlotPercentiles, input
<1>2. DOMAIN files = {}
  BY <1>1, NoFiles DEF OutputInv, StageInv, Early
<1>3. DOMAIN files' = {"percentiles"}
  BY <1>1, <1>2 DEF Write
<1>4. FilesInv'
  BY <1>3 DEF FilesInv
<1>5. StageInv'
  BY <1>1, <1>3 DEF StageInv, Early
<1>6. status = -1
  BY <1>1 DEF DataInv, StatusInv
<1>7. ExitInv'
  BY <1>1, <1>6 DEF ExitInv
<1>. QED BY <1>4, <1>5, <1>7 DEF OutputInv

\* The second one.
LEMMA CdfOutput == DataInv /\ ReportInv /\ OutputInv /\ PlotCdf => OutputInv'
<1>. SUFFICES ASSUME DataInv, ReportInv, OutputInv, PlotCdf PROVE OutputInv'
  OBVIOUS
<1>1. /\ pc = "cdf" /\ pc' = "end" /\ args' = args /\ status' = 0
      /\ files' = Write("cdf", Figure)
  BY DEF PlotCdf, Exit, input, Figure
<1>2. Figure' = Figure
  BY SameViews DEF PlotCdf, report
<1>3. DOMAIN files = {"percentiles"}
  BY <1>1 DEF OutputInv, StageInv
<1>4. DOMAIN files' = {"percentiles", "cdf"} /\ files'["cdf"] = Figure
  BY <1>1, <1>3 DEF Write
<1>5. FilesInv'
  BY <1>2, <1>4 DEF FilesInv
<1>6. StageInv'
  BY <1>1 DEF StageInv, Early
<1>7. args.cmd = "plot"
  BY <1>1 DEF ReportInv, CommandInv
<1>8. ExitInv'
  BY <1>1, <1>4, <1>7 DEF ExitInv
<1>. QED BY <1>5, <1>6, <1>8 DEF OutputInv

\* cmd_compare() prints and writes nothing.
LEMMA TwoOutput == DataInv /\ ReportInv /\ OutputInv /\ CompareTwo => OutputInv'
<1>. SUFFICES ASSUME DataInv, ReportInv, OutputInv, CompareTwo PROVE OutputInv'
  OBVIOUS
<1>1. pc = "compare" /\ pc' = "end" /\ args' = args /\ status' = 0 /\ files' = files
  BY DEF CompareTwo, Exit, input
<1>2. DOMAIN files' = {}
  BY <1>1, NoFiles DEF OutputInv, StageInv, Early
<1>3. FilesInv'
  BY <1>2 DEF FilesInv
<1>4. StageInv'
  BY <1>1 DEF StageInv, Early
<1>5. args.cmd = "compare"
  BY <1>1 DEF ReportInv, CommandInv
<1>6. ExitInv'
  BY <1>1, <1>5 DEF ExitInv
<1>. QED BY <1>3, <1>4, <1>6 DEF OutputInv

\* Every step keeps it.
LEMMA NextOutput == DataInv /\ ReportInv /\ OutputInv /\ [Next]_vars => OutputInv'
<1>. SUFFICES ASSUME DataInv, ReportInv, OutputInv, [Next]_vars PROVE OutputInv'
  OBVIOUS
<1>1. CASE UNCHANGED vars
  <2>1. /\ UNCHANGED <<cells, base, summaries, comparisons>>
        /\ args' = args /\ pc' = pc /\ stdout' = stdout /\ files' = files /\ status' = status
    BY <1>1 DEF vars, input, report
  <2>2. render_markdown' = render_markdown /\ to_json' = to_json /\ Figure' = Figure
    BY <2>1, SameViews
  <2>3. Complete' <=> Complete
    BY <2>1 DEF Complete
  <2>4. FilesInv'
    BY <2>1, <2>2, <2>3 DEF OutputInv, FilesInv
  <2>5. StageInv'
    BY <2>1 DEF OutputInv, StageInv
  <2>6. ExitInv'
    BY <2>1 DEF OutputInv, ExitInv, OneRowRun
  <2>. QED BY <2>4, <2>5, <2>6 DEF OutputInv
<1>2. CASE Terminated
  BY <1>1, <1>2 DEF Terminated
<1>3. CASE Next /\ ~Terminated
  BY <1>3, OutputSteps, MuteOutput, RaisesOutput, MarkdownOutput, JsonOutput, PercentilesOutput,
     CdfOutput, TwoOutput
<1>. QED BY <1>1, <1>2, <1>3

-----------------------------------------------------------------------------
(* The figures *)

\* In the sorted sample, the last place of a value is the number of values that
\* are at most that high.
LEMMA LastPlace ==
    ASSUME NEW y \in Seq(Int), NEW v \in Range(y)
    PROVE  /\ AtMost(y, v) \in 1 .. Len(y) /\ sorted(y)[AtMost(y, v)] = v
           /\ \A k \in 1 .. Len(y) : sorted(y)[k] = v => k <= AtMost(y, v)
<1>1. v \in Int /\ \E i \in DOMAIN y : y[i] = v
  BY DEF Range
<1>2. PICK m \in Nat, n \in Nat, e \in Nat :
          m = AtMost(y, v) /\ e = Below(y, v) /\ n = Len(y) /\ m <= n
  <2>1. AtMost(y, v) \in Nat /\ AtMost(y, v) <= Len(y) /\ Below(y, v) \in Nat
    BY <1>1, Counts
  <2>2. Len(y) \in Nat
    OBVIOUS
  <2>. QED BY <2>1, <2>2
<1>3. PICK T : T = {i \in DOMAIN y : y[i] = v}
  OBVIOUS
<1>4. Cardinality(T) = m - e
  BY <1>1, <1>2, <1>3, Ties
<1>5. Cardinality(T) \in Nat \ {0}
  <2>1. T # {} /\ T \in SUBSET DOMAIN y
    BY <1>1, <1>3
  <2>2. IsFiniteSet(T)
    BY <2>1, Places
  <2>. QED BY <2>1, <2>2, FS_CardinalityType, FS_EmptySet
<1>6. e < m /\ m \in 1 .. n
  BY <1>4, <1>5, <1>2
<1>7. sorted(y)[m] \in Int
  BY <1>2, <1>6, SortedPlaces
<1>8. sorted(y)[m] <= v <=> m <= m
  BY <1>1, <1>2, <1>6, SortedCounts
<1>9. sorted(y)[m] < v <=> m <= e
  BY <1>1, <1>2, <1>6, SortedCounts
<1>10. sorted(y)[m] = v
  BY <1>1, <1>6, <1>7, <1>8, <1>9
<1>11. ASSUME NEW k \in 1 .. n, sorted(y)[k] = v PROVE k <= m
  <2>1. sorted(y)[k] <= v <=> k <= m
    BY <1>1, <1>2, SortedCounts
  <2>. QED BY <1>1, <1>11, <2>1
<1>. QED BY <1>2, <1>6, <1>10, <1>11

\* The curve of a sample reaches at each value the number of values at most that
\* high.
LEMMA CurveIs ==
    ASSUME NEW y \in Seq(Int), NEW v \in Range(y), v > 0
    PROVE  Max({q[2] : q \in {r \in Curve(y) : r[1] = v}}) = AtMost(y, v)
<1>1. PICK s : s = sorted(y)
  OBVIOUS
<1>2. PICK n \in Nat : n = Len(y)
  OBVIOUS
<1>3. DOMAIN s = 1 .. n
  BY <1>1, <1>2, SortedPlaces
<1>4. PICK m : m = AtMost(y, v)
  OBVIOUS
<1>5. m \in 1 .. n /\ s[m] = v /\ \A k \in 1 .. n : s[k] = v => k <= m
  BY <1>1, <1>2, <1>4, LastPlace
<1>6. PICK K : K = {q[2] : q \in {r \in Curve(y) : r[1] = v}}
  OBVIOUS
<1>7. Curve(y) = {<<s[i], i>> : i \in {j \in 1 .. n : s[j] > 0}}
  BY <1>1, <1>3 DEF Curve
<1>8. K = {k \in 1 .. n : s[k] = v}
  <2>1. ASSUME NEW k \in 1 .. n, s[k] = v PROVE k \in K
    <3>1. <<s[k], k>> \in Curve(y)
      BY <1>7, <2>1
    <3>2. PICK q : q = <<s[k], k>>
      OBVIOUS
    <3>3. q \in {r \in Curve(y) : r[1] = v} /\ q[2] = k
      BY <2>1, <3>1, <3>2
    <3>. QED BY <1>6, <3>3
  <2>2. ASSUME NEW k \in K PROVE k \in 1 .. n /\ s[k] = v
    <3>1. PICK q \in Curve(y) : q[1] = v /\ k = q[2]
      BY <1>6
    <3>2. PICK i \in 1 .. n : q = <<s[i], i>>
      BY <1>7
    <3>. QED BY <3>1, <3>2
  <2>. QED BY <2>1, <2>2
<1>9. m \in K /\ \A k \in K : k \in Nat /\ k <= m
  BY <1>5, <1>8
<1>10. Max(K) = m
  <2>1. \E k \in K : \A j \in K : k >= j
    BY <1>9
  <2>2. Max(K) \in K /\ \A j \in K : Max(K) >= j
    BY <2>1 DEF Max
  <2>3. PICK e \in Nat : e = Max(K)
    BY <1>9, <2>2
  <2>4. e <= m /\ e >= m
    BY <1>9, <2>2, <2>3
  <2>. QED BY <1>9, <2>3, <2>4
<1>. QED BY <1>4, <1>6, <1>10

\* The figure shows the distribution of all packets.
LEMMA Curves == DataInv /\ OutputInv => CdfFaithful
<1>. SUFFICES ASSUME DataInv, OutputInv, "cdf" \in DOMAIN files, NEW c \in DOMAIN cells,
                     NEW v \in {u \in Range(latency_ms(cells[c])) : u > 0}
              PROVE  LET lat == latency_ms(cells[c])
                     IN  Max({q[2] : q \in {r \in files["cdf"][c].curve : r[1] = v}})
                             = Cardinality({i \in DOMAIN lat : lat[i] <= v})
  BY DEF CdfFaithful
<1>1. files["cdf"][c].curve = Curve(latency_ms(cells[c]))
  BY DEF OutputInv, FilesInv, Figure
<1>2. PICK y : y = latency_ms(cells[c])
  OBVIOUS
<1>3. IsCell(c, cells[c])
  BY CellsFacts
<1>4. y \in Seq(Int)
  BY <1>2, <1>3, PooledLengths
<1>5. Max({q[2] : q \in {r \in Curve(y) : r[1] = v}}) = AtMost(y, v)
  BY <1>2, <1>4, CurveIs
<1>. QED BY <1>1, <1>2, <1>5 DEF AtMost

\* The conditions before place k that are not the testbed's.
Strangers(ns, k) == {j \in 1 .. (k - 1) : ns[j] \notin Range(CONDITION_ORDER)}

\* The colours of two other conditions.
LEMMA ColoursDiffer ==
    ASSUME NEW S, IsFiniteSet(S), NEW ns, NEW R, Lists(ns, S, R),
           Cardinality(S \ Range(CONDITION_ORDER)) <= FALLBACK_COLORS,
           NEW i \in DOMAIN ns, NEW j \in DOMAIN ns, i < j,
           ns[i] \notin Range(CONDITION_ORDER), ns[j] \notin Range(CONDITION_ORDER)
    PROVE  Cardinality(Strangers(ns, i)) % FALLBACK_COLORS
               # Cardinality(Strangers(ns, j)) % FALLBACK_COLORS
<1>1. PICK n \in Nat : DOMAIN ns = 1 .. n
  BY DEF Lists
<1>2. i \in 1 .. n /\ j \in 1 .. n
  BY <1>1
<1>3. PICK K : K = Range(CONDITION_ORDER)
  OBVIOUS
<1>4. PICK A : A = Strangers(ns, i)
  OBVIOUS
<1>5. PICK B : B = Strangers(ns, j)
  OBVIOUS
<1>6. /\ A \in SUBSET (1 .. n) /\ B \in SUBSET (1 .. n) /\ A \in SUBSET B
      /\ i \in B /\ i \notin A /\ j \notin B /\ \A k \in B : ns[k] \notin K
  <2>1. A = {k \in 1 .. (i - 1) : ns[k] \notin K} /\ B = {k \in 1 .. (j - 1) : ns[k] \notin K}
    BY <1>3, <1>4, <1>5 DEF Strangers
  <2>2. /\ \A k \in 1 .. (i - 1) : k \in 1 .. (j - 1)
        /\ \A k \in 1 .. (j - 1) : k \in 1 .. n
        /\ i \in 1 .. (j - 1) /\ i \notin 1 .. (i - 1) /\ j \notin 1 .. (j - 1)
    BY <1>2
  <2>. QED BY <1>3, <2>1, <2>2
<1>7. IsFiniteSet(A) /\ IsFiniteSet(B)
  BY <1>6, FirstPlaces, FS_Subset
<1>8. PICK a \in Nat, e \in Nat : a = Cardinality(A) /\ e = Cardinality(B)
  BY <1>7, FS_CardinalityType
<1>9. a + 1 <= e
  <2>1. IsFiniteSet(A \cup {i}) /\ Cardinality(A \cup {i}) = a + 1
    BY <1>6, <1>7, <1>8, FS_AddElement
  <2>2. A \cup {i} \in SUBSET B
    BY <1>6
  <2>. QED BY <1>7, <1>8, <2>1, <2>2, FS_Subset
<1>10. e + 1 <= 5
  <2>1. IsFiniteSet(B \cup {j}) /\ Cardinality(B \cup {j}) = e + 1
    BY <1>6, <1>7, <1>8, FS_AddElement
  <2>2. PICK C : C = B \cup {j}
    OBVIOUS
  <2>3. PICK T : T = S \ K
    OBVIOUS
  <2>4. IsFiniteSet(T) /\ Cardinality(T) \in Nat /\ Cardinality(T) <= 5
    BY <1>3, <2>3, FS_Subset, FS_CardinalityType DEF FALLBACK_COLORS
  <2>5. \A k \in C : k \in 1 .. n /\ ns[k] \in T
    BY <1>1, <1>2, <1>3, <1>6, <2>2, <2>3 DEF Lists
  <2>6. \A k, l \in C : ns[k] = ns[l] => k = l
    BY <1>1, <2>5 DEF Lists
  <2>. DEFINE h == [k \in C |-> ns[k]]
  <2>7. h \in Injection(C, T)
    BY <2>5, <2>6 DEF Injection, IsInjective
  <2>. HIDE DEF h
  <2>9. Cardinality(C) <= Cardinality(T)
    BY <2>4, <2>7, FS_Injection
  <2>. QED BY <2>1, <2>2, <2>4, <2>9
<1>11. a \in 0 .. 4 /\ e \in 0 .. 4 /\ a # e
  BY <1>9, <1>10
<1>12. a % 5 = a /\ e % 5 = e
  BY <1>11
<1>. QED BY <1>4, <1>5, <1>8, <1>11, <1>12 DEF FALLBACK_COLORS

\* The style of a condition.
LEMMA StyleIs ==
    ASSUME NEW ns, NEW c \in Range(ns)
    PROVE  condition_styles(ns)[c] =
               IF c \in Range(CONDITION_ORDER) THEN <<"known", _order(c)>>
               ELSE <<"fallback", Cardinality(Strangers(ns, Position(ns, c))) % FALLBACK_COLORS>>
BY DEF condition_styles, Strangers

\* No two conditions look the same.
LEMMA Styles == DataInv /\ OutputInv => StylesDistinct
<1>. SUFFICES ASSUME DataInv, OutputInv, "cdf" \in DOMAIN files,
                     Cardinality(DOMAIN cells \ Range(CONDITION_ORDER)) <= FALLBACK_COLORS,
                     NEW c \in DOMAIN cells, NEW d \in DOMAIN cells, c # d
              PROVE  files["cdf"][c].style # files["cdf"][d].style
  BY DEF StylesDistinct
<1>1. /\ files["cdf"][c].style = condition_styles(names)[c]
      /\ files["cdf"][d].style = condition_styles(names)[d]
  BY DEF OutputInv, FilesInv, Figure
<1>2. IsFiniteSet(DOMAIN cells) /\ DOMAIN cells \in SUBSET Range(Alphabetical)
  BY CellsFacts
<1>3. PICK R : Lists(names, DOMAIN cells, R)
  BY <1>2, NamesList DEF names
<1>4. c \in Range(names) /\ d \in Range(names)
  BY <1>3 DEF Lists, Range
<1>5. PICK K : K = Range(CONDITION_ORDER)
  OBVIOUS
<1>6. PICK i, j : i = Position(names, c) /\ j = Position(names, d)
  OBVIOUS
<1>7. i \in DOMAIN names /\ names[i] = c /\ j \in DOMAIN names /\ names[j] = d
  BY <1>4, <1>6, PositionIs
<1>8. PICK a, e : a = Cardinality(Strangers(names, i)) % FALLBACK_COLORS
                  /\ e = Cardinality(Strangers(names, j)) % FALLBACK_COLORS
  OBVIOUS
<1>9. /\ condition_styles(names)[c] = IF c \in K THEN <<"known", _order(c)>> ELSE <<"fallback", a>>
      /\ condition_styles(names)[d] = IF d \in K THEN <<"known", _order(d)>> ELSE <<"fallback", e>>
  BY <1>4, <1>5, <1>6, <1>8, StyleIs
<1>10. _order(c) # _order(d)
  BY <1>2, OrderDistinct
<1>11. ASSUME c \notin K, d \notin K PROVE a # e
  <2>1. i \in Nat /\ j \in Nat /\ i # j
    BY <1>3, <1>7 DEF Lists
  <2>2. CASE i < j
    BY <1>2, <1>3, <1>5, <1>7, <1>8, <1>11, <2>2, ColoursDiffer
  <2>3. CASE j < i
    BY <1>2, <1>3, <1>5, <1>7, <1>8, <1>11, <2>3, ColoursDiffer
  <2>. QED BY <2>1, <2>2, <2>3
<1>. QED BY <1>1, <1>9, <1>10, <1>11

-----------------------------------------------------------------------------
(* What is not a number *)

\* Shown as null, "nan" or "-".
Blank(v) == v = NaN \/ v = None

\* Numbers and ratios are not.
LEMMA Numbers ==
    /\ \A v \in Int : ~Blank(v)
    /\ \A v \in [num : Int, den : Int] : ~Blank(v)
    /\ Blank(NaN) /\ Blank(None)
BY NaNAssumption DEF Blank

\* A sum of integers is one.
LEMMA TotalInt ==
    ASSUME NEW f \in Seq(Int)
    PROVE  Total(f) \in Int
<1>1. PICK s : PartialSums(s, f) /\ Total(f) = s[Len(f)]
  BY TotalSums
<1>2. PICK n \in Nat : n = Len(f) /\ n \in 0 .. n
  OBVIOUS
<1>3. s \in [0 .. n -> Int]
  BY <1>1, <1>2 DEF PartialSums
<1>. QED BY <1>1, <1>2, <1>3

\* The deviation needs two values.
LEMMA SpreadIs ==
    ASSUME NEW y \in Seq(Int)
    PROVE  IF Len(y) < 2 THEN spread(y) = NaN ELSE spread(y) \in Int
<1>1. CASE Len(y) < 2
  BY <1>1 DEF spread
<1>2. CASE ~(Len(y) < 2)
  <2>1. PICK n \in Nat : n = Len(y) /\ DOMAIN y = 1 .. n /\ \A i \in 1 .. n : y[i] \in Int
    OBVIOUS
  <2>. DEFINE f == [i \in DOMAIN y |-> y[i] * y[i]]
  <2>2. f \in [1 .. n -> Int]
    <3>1. \A i \in 1 .. n : y[i] * y[i] \in Int
      BY <2>1
    <3>. QED BY <2>1, <3>1
  <2>3. spread(y) = Len(y) * Total(f) - Total(y) * Total(y)
    BY <1>2 DEF spread
  <2>. HIDE DEF f
  <2>4. Total(f) \in Int /\ Total(y) \in Int
    BY <2>2, Listed, TotalInt
  <2>5. PICK a \in Int, e \in Int : a = Total(f) /\ e = Total(y)
    BY <2>4
  <2>6. n * a \in Int /\ e * e \in Int
    OBVIOUS
  <2>. QED BY <1>2, <2>1, <2>3, <2>5, <2>6
<1>. QED BY <1>1, <1>2

\* The fields of a distribution.
LEMMA DistributionBlanks ==
    ASSUME NEW y \in Seq(Int), NEW k \in DOMAIN distribution_summary(y)
    PROVE  Blank(distribution_summary(y)[k]) <=>
               k # "n" /\ (Len(y) = 0 \/ (k = "std" /\ Len(y) = 1))
<1>1. CASE y = <<>>
  <2>1. PICK d : d = distribution_summary(y)
    OBVIOUS
  <2>2. d = [n |-> 0, min |-> NaN, p50 |-> NaN, p90 |-> NaN, p99 |-> NaN, p999 |-> NaN,
             max |-> NaN, mean |-> NaN, std |-> NaN]
    BY <1>1, <2>1 DEF distribution_summary
  <2>3. k = "n" => d[k] = 0
    BY <2>2
  <2>4. k # "n" => d[k] = NaN
    BY <2>1, <2>2
  <2>5. ~Blank(0) /\ Blank(NaN)
    BY Numbers
  <2>6. Len(y) = 0
    BY <1>1
  <2>. QED BY <2>1, <2>3, <2>4, <2>5, <2>6
<1>2. CASE y # <<>>
  <2>1. PICK m \in Nat \ {0} : m = Len(y)
    BY <1>2, NotEmpty
  <2>2. PICK lo \in Int, hi \in Int : lo = Min(Range(y)) /\ hi = Max(Range(y))
    BY <1>2, MinMax
  <2>3. Milli * lo \in Int /\ Milli * hi \in Int
    BY DEF Milli
  <2>4. /\ percentile(y, 500) \in Int /\ percentile(y, 900) \in Int
        /\ percentile(y, 990) \in Int /\ percentile(y, 999) \in Int
    <3>1. \A q \in 0 .. Milli : Interpolated(y, q) \in Int
      BY <1>2, InterpolatedWithin
    <3>2. 500 \in 0 .. Milli /\ 900 \in 0 .. Milli /\ 990 \in 0 .. Milli /\ 999 \in 0 .. Milli
      BY DEF Milli
    <3>. QED BY <1>2, <3>1, <3>2 DEF percentile
  <2>5. (Milli * Total(y)) \div Len(y) \in Int
    BY <1>2, MeanWithin DEF InRange
  <2>6. PICK p1, p2, p3, p4, me, sp :
            /\ p1 = percentile(y, 500) /\ p2 = percentile(y, 900)
            /\ p3 = percentile(y, 990) /\ p4 = percentile(y, 999)
            /\ me = (Milli * Total(y)) \div Len(y) /\ sp = spread(y)
    OBVIOUS
  <2>7. PICK d : d = distribution_summary(y)
    OBVIOUS
  <2>8. d = [n |-> m, min |-> Milli * lo, p50 |-> p1, p90 |-> p2, p99 |-> p3, p999 |-> p4,
             max |-> Milli * hi, mean |-> me, std |-> sp]
    BY <1>2, <2>1, <2>2, <2>6, <2>7 DEF distribution_summary
  <2>9. k # "std" => d[k] \in Int
    BY <2>1, <2>3, <2>4, <2>5, <2>6, <2>7, <2>8, SMTT(30)
  <2>10. k = "std" => d[k] = sp
    BY <2>8
  <2>11. IF m = 1 THEN sp = NaN ELSE sp \in Int
    <3>1. IF Len(y) < 2 THEN spread(y) = NaN ELSE spread(y) \in Int
      BY SpreadIs
    <3>2. m < 2 <=> m = 1
      OBVIOUS
    <3>. QED BY <2>1, <2>6, <3>1, <3>2
  <2>12. (\A v \in Int : ~Blank(v)) /\ Blank(NaN)
    BY Numbers
  <2>13. k = "std" => (Blank(d[k]) <=> m = 1)
    BY <2>10, <2>11, <2>12
  <2>14. k # "std" => ~Blank(d[k])
    BY <2>9, <2>12
  <2>. QED BY <2>1, <2>7, <2>13, <2>14
<1>. QED BY <1>1, <1>2

\* All of the loss table is numbers.
LEMMA LossBlanks ==
    ASSUME NEW c, NEW rs, IsCell(c, rs), NEW k \in DOMAIN _aggregate_loss(rs)
    PROVE  ~Blank(_aggregate_loss(rs)[k]) /\ k # "ci"
<1>1. PICK n \in Nat \ {0} : n = Len(rs) /\ DOMAIN rs = 1 .. n
  BY DEF IsCell
<1>. DEFINE f == [i \in DOMAIN rs |-> loss_summary(rs[i].seq).reorders]
<1>2. ASSUME NEW i \in 1 .. n
      PROVE  /\ loss_summary(rs[i].seq).reorders \in Int
             /\ loss_summary(rs[i].seq).expected \in Int
             /\ loss_summary(rs[i].seq).lost \in Int /\ loss_summary(rs[i].seq).duplicates \in Int
             /\ Len(rs[i].seq) \in Int
  <2>1. PICK q : q = rs[i].seq
    OBVIOUS
  <2>2. q \in Seq(Nat) /\ q # <<>>
    BY <1>1, <2>1 DEF IsCell, IsRun
  <2>3. PICK T : T = {j \in 2 .. Len(q) : q[j] < running_max(q)[j - 1]}
    OBVIOUS
  <2>4. Len(q) \in Nat /\ T \in SUBSET (1 .. Len(q))
    BY <2>2, <2>3
  <2>5. Cardinality(T) \in Int
    <3>1. IsFiniteSet(T)
      BY <2>4, FirstPlaces, FS_Subset
    <3>. QED BY <3>1, FS_CardinalityType
  <2>6. loss_summary(q).reorders = Cardinality(T)
    BY <2>2, <2>3 DEF loss_summary
  <2>7. PICK l : l = loss_summary(q)
    OBVIOUS
  <2>8. l.expected \in Nat \ {0} /\ l.lost \in Nat /\ l.duplicates \in Int
    BY <2>2, <2>7, LossOfRun
  <2>. QED BY <2>1, <2>4, <2>5, <2>6, <2>7, <2>8
<1>3. f \in [1 .. n -> Int]
  BY <1>1, <1>2
<1>4. /\ Expecteds(rs) \in [1 .. n -> Int] /\ Losts(rs) \in [1 .. n -> Int]
      /\ Duplicates(rs) \in [1 .. n -> Int] /\ RowCounts(rs) \in [1 .. n -> Int]
  BY <1>1, <1>2 DEF Expecteds, Losts, Duplicates, RowCounts
<1>5. PICK l : l = _aggregate_loss(rs)
  OBVIOUS
<1>6. l.reorders = Total(f)
  BY <1>5 DEF _aggregate_loss
<1>. HIDE DEF f
<1>7. /\ Total(f) \in Int /\ Total(Expecteds(rs)) \in Int /\ Total(Losts(rs)) \in Int
      /\ Total(Duplicates(rs)) \in Int /\ Total(RowCounts(rs)) \in Int
  BY <1>3, <1>4, Listed, TotalInt
<1>8. /\ l.expected \in Int /\ l.lost \in Int /\ l.duplicates \in Int /\ l.received \in Int
      /\ l.reorders \in Int
  BY <1>5, <1>6, <1>7, LossFields
<1>9. l.loss_pct \in Int
  <2>1. l.loss_pct \in 0 .. 100
    BY <1>5, CellLoss
  <2>. QED BY <2>1
<1>10. DOMAIN l = {"expected", "received", "lost", "duplicates", "reorders", "loss_pct"}
  BY <1>5 DEF _aggregate_loss
<1>11. l[k] \in Int /\ k # "ci"
  BY <1>5, <1>8, <1>9, <1>10
<1>. QED BY <1>5, <1>11, Numbers

\* The interval needs three runs.
LEMMA PerRunBlanks ==
    ASSUME NEW s, NEW n \in Nat, n >= 2, DOMAIN s = 1 .. n,
           \A i \in 1 .. n : s[i] \in Seq(Int) /\ s[i] # <<>>,
           NEW k \in DOMAIN per_run_aggregate(s)
    PROVE  Blank(per_run_aggregate(s)[k]) <=> k = "ci" /\ n < 3
<1>. DEFINE y == [i \in DOMAIN s |-> Interpolated(s[i], 990)]
<1>1. y \in [1 .. n -> Int]
  <2>1. 990 \in 0 .. Milli
    BY DEF Milli
  <2>2. ASSUME NEW i \in 1 .. n PROVE Interpolated(s[i], 990) \in Int
    BY <2>1, InterpolatedWithin
  <2>. QED BY <2>2
<1>2. PICK a : a = per_run_aggregate(s)
  OBVIOUS
<1>3. a = [n_runs |-> Len(y), mean |-> Total(y) \div Len(y), std |-> spread(y),
           ci |-> IF Len(y) >= 3 THEN spread(y) ELSE NaN]
  BY <1>2 DEF per_run_aggregate
<1>. HIDE DEF y
<1>4. y \in Seq(Int) /\ Len(y) = n
  BY <1>1, Listed
<1>5. PICK sp \in Int : sp = spread(y)
  BY <1>4, SpreadIs
<1>6. PICK me \in Int : me = Total(y) \div Len(y)
  BY <1>4, TotalInt
<1>7. a = [n_runs |-> n, mean |-> me, std |-> sp, ci |-> IF n >= 3 THEN sp ELSE NaN]
  BY <1>3, <1>4, <1>5, <1>6
<1>8. k # "ci" => a[k] \in Int
  BY <1>2, <1>7
<1>9. a["ci"] = IF n >= 3 THEN sp ELSE NaN
  BY <1>7
<1>10. (\A v \in Int : ~Blank(v)) /\ Blank(NaN)
  BY Numbers
<1>11. k # "ci" => ~Blank(a[k])
  BY <1>8, <1>10
<1>12. k = "ci" => (Blank(a[k]) <=> n < 3)
  BY <1>9, <1>10
<1>. QED BY <1>2, <1>11, <1>12

\* Every byte is under some DSCP.
LEMMA NothingUnder ==
    ASSUME NEW t \in Seq(-1 .. 255), t # <<>>
    PROVE  (\A v \in 0 .. 63 : Under6(t, v) = {}) <=> Range(t) = {-1}
<1>1. PICK n \in Nat \ {0} : DOMAIN t = 1 .. n /\ \A i \in 1 .. n : t[i] \in -1 .. 255
  <2>1. PICK V : V = -1 .. 255
    OBVIOUS
  <2>2. t \in Seq(V)
    BY <2>1
  <2>3. Len(t) \in Nat /\ DOMAIN t = 1 .. Len(t) /\ \A i \in 1 .. Len(t) : t[i] \in V
    BY <2>2
  <2>4. Len(t) # 0
    BY <2>2
  <2>. QED BY <2>1, <2>3, <2>4
<1>2. Range(t) = {t[i] : i \in 1 .. n} /\ 1 \in 1 .. n
  BY <1>1 DEF Range
<1>3. ASSUME Range(t) = {-1}, NEW v \in 0 .. 63 PROVE Under6(t, v) = {}
  <2>1. \A i \in 1 .. n : t[i] = -1
    BY <1>2, <1>3
  <2>2. -1 \notin (4 * v) .. (4 * v + 3)
    OBVIOUS
  <2>. QED BY <1>1, <2>1, <2>2 DEF Under6
<1>4. ASSUME \A v \in 0 .. 63 : Under6(t, v) = {} PROVE Range(t) = {-1}
  <2>1. ASSUME NEW i \in 1 .. n PROVE t[i] = -1
    <3>1. PICK u \in -1 .. 255 : u = t[i]
      BY <1>1
    <3>2. CASE u # -1
      <4>1. PICK v \in 0 .. 63 : u \in (4 * v) .. (4 * v + 3)
        <5>1. u \div 4 \in 0 .. 63 /\ u \in (4 * (u \div 4)) .. (4 * (u \div 4) + 3)
          BY <3>2
        <5>. QED BY <5>1
      <4>2. i \in Under6(t, v)
        BY <1>1, <3>1, <4>1 DEF Under6
      <4>. QED BY <1>4, <4>2
    <3>. QED BY <3>1, <3>2
  <2>. QED BY <1>2, <2>1
<1>. QED BY <1>3, <1>4

\* Some DSCP is the most frequent.
LEMMA ModesExist ==
    ASSUME NEW c, NEW rs, IsCell(c, rs), Found(rs) # {}
    PROVE  Modes(rs) # {}
<1>1. \A v \in 0 .. 63 : CountOf(rs, v) \in Nat
  BY CountsAre
<1>. DEFINE y == [i \in 1 .. 64 |-> CountOf(rs, i - 1)]
            T == {i \in 1 .. 64 : i - 1 \in Found(rs)}
<1>2. \A i \in 1 .. 64 : i - 1 \in 0 .. 63
  OBVIOUS
<1>3. y \in [1 .. 64 -> Int]
  BY <1>1, <1>2
<1>4. y \in Seq(Int) /\ DOMAIN y = 1 .. 64
  <2>1. PICK n \in Nat : n = 64
    OBVIOUS
  <2>2. y \in [1 .. n -> Int]
    BY <1>3, <2>1
  <2>. HIDE DEF y
  <2>. QED BY <2>1, <2>2, Listed
<1>5. \A v \in Found(rs) : v + 1 \in T /\ y[v + 1] = CountOf(rs, v)
  <2>1. ASSUME NEW v \in Found(rs) PROVE v + 1 \in T /\ y[v + 1] = CountOf(rs, v)
    <3>1. v \in 0 .. 63
      BY DEF Found
    <3>2. v + 1 \in 1 .. 64 /\ (v + 1) - 1 = v
      BY <3>1
    <3>. QED BY <3>2
  <2>. QED BY <2>1
<1>6. \A i \in T : i - 1 \in Found(rs) /\ y[i] = CountOf(rs, i - 1)
  OBVIOUS
<1>7. T \in SUBSET DOMAIN y /\ T # {}
  BY <1>4, <1>5
<1>. HIDE DEF y, T
<1>8. PICK i \in T : \A j \in T : y[j] <= y[i]
  BY <1>4, <1>7, Extremes
<1>9. PICK v : v = i - 1
  OBVIOUS
<1>10. v \in Found(rs) /\ y[i] = CountOf(rs, v)
  BY <1>6, <1>9
<1>11. \A w \in Found(rs) : CountOf(rs, w) <= CountOf(rs, v)
  BY <1>5, <1>8, <1>10
<1>12. v \in Modes(rs)
  BY <1>10, <1>11 DEF Modes
<1>. QED BY <1>12

\* The dominant DSCP is there when some row has a byte.
LEMMA DominantBlank ==
    ASSUME NEW c, NEW rs, IsCell(c, rs), NEW a, a = _aggregate_dscp(rs)
    PROVE  Blank(IF a = <<>> THEN None ELSE a.dominant) <=>
               \A k \in DOMAIN rs : rs[k].tos = None \/ Range(rs[k].tos) = {-1}
<1>1. CASE WithTos(rs) = {}
  <2>1. a = <<>>
    BY <1>1, DscpFields
  <2>2. \A k \in DOMAIN rs : rs[k].tos = None
    BY <1>1 DEF WithTos
  <2>. QED BY <2>1, <2>2, Numbers
<1>2. CASE WithTos(rs) # {}
  <2>1. a # <<>>
    BY <1>2, DscpTable
  <2>2. IF Modes(rs) = {} THEN a.dominant = None ELSE a.dominant \in Modes(rs)
    BY <1>2, CellDscp
  <2>3. Modes(rs) = {} <=> Found(rs) = {}
    BY ModesExist DEF Modes
  <2>4. \A v \in Modes(rs) : v \in Int
    BY DEF Modes, Found
  <2>5. Blank(a.dominant) <=> Found(rs) = {}
    BY <2>2, <2>3, <2>4, Numbers
  <2>6. Found(rs) = DscpsOf(rs)
    <3>1. a.dscp = [v \in Found(rs) |-> CountOf(rs, v)]
      BY <1>2, CellDscp
    <3>2. a.dscp = MergedDscps(rs)
      BY <1>2, DscpFields
    <3>3. DOMAIN a.dscp = Found(rs)
      BY <3>1
    <3>4. DOMAIN a.dscp = DscpsOf(rs)
      BY <3>2 DEF MergedDscps
    <3>. QED BY <3>3, <3>4
  <2>7. ASSUME NEW k \in WithTos(rs)
        PROVE  DOMAIN Dists(rs)[k].dscp = {} <=> Range(rs[k].tos) = {-1}
    <3>1. PICK t : t = rs[k].tos
      OBVIOUS
    <3>2. k \in 1 .. Len(rs) /\ t # None
      BY <3>1 DEF IsCell, WithTos
    <3>3. IsRun(rs[k])
      BY <3>2 DEF IsCell
    <3>4. t \in Seq(-1 .. 255) /\ Len(t) = Len(rs[k].seq) /\ rs[k].seq \in Seq(Nat)
          /\ rs[k].seq # <<>>
      BY <3>1, <3>2, <3>3 DEF IsRun
    <3>5. t # <<>>
      <4>1. Len(rs[k].seq) # 0
        BY <3>4
      <4>. QED BY <3>4, <4>1
    <3>6. IsDist(Dists(rs)[k], t)
      BY <3>1, CellDists
    <3>7. PICK D : D = DOMAIN Dists(rs)[k].dscp
      OBVIOUS
    <3>8. (\A v \in D : v \in 0 .. 63) /\ (\A v \in 0 .. 63 : v \in D <=> Under6(t, v) # {})
      BY <3>6, <3>7 DEF IsDist
    <3>9. D = {} <=> \A v \in 0 .. 63 : Under6(t, v) = {}
      BY <3>8
    <3>10. (\A v \in 0 .. 63 : Under6(t, v) = {}) <=> Range(t) = {-1}
      BY <3>4, <3>5, NothingUnder
    <3>. QED BY <3>1, <3>7, <3>9, <3>10
  <2>8. DscpsOf(rs) = {} <=> \A k \in WithTos(rs) : DOMAIN Dists(rs)[k].dscp = {}
    BY DEF DscpsOf
  <2>9. (\A k \in DOMAIN rs : rs[k].tos = None \/ Range(rs[k].tos) = {-1})
            <=> \A k \in WithTos(rs) : Range(rs[k].tos) = {-1}
    BY DEF WithTos
  <2>. QED BY <2>1, <2>5, <2>6, <2>7, <2>8, <2>9
<1>. QED BY <1>1, <1>2

\* There is no jitter when every run has one row.
LEMMA NoJitter ==
    ASSUME NEW c, NEW rs, IsCell(c, rs)
    PROVE  jitter_us(rs) = <<>> <=> \A k \in DOMAIN rs : Len(rs[k].seq) = 1
<1>1. PICK n \in Nat \ {0} : n = Len(rs) /\ DOMAIN rs = 1 .. n
  BY DEF IsCell
<1>2. PICK s : s = JitterSamples(rs)
  OBVIOUS
<1>3. Samples(s, n) /\ jitter_us(rs) = FlattenSeq(s)
  BY <1>1, <1>2, CellSamples
<1>4. PICK f : f = CountsIn(s, n, Int)
  OBVIOUS
<1>5. FlattenSeq(s) \in Seq(Int) /\ f \in Seq(Int) /\ Len(f) = n /\ Count(FlattenSeq(s), Int) = Total(f)
  BY <1>3, <1>4, FlattenCount
<1>6. Len(jitter_us(rs)) = Total(f)
  BY <1>3, <1>5, CountAll
<1>. DEFINE A == [k \in 1 .. n |-> 1 .. (Len(rs[k].seq) - 1)]
<1>7. ASSUME NEW k \in 1 .. n
      PROVE  /\ IsFiniteSet(A[k]) /\ f[k] = Cardinality(A[k])
             /\ A[k] = {} <=> Len(rs[k].seq) = 1
  <2>1. PICK j : j = rs[k].jitter_us
    OBVIOUS
  <2>2. /\ j \in Seq(Int) /\ Len(j) = Len(rs[k].seq) /\ rs[k].seq \in Seq(Nat) /\ rs[k].seq # <<>>
    BY <1>1, <2>1 DEF IsCell, IsRun
  <2>3. PICK m \in Nat : m = Len(j) - 1 /\ m + 1 = Len(rs[k].seq)
    <3>1. Len(rs[k].seq) \in Nat \ {0}
      BY <2>2
    <3>2. Len(j) - 1 \in Nat /\ (Len(j) - 1) + 1 = Len(j)
      BY <2>2, <3>1
    <3>. QED BY <2>2, <3>2
  <2>4. j # <<>>
    BY <2>2, <2>3
  <2>5. s[k] = jitter_values(j) /\ s[k] \in Seq(Int) /\ Len(s[k]) = m
    <3>1. s[k] = jitter_values(j)
      BY <1>1, <1>2, <2>1 DEF JitterSamples
    <3>. QED BY <2>2, <2>3, <2>4, <3>1, JitterValues
  <2>6. f[k] = m
    BY <1>4, <2>5, CountAll DEF CountsIn
  <2>7. A[k] = 1 .. m
    <3>1. Len(rs[k].seq) - 1 = m
      BY <2>3
    <3>. QED BY <3>1
  <2>8. 1 .. m = {} <=> m = 0
    <3>1. m # 0 => 1 \in 1 .. m
      OBVIOUS
    <3>. QED BY <3>1
  <2>9. m = 0 <=> Len(rs[k].seq) = 1
    <3>1. m = 0 <=> m + 1 = 1
      OBVIOUS
    <3>. QED BY <2>3, <3>1
  <2>. QED BY <2>6, <2>7, <2>8, <2>9, FirstPlaces
<1>. HIDE DEF A
<1>8. Sizes(f, A)
  BY <1>5, <1>7 DEF Sizes
<1>9. IsFiniteSet(Tagged(A, n)) /\ Total(f) = Cardinality(Tagged(A, n))
  BY <1>5, <1>8, SumUnion
<1>10. Tagged(A, n) = {} <=> \A k \in 1 .. n : A[k] = {}
  <2>1. ASSUME NEW k \in 1 .. n, Tagged(A, n) = {} PROVE A[k] = {}
    <3>1. \A e \in A[k] : <<k, e>> \in Tagged(A, n)
      BY DEF Tagged
    <3>. QED BY <2>1, <3>1
  <2>2. ASSUME \A k \in 1 .. n : A[k] = {} PROVE Tagged(A, n) = {}
    BY <2>2 DEF Tagged
  <2>. QED BY <2>1, <2>2
<1>11. Cardinality(Tagged(A, n)) = 0 <=> Tagged(A, n) = {}
  BY <1>9, FS_EmptySet
<1>12. jitter_us(rs) = <<>> <=> Len(jitter_us(rs)) = 0
  BY <1>3, <1>5
<1>. QED BY <1>1, <1>6, <1>7, <1>9, <1>10, <1>11, <1>12

\* There is always a latency.
LEMMA SomeLatency ==
    ASSUME NEW c, NEW rs, IsCell(c, rs)
    PROVE  latency_ms(rs) # <<>> /\ Len(latency_ms(rs)) \in Nat \ {0}
<1>1. PICK n \in Nat \ {0} : n = Len(rs) /\ DOMAIN rs = 1 .. n
  BY DEF IsCell
<1>2. PICK f : f = RowCounts(rs)
  OBVIOUS
<1>3. f \in Seq(Int) /\ Len(f) = n /\ Len(latency_ms(rs)) = Total(f) /\ latency_ms(rs) \in Seq(Int)
  BY <1>1, <1>2, PooledLengths
<1>4. \A k \in 1 .. n : 1 <= f[k]
  <2>1. ASSUME NEW k \in 1 .. n PROVE 1 <= f[k]
    <3>1. rs[k].seq \in Seq(Nat) /\ rs[k].seq # <<>>
      BY <1>1 DEF IsCell, IsRun
    <3>2. f[k] = Len(rs[k].seq)
      BY <1>1, <1>2 DEF RowCounts
    <3>3. Len(rs[k].seq) \in Nat \ {0}
      BY <3>1
    <3>. QED BY <3>2, <3>3
  <2>. QED BY <2>1
<1>5. Total(f) \in Int /\ Len(f) * 1 <= Total(f)
  <2>1. f # <<>>
    BY <1>3
  <2>. QED BY <1>3, <1>4, <2>1, TotalAtLeast
<1>6. Total(f) \in Nat \ {0}
  BY <1>3, <1>5
<1>. QED BY <1>3, <1>6

\* What a comparison of two samples cannot say.
LEMMA CompareBlanks ==
    ASSUME NEW a \in Seq(Int), NEW e \in Seq(Int), NEW stat \in DOMAIN Quantiles, NEW r,
           r = compare(a, e, stat), NEW k \in DOMAIN r
    PROVE  /\ k \in {"baseline", "proposed", "improvement", "u", "delta"}
           /\ k = "baseline" => (Blank(r[k]) <=> a = <<>>)
           /\ k = "proposed" => (Blank(r[k]) <=> e = <<>>)
           /\ k = "improvement" => (Blank(r[k]) <=> a = <<>> \/ e = <<>> \/ r.baseline = 0)
           /\ k \in {"u", "delta"} => (Blank(r[k]) <=> a = <<>> \/ e = <<>>)
<1>1. DOMAIN r = {"baseline", "proposed", "improvement", "u", "delta"}
  BY DEF compare
<1>2. PICK va, ve : va = Point(stat, a) /\ ve = Point(stat, e)
  OBVIOUS
<1>3. /\ r["baseline"] = va /\ r["proposed"] = ve /\ r["improvement"] = improvement(va, ve)
      /\ r["u"] = mann_whitney(a, e) /\ r["delta"] = cliffs_delta(a, e)
  BY <1>2 DEF compare
<1>4. ASSUME NEW y \in Seq(Int), y # <<>> PROVE Point(stat, y) \in Int
  <2>1. stat \in Statistics /\ stat # "std"
    BY QuantilesAssumption DEF Statistics
  <2>2. Len(y) >= Needs(stat)
    BY <1>4, <2>1, NotEmpty DEF Needs
  <2>. QED BY <1>4, <2>1, <2>2, StatisticWithin DEF Point, InRange
<1>5. /\ a = <<>> => va = NaN
      /\ e = <<>> => ve = NaN
  BY <1>2 DEF Point
<1>6. (a # <<>> => va \in Int) /\ (e # <<>> => ve \in Int)
  BY <1>2, <1>4
<1>7. /\ (a = <<>> <=> va = NaN) /\ (e = <<>> <=> ve = NaN)
      /\ (Blank(va) <=> a = <<>>) /\ (Blank(ve) <=> e = <<>>)
  BY <1>5, <1>6, NaNAssumption, Numbers
<1>8. Blank(improvement(va, ve)) <=> a = <<>> \/ e = <<>> \/ va = 0
  <2>1. CASE a = <<>> \/ e = <<>> \/ va = 0
    BY <1>5, <2>1, Numbers DEF improvement
  <2>2. CASE a # <<>> /\ e # <<>> /\ va # 0
    <3>1. va \in Int /\ ve \in Int /\ va # NaN /\ ve # NaN
      BY <1>6, <1>7, <2>2
    <3>2. 100 * (va - ve) \in Int /\ -va \in Int
      BY <3>1
    <3>3. improvement(va, ve) \in [num : Int, den : Int]
      BY <2>2, <3>1, <3>2 DEF improvement
    <3>. QED BY <2>2, <3>3, Numbers
  <2>. QED BY <2>1, <2>2
<1>9. Blank(mann_whitney(a, e)) <=> a = <<>> \/ e = <<>>
  <2>1. CASE a = <<>> \/ e = <<>>
    BY <2>1, Numbers DEF mann_whitney
  <2>2. CASE a # <<>> /\ e # <<>>
    <3>1. mann_whitney(a, e) = Above(a, e) - Above(e, a) + Len(a) * Len(e)
      BY <2>2, UPairs
    <3>2. PICK i \in Int, j \in Int : i = Above(a, e) /\ j = Above(e, a)
      BY <2>2, DeltaPairs
    <3>3. PICK m \in Nat, n \in Nat : m = Len(a) /\ n = Len(e)
      OBVIOUS
    <3>4. i - j + m * n \in Int
      OBVIOUS
    <3>5. mann_whitney(a, e) \in Int
      BY <3>1, <3>2, <3>3, <3>4
    <3>. QED BY <2>2, <3>5, Numbers
  <2>. QED BY <2>1, <2>2
<1>10. Blank(cliffs_delta(a, e)) <=> a = <<>> \/ e = <<>>
  <2>1. CASE a = <<>> \/ e = <<>>
    BY <2>1, Numbers DEF cliffs_delta
  <2>2. CASE a # <<>> /\ e # <<>>
    <3>1. cliffs_delta(a, e) = [num |-> Above(a, e) - Above(e, a), den |-> Len(a) * Len(e)]
      BY <2>2, DeltaPairs
    <3>2. PICK i \in Int, j \in Int : i = Above(a, e) /\ j = Above(e, a)
      BY <2>2, DeltaPairs
    <3>3. PICK m \in Nat, n \in Nat : m = Len(a) /\ n = Len(e)
      OBVIOUS
    <3>4. i - j \in Int /\ m * n \in Int
      OBVIOUS
    <3>5. cliffs_delta(a, e) \in [num : Int, den : Int]
      BY <3>1, <3>2, <3>3, <3>4
    <3>. QED BY <2>2, <3>5, Numbers
  <2>. QED BY <2>1, <2>2
<1>. QED BY <1>1, <1>3, <1>7, <1>8, <1>9, <1>10

-----------------------------------------------------------------------------
(* Nulls *)

\* The pieces of a path into a summary.
LEMMA Paths ==
    ASSUME NEW a, NEW e, NEW k
    PROVE  LET at == <<a, e>> \o <<k>>
           IN  Len(at) = 3 /\ at[1] = a /\ at[2] = e /\ Last(at) = k
BY DEF Last

\* There is no jitter in cell c.
NoJitters(c) == \A k \in DOMAIN cells[c] : Len(cells[c][k].seq) = 1

\* What Undefined() says of a path into a summary.
LEMMA UndefinedCell ==
    ASSUME NEW at, Len(at) = 3, NEW k, k = Last(at), NEW rs, rs = cells[at[1]],
           NEW n, n = Total(RowCounts(rs)), NEW m, m = at[2]
    PROVE  /\ Undefined(at) \in BOOLEAN
           /\ m = "latency" => (Undefined(at) <=> k = "std" /\ n = 1)
           /\ m = "jitter" => (Undefined(at) <=> k # "n" /\ (n - Len(rs) = 0
                                                               \/ (k = "std" /\ n - Len(rs) = 1)))
           /\ m = "dscp" => (Undefined(at) <=>
                 \A i \in DOMAIN rs : rs[i].tos = None \/ Range(rs[i].tos) = {-1})
           /\ m \notin {"latency", "jitter", "dscp"} => (Undefined(at) <=> k = "ci" /\ Len(rs) < 3)
<1>1. CASE m = "latency"
  BY <1>1 DEF Undefined, RowCounts
<1>2. CASE m = "jitter"
  BY <1>2 DEF Undefined, RowCounts
<1>3. CASE m = "dscp"
  BY <1>3 DEF Undefined, RowCounts
<1>4. CASE m \notin {"latency", "jitter", "dscp"}
  <2>1. at[2] # "latency" /\ at[2] # "jitter" /\ at[2] # "dscp" /\ Len(at) # 4
    BY <1>4
  <2>2. Undefined(at) = (Last(at) = "ci" /\ Len(cells[at[1]]) < 3)
    BY <2>1 DEF Undefined
  <2>. QED BY <1>4, <2>2
<1>. QED BY <1>1, <1>2, <1>3, <1>4

\* And of one into a comparison.
LEMMA UndefinedComparison ==
    ASSUME NEW at, Len(at) = 4, NEW k, k = Last(at), NEW m, m = at[2], NEW c, c = at[1],
           NEW d, d = at[3], m \in {"latency_p50", "latency_p99", "jitter_p99"},
           NEW w, w = CHOOSE e \in Range(comparisons) : e.condition = c
    PROVE  /\ Undefined(at) \in BOOLEAN
           /\ k = "baseline" => (Undefined(at) <=> m = "jitter_p99" /\ NoJitters(d))
           /\ k = "proposed" => (Undefined(at) <=> m = "jitter_p99" /\ NoJitters(c))
           /\ k = "improvement" =>
                 (Undefined(at) <=> \/ m = "jitter_p99" /\ (NoJitters(c) \/ NoJitters(d))
                                    \/ w.metrics[m].baseline = 0)
           /\ k \in {"u", "delta"} =>
                 (Undefined(at) <=> m = "jitter_p99" /\ (NoJitters(c) \/ NoJitters(d)))
<1>1. CASE k = "baseline"
  BY <1>1 DEF Undefined, NoJitters
<1>2. CASE k = "proposed"
  BY <1>2 DEF Undefined, NoJitters
<1>3. CASE k = "improvement"
  BY <1>3 DEF Undefined, NoJitters
<1>4. CASE k \notin {"baseline", "proposed", "improvement"}
  BY <1>4 DEF Undefined, NoJitters
<1>. QED BY <1>1, <1>2, <1>3, <1>4

\* A leaf is blank where the data cannot answer, and only there.
Explained(l) == Undefined(l.at) \in BOOLEAN /\ (Blank(l.v) <=> Undefined(l.at))

\* Leaf l shows field k of table r, which is at path.
Shows(l, path, r, k) == k \in DOMAIN r /\ l.at = path \o <<k>> /\ l.v = r[k]

\* A leaf under a table shows a field of it.
LEMMA LeafUnder ==
    ASSUME NEW path, NEW r, NEW l \in Under(path, r)
    PROVE  \E k : Shows(l, path, r, k)
<1>1. PICK k \in DOMAIN r : l = [at |-> path \o <<k>>, v |-> r[k]]
  BY DEF Under
<1>2. PICK at : at = path \o <<k>>
  OBVIOUS
<1>3. l.at = at /\ l.v = r[k]
  BY <1>1, <1>2
<1>. QED BY <1>2, <1>3 DEF Shows

\* Nulls in a distribution.
LEMMA DistributionNulls ==
    ASSUME DataInv, NEW c \in DOMAIN cells, NEW rs, rs = cells[c], NEW m, NEW y, NEW l,
           \/ m = "latency" /\ y = latency_ms(rs)
           \/ m = "jitter" /\ y = jitter_us(rs),
           l \in Under(<<c, m>>, distribution_summary(y))
    PROVE  Explained(l)
<1>1. IsCell(c, rs)
  BY CellsFacts
<1>2. PICK k \in DOMAIN distribution_summary(y) :
          l.at = <<c, m>> \o <<k>> /\ l.v = distribution_summary(y)[k]
  <2>1. PICK path, r : path = <<c, m>> /\ r = distribution_summary(y)
    OBVIOUS
  <2>2. l \in Under(path, r)
    BY <2>1
  <2>3. PICK k : Shows(l, path, r, k)
    BY <2>2, LeafUnder
  <2>. QED BY <2>1, <2>3 DEF Shows
<1>3. PICK at : at = l.at
  OBVIOUS
<1>4. Len(at) = 3 /\ at[1] = c /\ at[2] = m /\ Last(at) = k
  BY <1>2, <1>3, Paths
<1>5. PICK n : n = Total(RowCounts(rs))
  OBVIOUS
<1>6. /\ Undefined(at) \in BOOLEAN
      /\ m = "latency" => (Undefined(at) <=> k = "std" /\ n = 1)
      /\ m = "jitter" => (Undefined(at) <=> k # "n" /\ (n - Len(rs) = 0
                                                          \/ (k = "std" /\ n - Len(rs) = 1)))
  BY <1>4, <1>5, UndefinedCell
<1>7. /\ latency_ms(rs) \in Seq(Int) /\ jitter_us(rs) \in Seq(Int)
      /\ Len(latency_ms(rs)) = n /\ Len(jitter_us(rs)) = n - Len(rs) /\ n # 0
  BY <1>1, <1>5, PooledLengths, SomeLatency
<1>8. Blank(l.v) <=> k # "n" /\ (Len(y) = 0 \/ (k = "std" /\ Len(y) = 1))
  BY <1>2, <1>7, DistributionBlanks
<1>9. CASE m = "latency"
  <2>1. Len(y) = n
    BY <1>7, <1>9
  <2>2. Blank(l.v) <=> Undefined(at)
    BY <1>6, <1>7, <1>8, <1>9, <2>1
  <2>. QED BY <1>3, <1>6, <2>2 DEF Explained
<1>10. CASE m = "jitter"
  <2>1. Len(y) = n - Len(rs)
    BY <1>7, <1>10
  <2>2. Blank(l.v) <=> Undefined(at)
    BY <1>6, <1>8, <1>10, <2>1
  <2>. QED BY <1>3, <1>6, <2>2 DEF Explained
<1>. QED BY <1>9, <1>10

\* There are none in the loss.
LEMMA LossNulls ==
    ASSUME DataInv, NEW c \in DOMAIN cells, NEW l \in Under(<<c, "loss">>, _aggregate_loss(cells[c]))
    PROVE  Explained(l)
<1>1. PICK rs : rs = cells[c] /\ IsCell(c, rs)
  BY CellsFacts
<1>2. PICK k \in DOMAIN _aggregate_loss(rs) :
          l.at = <<c, "loss">> \o <<k>> /\ l.v = _aggregate_loss(rs)[k]
  <2>1. PICK path, r : path = <<c, "loss">> /\ r = _aggregate_loss(rs)
    OBVIOUS
  <2>2. l \in Under(path, r)
    BY <1>1, <2>1
  <2>3. PICK k : Shows(l, path, r, k)
    BY <2>2, LeafUnder
  <2>. QED BY <2>1, <2>3 DEF Shows
<1>3. PICK at : at = l.at
  OBVIOUS
<1>4. Len(at) = 3 /\ at[1] = c /\ at[2] = "loss" /\ Last(at) = k
  BY <1>2, <1>3, Paths
<1>5. ~Blank(l.v) /\ k # "ci"
  BY <1>1, <1>2, LossBlanks
<1>6. Undefined(at) \in BOOLEAN /\ (Undefined(at) <=> k = "ci" /\ Len(rs) < 3)
  BY <1>1, <1>4, UndefinedCell
<1>. QED BY <1>3, <1>5, <1>6 DEF Explained

\* Nulls in what is aggregated over runs.
LEMMA PerRunNulls ==
    ASSUME DataInv, NEW c \in DOMAIN cells, ~CellRaises(cells[c]), NEW rs, rs = cells[c],
           Len(rs) > 1, NEW m, NEW s, NEW l,
           \/ m = "latency_p99" /\ s = [i \in DOMAIN rs |-> rs[i].latency_ms]
           \/ m = "jitter_p99" /\ s = JitterSamples(rs),
           l \in Under(<<c, m>>, per_run_aggregate(s))
    PROVE  Explained(l)
<1>1. IsCell(c, rs)
  BY CellsFacts
<1>2. PICK k \in DOMAIN per_run_aggregate(s) :
          l.at = <<c, m>> \o <<k>> /\ l.v = per_run_aggregate(s)[k]
  <2>1. PICK path, r : path = <<c, m>> /\ r = per_run_aggregate(s)
    OBVIOUS
  <2>2. l \in Under(path, r)
    BY <2>1
  <2>3. PICK k : Shows(l, path, r, k)
    BY <2>2, LeafUnder
  <2>. QED BY <2>1, <2>3 DEF Shows
<1>3. PICK at : at = l.at
  OBVIOUS
<1>4. Len(at) = 3 /\ at[1] = c /\ at[2] = m /\ Last(at) = k
  BY <1>2, <1>3, Paths
<1>5. PICK n \in Nat : n = Len(rs) /\ n >= 2 /\ DOMAIN rs = 1 .. n
  <2>1. Len(rs) \in Nat /\ DOMAIN rs = 1 .. Len(rs)
    BY <1>1 DEF IsCell
  <2>2. Len(rs) >= 2
    BY <2>1
  <2>. QED BY <2>1, <2>2
<1>6. DOMAIN s = 1 .. n /\ \A i \in 1 .. n : s[i] \in Seq(Int) /\ s[i] # <<>>
  <2>1. CASE m = "latency_p99"
    <3>1. s = [i \in 1 .. n |-> rs[i].latency_ms]
      BY <1>5, <2>1
    <3>2. ASSUME NEW i \in 1 .. n PROVE rs[i].latency_ms \in Seq(Int) /\ rs[i].latency_ms # <<>>
      <4>1. PICK y, q : y = rs[i].latency_ms /\ q = rs[i].seq
        OBVIOUS
      <4>2. y \in Seq(Int) /\ Len(y) = Len(q) /\ q \in Seq(Nat) /\ q # <<>>
        BY <1>1, <1>5, <4>1 DEF IsCell, IsRun
      <4>3. Len(q) # 0
        BY <4>2
      <4>. QED BY <4>1, <4>2, <4>3
    <3>. QED BY <3>1, <3>2
  <2>2. CASE m = "jitter_p99"
    <3>1. s = JitterSamples(rs)
      BY <2>2
    <3>2. Samples(s, n)
      BY <1>1, <1>5, <3>1, CellSamples
    <3>3. ~RaisesIndexError(s)
      BY <3>1, <1>5 DEF CellRaises
    <3>4. DOMAIN s = 1 .. n /\ \A i \in 1 .. n : s[i] \in Seq(Int)
      BY <1>5, <3>1, <3>2 DEF Samples, JitterSamples
    <3>5. \A i \in DOMAIN s : s[i] # <<>>
      BY <3>3 DEF RaisesIndexError
    <3>. QED BY <3>4, <3>5
  <2>. QED BY <2>1, <2>2
<1>7. Blank(l.v) <=> k = "ci" /\ n < 3
  BY <1>2, <1>5, <1>6, PerRunBlanks
<1>8. Undefined(at) \in BOOLEAN /\ (Undefined(at) <=> k = "ci" /\ Len(rs) < 3)
  <2>1. m \notin {"latency", "jitter", "dscp"}
    OBVIOUS
  <2>. QED BY <1>4, <2>1, UndefinedCell
<1>. QED BY <1>3, <1>5, <1>7, <1>8 DEF Explained

\* The null for a dominant DSCP.
LEMMA DominantNull ==
    ASSUME DataInv, NEW c \in DOMAIN cells, NEW rs, rs = cells[c], NEW a, a = _aggregate_dscp(rs),
           NEW l, l = [at |-> <<c, "dscp", "dominant">>,
                       v |-> IF a = <<>> THEN None ELSE a.dominant]
    PROVE  Explained(l)
<1>1. IsCell(c, rs)
  BY CellsFacts
<1>2. PICK at : at = l.at /\ at = <<c, "dscp", "dominant">>
  OBVIOUS
<1>3. Len(at) = 3 /\ at[1] = c /\ at[2] = "dscp" /\ Last(at) = "dominant"
  BY <1>2 DEF Last
<1>4. /\ Undefined(at) \in BOOLEAN
      /\ Undefined(at) <=> \A i \in DOMAIN rs : rs[i].tos = None \/ Range(rs[i].tos) = {-1}
  BY <1>3, UndefinedCell, ZenonT(60)
<1>5. Blank(IF a = <<>> THEN None ELSE a.dominant) <=>
          \A k \in DOMAIN rs : rs[k].tos = None \/ Range(rs[k].tos) = {-1}
  BY <1>1, DominantBlank
<1>6. l.v = IF a = <<>> THEN None ELSE a.dominant
  OBVIOUS
<1>. QED BY <1>2, <1>4, <1>5, <1>6 DEF Explained

\* Nulls in a summary.
LEMMA CellNulls ==
    ASSUME DataInv, NEW c \in DOMAIN cells, ~CellRaises(cells[c]), NEW s,
           s = cell_summary(c, cells[c]), NEW l \in CellLeaves(s)
    PROVE  Explained(l)
<1>1. PICK rs : rs = cells[c] /\ IsCell(c, rs)
  BY CellsFacts
<1>2. /\ s.condition = c
      /\ s.latency = distribution_summary(latency_ms(rs))
      /\ s.jitter = distribution_summary(jitter_us(rs))
      /\ s.loss = _aggregate_loss(rs) /\ s.dscp = _aggregate_dscp(rs)
      /\ s.per_run = IF Len(rs) <= 1 THEN <<>>
                     ELSE [latency_p99 |-> per_run_aggregate([i \in DOMAIN rs |-> rs[i].latency_ms]),
                           jitter_p99  |-> per_run_aggregate(JitterSamples(rs))]
  BY <1>1, SummaryFields
<1>3. \/ l \in Under(<<c, "latency">>, s.latency) \/ l \in Under(<<c, "jitter">>, s.jitter)
      \/ l \in Under(<<c, "loss">>, s.loss)
      \/ \E m \in DOMAIN s.per_run : l \in Under(<<c, m>>, s.per_run[m])
      \/ l = [at |-> <<c, "dscp", "dominant">>,
              v |-> IF s.dscp = <<>> THEN None ELSE s.dscp.dominant]
  <2>1. PICK e : e = s.condition
    OBVIOUS
  <2>2. PICK A, B, L, D, F :
            /\ A = Under(<<e, "latency">>, s.latency) /\ B = Under(<<e, "jitter">>, s.jitter)
            /\ L = Under(<<e, "loss">>, s.loss)
            /\ D = UNION {Under(<<e, m>>, s.per_run[m]) : m \in DOMAIN s.per_run}
            /\ F = [at |-> <<e, "dscp", "dominant">>,
                    v |-> IF s.dscp = <<>> THEN None ELSE s.dscp.dominant]
    OBVIOUS
  <2>3. l \in A \cup B \cup L \cup D \cup {F}
    BY <2>1, <2>2 DEF CellLeaves
  <2>4. l \in D => \E m \in DOMAIN s.per_run : l \in Under(<<e, m>>, s.per_run[m])
    BY <2>2
  <2>5. e = c
    BY <1>2, <2>1
  <2>. QED BY <2>2, <2>3, <2>4, <2>5
<1>4. CASE l \in Under(<<c, "latency">>, s.latency)
  BY <1>1, <1>2, <1>4, DistributionNulls
<1>5. CASE l \in Under(<<c, "jitter">>, s.jitter)
  BY <1>1, <1>2, <1>5, DistributionNulls
<1>6. CASE l \in Under(<<c, "loss">>, s.loss)
  BY <1>1, <1>2, <1>6, LossNulls
<1>7. CASE \E m \in DOMAIN s.per_run : l \in Under(<<c, m>>, s.per_run[m])
  <2>1. PICK m \in DOMAIN s.per_run : l \in Under(<<c, m>>, s.per_run[m])
    BY <1>7
  <2>2. DOMAIN s.per_run # {}
    BY <2>1
  <2>3. Len(rs) > 1
    <3>1. Len(rs) \in Nat
      BY <1>1 DEF IsCell
    <3>2. Len(rs) <= 1 => s.per_run = <<>>
      BY <1>2
    <3>. QED BY <2>2, <3>1, <3>2, NoFiles
  <2>4. PICK s1, s2 : s1 = [i \in DOMAIN rs |-> rs[i].latency_ms] /\ s2 = JitterSamples(rs)
    OBVIOUS
  <2>5. ~(Len(rs) <= 1)
    BY <1>1, <2>3 DEF IsCell
  <2>6. s.per_run = [latency_p99 |-> per_run_aggregate(s1), jitter_p99 |-> per_run_aggregate(s2)]
    BY <1>2, <2>4, <2>5
  <2>7. \/ m = "latency_p99" /\ s.per_run[m] = per_run_aggregate(s1)
        \/ m = "jitter_p99" /\ s.per_run[m] = per_run_aggregate(s2)
    BY <2>6
  <2>8. CASE m = "latency_p99"
    <3>1. l \in Under(<<c, m>>, per_run_aggregate(s1))
      BY <2>1, <2>7, <2>8
    <3>. QED BY <1>1, <2>3, <2>4, <2>8, <3>1, PerRunNulls
  <2>9. CASE m = "jitter_p99"
    <3>1. l \in Under(<<c, m>>, per_run_aggregate(s2))
      BY <2>1, <2>7, <2>9
    <3>. QED BY <1>1, <2>3, <2>4, <2>9, <3>1, PerRunNulls
  <2>. QED BY <2>7, <2>8, <2>9
<1>8. CASE l = [at |-> <<c, "dscp", "dominant">>,
                v |-> IF s.dscp = <<>> THEN None ELSE s.dscp.dominant]
  BY <1>1, <1>2, <1>8, DominantNull
<1>. QED BY <1>3, <1>4, <1>5, <1>6, <1>7, <1>8

\* Nulls in one comparison of two samples of cells.
LEMMA MetricNulls ==
    ASSUME DataInv, NEW c \in DOMAIN cells, NEW d \in DOMAIN cells, NEW m, NEW stat \in DOMAIN Quantiles,
           NEW a, NEW e, NEW r, r = compare(a, e, stat), NEW l \in Under(<<c, m, d>>, r),
           \/ m \in {"latency_p50", "latency_p99"} /\ a = latency_ms(cells[d]) /\ e = latency_ms(cells[c])
           \/ m = "jitter_p99" /\ a = jitter_us(cells[d]) /\ e = jitter_us(cells[c]),
           (CHOOSE w \in Range(comparisons) : w.condition = c).metrics[m] = r
    PROVE  Explained(l)
<1>1. IsCell(c, cells[c]) /\ IsCell(d, cells[d])
  BY CellsFacts
<1>2. PICK k : Shows(l, <<c, m, d>>, r, k)
  <2>1. PICK path : path = <<c, m, d>>
    OBVIOUS
  <2>2. l \in Under(path, r)
    BY <2>1
  <2>3. PICK k : Shows(l, path, r, k)
    BY <2>2, LeafUnder
  <2>. QED BY <2>1, <2>3
<1>3. PICK at : at = l.at
  OBVIOUS
<1>4. k \in DOMAIN r /\ l.v = r[k] /\ at = <<c, m, d>> \o <<k>>
  BY <1>2, <1>3 DEF Shows
<1>5. Len(at) = 4 /\ at[1] = c /\ at[2] = m /\ at[3] = d /\ Last(at) = k
  BY <1>4 DEF Last
<1>6. a \in Seq(Int) /\ e \in Seq(Int)
  BY <1>1, PooledLengths
<1>7. /\ k \in {"baseline", "proposed", "improvement", "u", "delta"}
      /\ k = "baseline" => (Blank(r[k]) <=> a = <<>>)
      /\ k = "proposed" => (Blank(r[k]) <=> e = <<>>)
      /\ k = "improvement" => (Blank(r[k]) <=> a = <<>> \/ e = <<>> \/ r.baseline = 0)
      /\ k \in {"u", "delta"} => (Blank(r[k]) <=> a = <<>> \/ e = <<>>)
  BY <1>4, <1>6, CompareBlanks
<1>8. PICK w : w = CHOOSE f \in Range(comparisons) : f.condition = c
  OBVIOUS
<1>9. w.metrics[m] = r
  BY <1>8
<1>10. m \in {"latency_p50", "latency_p99", "jitter_p99"}
  OBVIOUS
<1>11. /\ Undefined(at) \in BOOLEAN
       /\ k = "baseline" => (Undefined(at) <=> m = "jitter_p99" /\ NoJitters(d))
       /\ k = "proposed" => (Undefined(at) <=> m = "jitter_p99" /\ NoJitters(c))
       /\ k = "improvement" =>
             (Undefined(at) <=> \/ m = "jitter_p99" /\ (NoJitters(c) \/ NoJitters(d))
                                \/ w.metrics[m].baseline = 0)
       /\ k \in {"u", "delta"} =>
             (Undefined(at) <=> m = "jitter_p99" /\ (NoJitters(c) \/ NoJitters(d)))
  BY <1>5, <1>8, <1>10, UndefinedComparison
<1>12. /\ a = <<>> <=> m = "jitter_p99" /\ NoJitters(d)
       /\ e = <<>> <=> m = "jitter_p99" /\ NoJitters(c)
  <2>1. CASE m = "jitter_p99"
    <3>1. a = jitter_us(cells[d]) /\ e = jitter_us(cells[c])
      BY <2>1
    <3>. QED BY <1>1, <2>1, <3>1, NoJitter DEF NoJitters
  <2>2. CASE m # "jitter_p99"
    <3>1. a = latency_ms(cells[d]) /\ e = latency_ms(cells[c])
      BY <2>2
    <3>. QED BY <1>1, <2>2, <3>1, SomeLatency
  <2>. QED BY <2>1, <2>2
<1>13. Blank(r[k]) <=> Undefined(at)
  BY <1>7, <1>9, <1>11, <1>12
<1>. QED BY <1>3, <1>4, <1>11, <1>13 DEF Explained

\* The metrics that conditions are compared in.
LEMMA MetricsOf ==
    ASSUME NEW a, NEW e, NEW m \in DOMAIN compare_cells(a, e)
    PROVE  LET r == compare_cells(a, e)[m]
           IN  \/ m = "latency_p50" /\ r = compare(latency_ms(a), latency_ms(e), "p50")
               \/ m = "latency_p99" /\ r = compare(latency_ms(a), latency_ms(e), "p99")
               \/ m = "jitter_p99" /\ r = compare(jitter_us(a), jitter_us(e), "p99")
<1>1. PICK x1, x2, x3 : /\ x1 = compare(latency_ms(a), latency_ms(e), "p50")
                        /\ x2 = compare(latency_ms(a), latency_ms(e), "p99")
                        /\ x3 = compare(jitter_us(a), jitter_us(e), "p99")
  OBVIOUS
<1>2. compare_cells(a, e) = [latency_p50 |-> x1, latency_p99 |-> x2, jitter_p99 |-> x3]
  BY <1>1 DEF compare_cells
<1>. QED BY <1>1, <1>2

\* There is one comparison per condition.
LEMMA TheComparison ==
    ASSUME ReportInv, Complete, NEW w \in Range(comparisons)
    PROVE  /\ \E c \in DOMAIN cells \ {base} : w = ComparisonOf(c)
           /\ w = CHOOSE f \in Range(comparisons) : f.condition = w.condition
<1>1. PICK V : V = Comparisons
  OBVIOUS
<1>2. Reporting
  BY DEF Complete, Reporting
<1>3. comparisons \in Seq(V)
  BY <1>1, <1>2 DEF ReportInv, ComparisonsInv
<1>4. \A f \in Range(comparisons) : f \in V
  BY <1>3 DEF Range
<1>5. \A f \in Range(comparisons) : f = ComparisonOf(f.condition)
  <2>1. ASSUME NEW f \in Range(comparisons) PROVE f = ComparisonOf(f.condition)
    <3>1. PICK c \in DOMAIN cells \ {base} : f = ComparisonOf(c)
      BY <1>1, <1>4 DEF Comparisons
    <3>2. f.condition = c
      BY <3>1 DEF ComparisonOf
    <3>. QED BY <3>1, <3>2
  <2>. QED BY <2>1
<1>6. PICK g : g = CHOOSE f \in Range(comparisons) : f.condition = w.condition
  OBVIOUS
<1>7. g \in Range(comparisons) /\ g.condition = w.condition
  BY <1>6
<1>8. g = w
  BY <1>5, <1>7
<1>. QED BY <1>1, <1>4, <1>6, <1>8 DEF Comparisons

\* Nulls in the comparisons.
LEMMA ComparisonNulls ==
    ASSUME DataInv, ReportInv, Complete, NEW w \in Range(comparisons), NEW l \in ComparisonLeaves(w)
    PROVE  Explained(l)
<1>1. PICK c \in DOMAIN cells \ {base} : w = ComparisonOf(c)
  BY TheComparison
<1>2. PICK x1 : x1 = compare_cells(cells[base], cells[c])
  OBVIOUS
<1>3. w.condition = c /\ w.metrics = x1
  BY <1>1, <1>2 DEF ComparisonOf
<1>4. base \in DOMAIN cells
  <2>1. Chosen
    BY DEF ReportInv, BaseInv, Complete, Reporting
  <2>. QED BY <2>1, ChosenIs
<1>5. PICK m \in DOMAIN w.metrics : l \in Under(<<w.condition, m, base>>, w.metrics[m])
  BY DEF ComparisonLeaves
<1>6. PICK r : r = x1[m]
  OBVIOUS
<1>7. l \in Under(<<c, m, base>>, r) /\ m \in DOMAIN x1
  BY <1>3, <1>5, <1>6
<1>8. \/ m = "latency_p50" /\ r = compare(latency_ms(cells[base]), latency_ms(cells[c]), "p50")
      \/ m = "latency_p99" /\ r = compare(latency_ms(cells[base]), latency_ms(cells[c]), "p99")
      \/ m = "jitter_p99" /\ r = compare(jitter_us(cells[base]), jitter_us(cells[c]), "p99")
  BY <1>2, <1>6, <1>7, MetricsOf
<1>9. (CHOOSE f \in Range(comparisons) : f.condition = c).metrics[m] = r
  <2>1. w = CHOOSE f \in Range(comparisons) : f.condition = w.condition
    BY TheComparison
  <2>2. w = CHOOSE f \in Range(comparisons) : f.condition = c
    BY <1>3, <2>1
  <2>. QED BY <1>3, <1>6, <2>2
<1>10. "p50" \in DOMAIN Quantiles /\ "p99" \in DOMAIN Quantiles
  BY QuantilesAssumption
<1>11. PICK stat, a, e :
          /\ stat \in DOMAIN Quantiles /\ r = compare(a, e, stat)
          /\ \/ /\ m \in {"latency_p50", "latency_p99"}
                /\ a = latency_ms(cells[base]) /\ e = latency_ms(cells[c])
             \/ m = "jitter_p99" /\ a = jitter_us(cells[base]) /\ e = jitter_us(cells[c])
  BY <1>8, <1>10
<1>12. PICK d \in DOMAIN cells : d = base
  BY <1>4
<1>. QED BY <1>7, <1>9, <1>11, <1>12, MetricNulls

\* Nulls in a report.
LEMMA LeafNulls ==
    ASSUME DataInv, ReportInv, Complete, NEW l \in Leaves
    PROVE  Explained(l)
<1>1. CASE \E s \in Range(summaries) : l \in CellLeaves(s)
  <2>1. PICK s \in Range(summaries) : l \in CellLeaves(s)
    BY <1>1
  <2>2. PICK c \in DOMAIN cells : s = cell_summary(c, cells[c]) /\ ~CellRaises(cells[c])
    BY SummaryOf
  <2>. QED BY <2>1, <2>2, CellNulls
<1>2. CASE \E w \in Range(comparisons) : l \in ComparisonLeaves(w)
  BY <1>2, ComparisonNulls
<1>3. \/ \E s \in Range(summaries) : l \in CellLeaves(s)
      \/ \E w \in Range(comparisons) : l \in ComparisonLeaves(w)
  BY DEF Leaves
<1>. QED BY <1>1, <1>2, <1>3

\* Null, "nan" and "-" are where the data cannot answer.
LEMMA Nulls == DataInv /\ ReportInv /\ OutputInv => NullsExplained
<1>. SUFFICES ASSUME DataInv, ReportInv, OutputInv PROVE NullsExplained
  OBVIOUS
<1>1. ASSUME "json" \in DOMAIN files, NEW l \in files["json"]
      PROVE  l.v # NaN /\ (l.v = None) = Undefined(l.at)
  <2>1. Complete /\ files["json"] = to_json
    BY <1>1 DEF OutputInv, FilesInv
  <2>2. PICK g \in Leaves : l = [at |-> g.at, v |-> sanitize_json(g.v)]
    BY <1>1, <2>1 DEF to_json
  <2>3. Undefined(g.at) \in BOOLEAN /\ (Blank(g.v) <=> Undefined(g.at))
    BY <2>1, LeafNulls DEF Explained
  <2>4. l.at = g.at /\ l.v = sanitize_json(g.v)
    BY <2>2
  <2>5. l.v # NaN /\ (l.v = None <=> Blank(g.v))
    BY <2>4, NaNAssumption DEF sanitize_json, Blank
  <2>6. PICK u \in BOOLEAN : u = Undefined(l.at) /\ (l.v = None <=> u)
    BY <2>3, <2>4, <2>5
  <2>7. (l.v = None) = u
    BY <2>6
  <2>. QED BY <2>5, <2>6, <2>7
<1>2. ASSUME "markdown" \in DOMAIN files, NEW l \in files["markdown"]
      PROVE  (l.v \in {"nan", "-"}) = Undefined(l.at)
  <2>1. Complete /\ files["markdown"] = render_markdown
    BY <1>2 DEF OutputInv, FilesInv
  <2>2. PICK g \in Leaves : l = [at |-> g.at, v |-> _fmt(g.v)]
    BY <1>2, <2>1 DEF render_markdown
  <2>3. Undefined(g.at) \in BOOLEAN /\ (Blank(g.v) <=> Undefined(g.at))
    BY <2>1, LeafNulls DEF Explained
  <2>4. l.at = g.at /\ l.v = _fmt(g.v)
    BY <2>2
  <2>5. l.v \in {"nan", "-"} <=> Blank(g.v)
    BY <2>4, NaNAssumption DEF _fmt, Blank
  <2>6. PICK u \in BOOLEAN : u = Undefined(l.at) /\ (l.v \in {"nan", "-"} <=> u)
    BY <2>3, <2>4, <2>5
  <2>7. (l.v \in {"nan", "-"}) = u
    BY <2>6
  <2>. QED BY <2>6, <2>7
<1>. QED BY <1>1, <1>2 DEF NullsExplained

-----------------------------------------------------------------------------
(* Errors *)

\* The conditions measured are those of the files, none of which is malformed.
LEMMA CellsOfDir ==
    ASSUME DataInv, Built
    PROVE  /\ dir # NoDir /\ \A i \in DOMAIN dir : ~Malformed(dir[i])
           /\ DOMAIN cells = Conditions
           /\ DOMAIN cells = {} <=> dir = <<>>
<1>1. PICK n \in Nat : n = Len(dir) /\ DOMAIN dir = 1 .. n /\ DOMAIN loaded = 1 .. n
  BY LoadedRuns DEF IsRuns
<1>2. /\ IsRuns(loaded) /\ GoodDir(dir) /\ cells = discover(loaded) /\ dir # NoDir
      /\ \A i \in 1 .. n : IsFile(dir[i]) /\ loaded[i] = load_csv(dir[i])
  BY <1>1, LoadedRuns DEF Built
<1>3. \A i \in 1 .. n : ~Malformed(dir[i])
  <2>1. Len(loaded) = n
    BY <1>1 DEF Built
  <2>. QED BY <1>2, <2>1 DEF DataInv, LoadInv
<1>4. \A i \in 1 .. n : loaded[i].condition = parse_name(dir[i].stem).condition
  <2>1. ASSUME NEW i \in 1 .. n PROVE loaded[i].condition = parse_name(dir[i].stem).condition
    <3>1. PICK D : D = DOMAIN dir[i].rows
      OBVIOUS
    <3>2. Columns(loaded[i], dir[i], D)
      BY <1>2, <3>1, LoadFields
    <3>. QED BY <3>2 DEF Columns
  <2>. QED BY <2>1
<1>5. DOMAIN cells = {loaded[i].condition : i \in 1 .. n}
  BY <1>1, <1>2 DEF discover
<1>6. Conditions = {parse_name(dir[i].stem).condition : i \in 1 .. n}
  BY <1>1 DEF Conditions
<1>7. DOMAIN cells = Conditions
  BY <1>4, <1>5, <1>6
<1>8. DOMAIN cells = {} <=> n = 0
  <2>1. n # 0 => 1 \in 1 .. n
    OBVIOUS
  <2>2. n = 0 => 1 .. n = {}
    OBVIOUS
  <2>. QED BY <1>5, <2>1, <2>2
<1>9. n = 0 <=> dir = <<>>
  <2>1. PICK F : F = [stem : Seq(STRING), header : SUBSET STRING, rows : Seq(Row)]
    OBVIOUS
  <2>2. dir \in Seq(F)
    BY <1>2, <2>1 DEF GoodDir
  <2>. QED BY <1>1, <2>2
<1>. QED BY <1>1, <1>2, <1>3, <1>7, <1>8, <1>9

\* names lists them.
LEMMA NamesAre ==
    ASSUME DataInv
    PROVE  /\ names = <<>> <=> DOMAIN cells = {}
           /\ \A c : Contains(names, c) <=> c \in DOMAIN cells
<1>1. Lists(names, DOMAIN cells, ByOrder(DOMAIN cells))
  BY CellsFacts, NamesList DEF names
<1>2. PICK n \in Nat : DOMAIN names = 1 .. n /\ n = Len(names)
  BY <1>1 DEF Lists
<1>3. names \in Seq(DOMAIN cells)
  BY <1>1 DEF Lists
<1>4. (\A k \in 1 .. n : names[k] \in DOMAIN cells) /\ (\A c \in DOMAIN cells : \E k \in 1 .. n : names[k] = c)
  BY <1>1, <1>2 DEF Lists
<1>5. \A c : Contains(names, c) <=> c \in DOMAIN cells
  BY <1>2, <1>4 DEF Contains
<1>6. names = <<>> <=> n = 0
  BY <1>2, <1>3
<1>7. n = 0 <=> DOMAIN cells = {}
  <2>1. n # 0 => 1 \in 1 .. n
    OBVIOUS
  <2>2. n = 0 => 1 .. n = {}
    OBVIOUS
  <2>. QED BY <1>4, <2>1, <2>2
<1>. QED BY <1>5, <1>6, <1>7

\* A baseline is missing in the cells exactly when it is missing in the directory.
LEMMA MissingIs ==
    ASSUME DataInv, Built
    PROVE  BaselineMissing(names, args.baseline)
             <=> IF args.baseline = None THEN dir = <<>> ELSE args.baseline \notin Conditions
<1>1. /\ names = <<>> <=> dir = <<>>
      /\ \A c : Contains(names, c) <=> c \in Conditions
  BY CellsOfDir, NamesAre
<1>. QED BY <1>1 DEF BaselineMissing

\* What has been checked before a command succeeds, or was found to be wrong.
CheckedInv ==
    /\ status = 2 => UserError
    /\ pc = "cdf" \/ (status = 0 /\ args.cmd = "plot") => names # <<>>
    /\ status = 0 /\ args.cmd = "compare" => Unknown = {} /\ ~StatRaises

\* Nothing has, in the beginning.
LEMMA InitChecked == Init => CheckedInv
<1>1. Init => pc = "main" /\ status = -1
  BY DEF Init
<1>. QED BY <1>1 DEF CheckedInv

\* What makes an action fail with 2 is an error of the user.
LEMMA FailChecked ==
    ASSUME DataInv, ReportInv,
           NoDirectory \/ LoadFails \/ NoBaseline \/ NothingToPlot \/ NotFound \/ BadStatistic
    PROVE  UserError
<1>1. CASE NoDirectory
  BY <1>1 DEF NoDirectory, UserError
<1>2. CASE LoadFails
  <2>1. pc = "load" /\ Len(loaded) < Len(dir) /\ Malformed(dir[Len(loaded) + 1])
    BY <1>2 DEF LoadFails
  <2>2. dir # NoDir
    BY <2>1 DEF DataInv, CellsInv
  <2>3. PICK m \in Nat : m = Len(dir) /\ DOMAIN dir = 1 .. m
    BY <2>2 DEF DataInv, InputInv, GoodDir
  <2>4. PICK n \in Nat : n = Len(loaded) /\ n < m
    BY <2>1, <2>3 DEF DataInv, LoadInv
  <2>5. n + 1 \in DOMAIN dir
    BY <2>3, <2>4
  <2>. QED BY <2>1, <2>4, <2>5 DEF UserError
<1>3. CASE NoBaseline
  <2>1. pc = "summary" /\ BaselineMissing(names, args.baseline)
    BY <1>3 DEF NoBaseline
  <2>2. args.cmd = "summary" /\ Built
    BY <2>1 DEF ReportInv, CommandInv, DataInv, CellsInv, Working
  <2>. QED BY <2>1, <2>2, MissingIs DEF UserError
<1>4. CASE NothingToPlot
  <2>1. pc = "plot" /\ names = <<>>
    BY <1>4 DEF NothingToPlot
  <2>2. args.cmd = "plot" /\ Built
    BY <2>1 DEF ReportInv, CommandInv, DataInv, CellsInv, Working
  <2>3. dir = <<>>
    BY <2>1, <2>2, NamesAre, CellsOfDir
  <2>. QED BY <2>2, <2>3 DEF UserError
<1>5. CASE NotFound \/ BadStatistic
  <2>1. pc = "compare" /\ (Unknown # {} \/ args.stat \notin Statistics)
    BY <1>5 DEF NotFound, BadStatistic, StatRaises
  <2>2. args.cmd = "compare" /\ Built
    BY <2>1 DEF ReportInv, CommandInv, DataInv, CellsInv, Working
  <2>3. Unknown = {args.baseline, args.against} \ Conditions
    BY <2>2, CellsOfDir DEF Unknown
  <2>4. ~({args.baseline, args.against} \subseteq Conditions /\ args.stat \in Statistics)
    BY <2>1, <2>3
  <2>. QED BY <2>2, <2>4 DEF UserError
<1>. QED BY <1>1, <1>2, <1>3, <1>4, <1>5

\* Steps on the way, and steps that end a command otherwise.
LEMMA CheckedSteps ==
    ASSUME DataInv, Next
    PROVE  \/ status' = -1 /\ pc' # "cdf"
           \/ /\ status' = 2 /\ pc' = "end" /\ UNCHANGED <<dir, args>>
              /\ NoDirectory \/ LoadFails \/ NoBaseline \/ NothingToPlot \/ NotFound \/ BadStatistic
           \/ SummariseRaises \/ EmitJson \/ PlotPercentiles \/ PlotCdf \/ CompareTwo \/ Terminated
<1>. USE DEF Fail, Exit, input, report
<1>1. pc # "end" => status = -1
  BY DEF DataInv, StatusInv
<1>2. CASE NoDirectory \/ LoadFails \/ NoBaseline \/ NothingToPlot \/ NotFound \/ BadStatistic
  BY <1>2 DEF NoDirectory, LoadFails, NoBaseline, NothingToPlot, NotFound, BadStatistic
<1>3. CASE Main \/ Load
  BY <1>1, <1>3 DEF Main, Load
<1>4. CASE Build
  <2>1. args.cmd \in {"summary", "plot", "compare"}
    BY DEF DataInv, InputInv
  <2>. QED BY <1>1, <1>4, <2>1 DEF Build
<1>5. CASE ChooseBaseline \/ Summarise \/ Compare \/ Rendered \/ EmitMarkdown
  BY <1>1, <1>5 DEF ChooseBaseline, Summarise, Compare, Rendered, EmitMarkdown
<1>. QED BY <1>2, <1>3, <1>4, <1>5 DEF Next

\* Every step keeps what was checked.
LEMMA NextChecked == DataInv /\ ReportInv /\ CheckedInv /\ [Next]_vars => CheckedInv'
<1>. SUFFICES ASSUME DataInv, ReportInv, CheckedInv, [Next]_vars PROVE CheckedInv'
  OBVIOUS
<1>1. CASE UNCHANGED vars
  <2>1. UNCHANGED <<dir, args, cells, pc, status>>
    BY <1>1 DEF vars, input
  <2>2. (UserError' <=> UserError) /\ names' = names /\ Unknown' = Unknown /\ (StatRaises' <=> StatRaises)
    BY <2>1 DEF UserError, Conditions, names, Unknown, StatRaises, Measured
  <2>. QED BY <2>1, <2>2 DEF CheckedInv
<1>2. CASE status' = -1 /\ pc' # "cdf"
  BY <1>2 DEF CheckedInv
<1>3. CASE /\ status' = 2 /\ pc' = "end" /\ UNCHANGED <<dir, args>>
           /\ NoDirectory \/ LoadFails \/ NoBaseline \/ NothingToPlot \/ NotFound \/ BadStatistic
  <2>1. UserError
    BY <1>3, FailChecked
  <2>2. UserError' <=> UserError
    BY <1>3 DEF UserError, Conditions
  <2>. QED BY <1>3, <2>1, <2>2 DEF CheckedInv
<1>4. CASE SummariseRaises
  <2>1. status' = 1 /\ pc' = "end"
    BY <1>4 DEF SummariseRaises, Fail, Exit
  <2>. QED BY <2>1 DEF CheckedInv
<1>5. CASE EmitJson
  <2>1. pc = "json" /\ status' = 0 /\ pc' = "end" /\ args' = args
    BY <1>5 DEF EmitJson, Exit, input
  <2>2. args.cmd = "summary"
    BY <2>1 DEF ReportInv, CommandInv
  <2>. QED BY <2>1, <2>2 DEF CheckedInv
<1>6. CASE PlotPercentiles
  <2>1. pc = "plot" /\ names # <<>> /\ pc' = "cdf" /\ status' = status /\ cells' = cells
    BY <1>6 DEF PlotPercentiles, input
  <2>2. status = -1
    BY <2>1 DEF DataInv, StatusInv
  <2>3. names' # <<>>
    BY <2>1 DEF names
  <2>. QED BY <2>1, <2>2, <2>3 DEF CheckedInv
<1>7. CASE PlotCdf
  <2>1. pc = "cdf" /\ pc' = "end" /\ status' = 0 /\ cells' = cells /\ args' = args
    BY <1>7 DEF PlotCdf, Exit, input
  <2>2. args.cmd = "plot"
    BY <2>1 DEF ReportInv, CommandInv
  <2>3. names' # <<>>
    BY <2>1 DEF CheckedInv, names
  <2>. QED BY <2>1, <2>2, <2>3 DEF CheckedInv
<1>8. CASE CompareTwo
  <2>1. /\ pc = "compare" /\ pc' = "end" /\ status' = 0 /\ cells' = cells /\ args' = args
        /\ Unknown = {} /\ ~StatRaises
    BY <1>8 DEF CompareTwo, Exit, input
  <2>2. args.cmd = "compare"
    BY <2>1 DEF ReportInv, CommandInv
  <2>3. Unknown' = {} /\ ~StatRaises'
    BY <2>1 DEF Unknown, StatRaises, Measured
  <2>. QED BY <2>1, <2>2, <2>3 DEF CheckedInv
<1>9. CASE Terminated
  BY <1>1, <1>9 DEF Terminated
<1>. QED BY <1>1, <1>2, <1>3, <1>4, <1>5, <1>6, <1>7, <1>8, <1>9, CheckedSteps

\* After a success there was no error, but for a statistic of no jitters at all.
LEMMA Unnoticed == DataInv /\ ReportInv /\ CheckedInv => (status = 0 /\ UserError => NothingMeasured)
<1>. SUFFICES ASSUME DataInv, ReportInv, CheckedInv, status = 0, UserError PROVE NothingMeasured
  OBVIOUS
<1>1. Built /\ args.cmd \in {"summary", "plot", "compare"}
  BY DEF DataInv, CellsInv, InputInv
<1>2. dir # NoDir /\ ~\E i \in DOMAIN dir : Malformed(dir[i])
  BY <1>1, CellsOfDir
<1>3. args.cmd # "summary"
  <2>. SUFFICES ASSUME args.cmd = "summary" PROVE FALSE
    OBVIOUS
  <2>1. Chosen
    BY DEF ReportInv, BaseInv, Reporting
  <2>2. ~(IF args.baseline = None THEN dir = <<>> ELSE args.baseline \notin Conditions)
    BY <1>1, <2>1, MissingIs DEF Chosen
  <2>. QED BY <1>2, <2>2 DEF UserError
<1>4. args.cmd # "plot"
  <2>. SUFFICES ASSUME args.cmd = "plot" PROVE FALSE
    OBVIOUS
  <2>1. dir # <<>>
    BY <1>1, NamesAre, CellsOfDir DEF CheckedInv
  <2>. QED BY <1>2, <2>1 DEF UserError
<1>5. args.cmd = "compare" /\ Unknown = {} /\ ~StatRaises
  BY <1>1, <1>3, <1>4 DEF CheckedInv
<1>6. {args.baseline, args.against} \subseteq DOMAIN cells
  BY <1>5 DEF Unknown
<1>7. args.stat \notin Statistics
  BY <1>1, <1>2, <1>5, <1>6, CellsOfDir DEF UserError
<1>8. \A c \in {args.baseline, args.against} : c \in DOMAIN cells /\ Measured(c) = <<>>
  BY <1>5, <1>6, <1>7 DEF StatRaises
<1>9. args.metric = "jitter"
  <2>1. args.metric # "latency"
    <3>1. PICK c : c = args.baseline
      OBVIOUS
    <3>2. IsCell(c, cells[c]) /\ Measured(c) = <<>>
      BY <1>8, <3>1, CellsFacts
    <3>3. latency_ms(cells[c]) # <<>>
      BY <3>2, SomeLatency
    <3>. QED BY <3>2, <3>3 DEF Measured
  <2>. QED BY <1>5, <2>1 DEF DataInv, InputInv
<1>10. ASSUME NEW c \in {args.baseline, args.against} PROVE \A k \in DOMAIN cells[c] : Len(cells[c][k].seq) = 1
  <2>1. IsCell(c, cells[c]) /\ Measured(c) = <<>>
    BY <1>8, CellsFacts
  <2>2. jitter_us(cells[c]) = <<>>
    BY <1>9, <2>1 DEF Measured
  <2>. QED BY <2>1, <2>2, NoJitter
<1>. QED BY <1>5, <1>9, <1>10 DEF NothingMeasured

\* The exit status tells.
LEMMA Exits == DataInv /\ ReportInv /\ OutputInv /\ CheckedInv => ExitMeans
<1>. SUFFICES ASSUME DataInv, ReportInv, OutputInv, CheckedInv PROVE ExitMeans
  OBVIOUS
<1>1. ExitInv
  BY DEF OutputInv
<1>2. status = 2 => UserError
  BY DEF CheckedInv
<1>3. status = 0 /\ UserError => NothingMeasured
  BY Unnoticed
<1>. QED BY <1>1, <1>2, <1>3 DEF ExitInv, ExitMeans

\* So all four invariants hold in every state.
LEMMA CheckedAlways == Spec => [](DataInv /\ ReportInv /\ OutputInv /\ CheckedInv)
BY InitData, NextData, InitReport, NextReport, InitOutput, NextOutput, InitChecked, NextChecked, PTL
   DEF Spec

-----------------------------------------------------------------------------
\* Types.
LEMMA Types == DataInv /\ OutputInv => TypeOK
<1>. SUFFICES ASSUME DataInv, OutputInv PROVE TypeOK
  OBVIOUS
<1>1. pc \in {"main", "load", "summary", "cells", "markdown", "json", "plot", "cdf", "compare", "end"}
  BY DEF DataInv, CellsInv, Loading, Working
<1>2. status \in {-1, 0, 1, 2} /\ (status = -1) = (pc # "end")
  BY DEF DataInv, StatusInv
<1>3. dir # NoDir => Len(loaded) <= Len(dir)
  BY DEF DataInv, LoadInv
<1>4. DOMAIN files \subseteq {"markdown", "json", "percentiles", "cdf"}
  BY DEF OutputInv, FilesInv
<1>. QED BY <1>1, <1>2, <1>3, <1>4 DEF TypeOK

\* From the report to what the user gets, for every directory and command line:
\* null, "nan" and "-" stand exactly where the data has no answer, no packet
\* leaves the figures, no two conditions look the same while there are colours,
\* 2 is returned after an error of the user only, with nothing put out, and after
\* every such error but for an unknown statistic of no jitters at all; nothing
\* raises but a run of one row among several (main(), cmd_summary(), cmd_compare(),
\* plot_all(), _emit()).
THEOREM OutputFaithfulSafe == Spec => []OutputFaithful
<1>1. DataInv /\ ReportInv /\ OutputInv /\ CheckedInv => OutputFaithful
  BY Types, Nulls, Curves, Styles, Exits DEF OutputFaithful
<1>. QED BY <1>1, CheckedAlways, PTL
=============================================================================
