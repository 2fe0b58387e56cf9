------------------------ MODULE BacktestBook_proofs ------------------------
(***************************************************************************)
(* What the backtest guarantees for every history, every set of SSUs and   *)
(* instruments, every timeframe and every limit: its bars come in order,   *)
(* the indexes its limits are read from agree with its positions, it       *)
(* implements the book the live program implements, and what it reports is *)
(* what its trades moved.                                                  *)
(***************************************************************************)
EXTENDS BacktestBook, FiniteSetTheorems, SequenceTheorems, WellFoundedInduction, TLAPS

-----------------------------------------------------------------------------
(* Sets of numbers, and sets put in order.                                 *)

(* MaxOf and MinOf are defined by CHOOSE: a finite set that is not empty   *)
(* has such an element.                                                    *)
LEMMA HasMax ==
    ASSUME NEW T \in SUBSET Int, IsFiniteSet(T), T # {}
    PROVE  MaxOf(T) \in T /\ \A y \in T : MaxOf(T) >= y
<1> DEFINE above(x) == {y \in T : y > x}
           family == {above(x) : x \in T}
           R == StrictSubsetOrdering(T)
<1>1. IsWellFoundedOn(R, FiniteSubsetsOf(T))
  BY FS_StrictSubsetOrderingWellFounded
<1>2. family \subseteq FiniteSubsetsOf(T) /\ family # {}
  <2>1. ASSUME NEW x \in T PROVE above(x) \in FiniteSubsetsOf(T)
    <3>1. above(x) \in SUBSET T
      OBVIOUS
    <3> QED BY <3>1, FS_Subset DEF FiniteSubsetsOf
  <2> QED BY <2>1
<1> HIDE DEF R
<1>3. PICK S \in family : \A U \in family : ~(<<U, S>> \in R)
  <2> HIDE DEF family
  <2> QED BY <1>1, <1>2, WFMin
<1>4. PICK x \in T : S = above(x)
  OBVIOUS
<1>5. \A y \in T : x >= y
  <2> SUFFICES ASSUME NEW y \in T, y > x PROVE FALSE
    OBVIOUS
  <2>1. above(y) \subseteq above(x) /\ y \in above(x) /\ y \notin above(y)
    <3>1. ~(y > y) /\ \A z \in T : z > y => z > x
      OBVIOUS
    <3> QED BY <3>1, Zenon
  <2>2. <<above(y), above(x)>> \in R
    BY <2>1 DEF R, StrictSubsetOrdering
  <2> QED BY <2>2, <1>3, <1>4
<1> QED BY <1>5 DEF MaxOf

LEMMA HasMin ==
    ASSUME NEW T \in SUBSET Int, IsFiniteSet(T), T # {}
    PROVE  MinOf(T) \in T /\ \A y \in T : MinOf(T) <= y
<1> DEFINE below(x) == {y \in T : y < x}
           family == {below(x) : x \in T}
           R == StrictSubsetOrdering(T)
<1>1. IsWellFoundedOn(R, FiniteSubsetsOf(T))
  BY FS_StrictSubsetOrderingWellFounded
<1>2. family \subseteq FiniteSubsetsOf(T) /\ family # {}
  <2>1. ASSUME NEW x \in T PROVE below(x) \in FiniteSubsetsOf(T)
    <3>1. below(x) \in SUBSET T
      OBVIOUS
    <3> QED BY <3>1, FS_Subset DEF FiniteSubsetsOf
  <2> QED BY <2>1
<1> HIDE DEF R
<1>3. PICK S \in family : \A U \in family : ~(<<U, S>> \in R)
  <2> HIDE DEF family
  <2> QED BY <1>1, <1>2, WFMin
<1>4. PICK x \in T : S = below(x)
  OBVIOUS
<1>5. \A y \in T : x <= y
  <2> SUFFICES ASSUME NEW y \in T, y < x PROVE FALSE
    OBVIOUS
  <2>1. below(y) \subseteq below(x) /\ y \in below(x) /\ y \notin below(y)
    <3>1. ~(y < y) /\ \A z \in T : z < y => z < x
      OBVIOUS
    <3> QED BY <3>1, Zenon
  <2>2. <<below(y), below(x)>> \in R
    BY <2>1 DEF R, StrictSubsetOrdering
  <2> QED BY <2>2, <1>3, <1>4
<1> QED BY <1>5 DEF MinOf

(* A strict total order R on S, the rank of an element in it, a sequence   *)
(* that takes at each place the element of that rank if there is one, and  *)
(* a sequence of all the elements in their order.                          *)
IsOrder(R, S) ==
    /\ \A x \in S : <<x, x>> \notin R
    /\ \A x, y, z \in S : <<x, y>> \in R /\ <<y, z>> \in R => <<x, z>> \in R
    /\ \A x, y \in S : x = y \/ <<x, y>> \in R \/ <<y, x>> \in R

Rank(x, R, S) == Cardinality({y \in S : <<y, x>> \in R})

ByRank(seq, R, S) ==
    \A k \in 1..Cardinality(S) :
        (\E x \in S : Rank(x, R, S) = k - 1) =>
            seq[k] \in S /\ Rank(seq[k], R, S) = k - 1

InOrder(seq, R, S) ==
    /\ \A k \in 1..Cardinality(S) : seq[k] \in S
    /\ \A j, k \in 1..Cardinality(S) : j < k => <<seq[j], seq[k]>> \in R
    /\ \A x \in S : \E k \in 1..Cardinality(S) : seq[k] = x

(* The elements of a finite set have the ranks 0..Cardinality(S)-1: the    *)
(* sequence that takes them by rank is in order and misses none.           *)
LEMMA RankedInOrder ==
    ASSUME NEW S, IsFiniteSet(S), NEW R, IsOrder(R, S), NEW seq, ByRank(seq, R, S)
    PROVE  InOrder(seq, R, S)
<1> USE DEF IsOrder, Rank, ByRank, InOrder
<1> DEFINE n == Cardinality(S)
           before(x) == {y \in S : <<y, x>> \in R}
           rank == [x \in S |-> Cardinality(before(x))]
<1>1. n \in Nat
  BY FS_CardinalityType
<1>2. \A x \in S : IsFiniteSet(before(x)) /\ rank[x] \in 0..(n - 1)
  <2> TAKE x \in S
  <2>1. before(x) \in SUBSET S /\ x \notin before(x)
    OBVIOUS
  <2>2. IsFiniteSet(before(x)) /\ Cardinality(before(x)) \in Nat
    BY <2>1, FS_Subset, FS_CardinalityType
  <2>3. Cardinality(before(x)) <= n /\ (Cardinality(before(x)) = n => before(x) = S)
    BY <2>1, FS_Subset
  <2>4. rank[x] = Cardinality(before(x))
    OBVIOUS
  <2> HIDE DEF before, rank, n
  <2>5. Cardinality(before(x)) # n
    BY <2>1, <2>3
  <2> QED BY <2>2, <2>3, <2>4, <2>5, <1>1
<1>3. \A x, y \in S : <<x, y>> \in R => rank[x] < rank[y]
  <2> SUFFICES ASSUME NEW x \in S, NEW y \in S, <<x, y>> \in R PROVE rank[x] < rank[y]
    OBVIOUS
  <2>1. before(x) \in SUBSET before(y) /\ x \in before(y) /\ x \notin before(x)
    OBVIOUS
  <2>2. Cardinality(before(x)) <= Cardinality(before(y))
    BY <2>1, <1>2, FS_Subset
  <2>3. Cardinality(before(x)) # Cardinality(before(y))
    <3>1. Cardinality(before(y)) = Cardinality(before(x)) => before(y) = before(x)
      BY <2>1, <1>2, FS_Subset
    <3> QED BY <3>1, <2>1
  <2>4. rank[x] = Cardinality(before(x)) /\ rank[y] = Cardinality(before(y))
    OBVIOUS
  <2> HIDE DEF before, rank
  <2> QED BY <2>2, <2>3, <2>4, <1>1, <1>2
<1>4. \A x, y \in S : rank[x] = rank[y] => x = y
  <2> SUFFICES ASSUME NEW x \in S, NEW y \in S, x # y PROVE rank[x] # rank[y]
    OBVIOUS
  <2>1. rank[x] < rank[y] \/ rank[y] < rank[x]
    BY <1>3
  <2>2. rank[x] \in 0..(n - 1) /\ rank[y] \in 0..(n - 1)
    BY <1>2
  <2> HIDE DEF rank, n
  <2> QED BY <1>1, <2>1, <2>2
<1>5. rank \in Injection(S, 0..(n - 1))
  <2>1. rank \in [S -> 0..(n - 1)]
    BY <1>2
  <2> HIDE DEF rank
  <2> QED BY <2>1, <1>4 DEF Injection, IsInjective
<1>6. IsFiniteSet(0..(n - 1)) /\ Cardinality(0..(n - 1)) = n
  <2> HIDE DEF n
  <2>1. 0 \in Int /\ n - 1 \in Int
    BY <1>1
  <2>2. /\ IsFiniteSet(0..(n - 1))
        /\ Cardinality(0..(n - 1)) = IF 0 > n - 1 THEN 0 ELSE n - 1 - 0 + 1
    BY <2>1, FS_Interval
  <2> QED BY <1>1, <2>2
<1>7. rank \in Surjection(S, 0..(n - 1))
  <2> HIDE DEF rank
  <2> QED BY <1>5, <1>6, FS_Injection
<1>8. \A k \in 1..n : seq[k] \in S /\ rank[seq[k]] = k - 1
  <2> TAKE k \in 1..n
  <2>1. k - 1 \in 0..(n - 1)
    BY <1>1
  <2>2. PICK x \in S : rank[x] = k - 1
    <3> HIDE DEF rank
    <3> QED BY <2>1, <1>7 DEF Surjection
  <2>3. Cardinality(before(x)) = k - 1
    BY <2>2
  <2> QED BY <2>3
<1>9. \A j, k \in 1..n : j < k => <<seq[j], seq[k]>> \in R
  <2> SUFFICES ASSUME NEW j \in 1..n, NEW k \in 1..n, j < k PROVE <<seq[j], seq[k]>> \in R
    OBVIOUS
  <2>1. rank[seq[j]] < rank[seq[k]]
    <3> HIDE DEF rank, n
    <3> QED BY <1>8, <1>1
  <2>2. ~(rank[seq[k]] < rank[seq[j]]) /\ seq[j] # seq[k]
    <3> HIDE DEF rank, n
    <3> QED BY <2>1, <1>2, <1>8, <1>1
  <2> HIDE DEF rank, n
  <2> QED BY <2>2, <1>3, <1>8
<1>10. \A x \in S : \E k \in 1..n : seq[k] = x
  <2> TAKE x \in S
  <2>1. rank[x] + 1 \in 1..n /\ rank[x] = (rank[x] + 1) - 1
    <3>1. rank[x] \in 0..(n - 1)
      BY <1>2
    <3> HIDE DEF rank, n
    <3> QED BY <3>1, <1>1
  <2>2. seq[rank[x] + 1] = x
    <3> HIDE DEF rank, n
    <3> QED BY <2>1, <1>8, <1>4
  <2> QED BY <2>1, <2>2
<1> QED BY <1>8, <1>9, <1>10

-----------------------------------------------------------------------------
(* The buckets that minutes are aggregated into.                           *)

(* The bucket of a minute contains it.                                     *)
LEMMA InBucket ==
    ASSUME NEW m \in Nat, NEW f \in Nat \ {0}
    PROVE  BucketEnd(m, f) \in Nat /\ BucketEnd(m, f) - f <= m /\ m < BucketEnd(m, f)
<1>1. m \div f \in Nat
  OBVIOUS
<1>2. f * (m \div f) <= m /\ m < f * (m \div f) + f
  OBVIOUS
<1>3. BucketEnd(m, f) = f * (m \div f) + f
  BY <1>1 DEF BucketEnd
<1>4. f * (m \div f) \in Nat
  BY <1>1
<1> QED BY <1>2, <1>3, <1>4

(* A later minute has no earlier bucket.                                   *)
LEMMA BucketsAscend ==
    ASSUME NEW m \in Nat, NEW l \in Nat, NEW f \in Nat \ {0}, m <= l
    PROVE  BucketEnd(m, f) <= BucketEnd(l, f)
<1>1. m \div f \in Nat /\ l \div f \in Nat
  OBVIOUS
<1>2. m \div f <= l \div f
  OBVIOUS
<1>3. (m \div f + 1) * f <= (l \div f + 1) * f
  BY <1>1, <1>2
<1> QED BY <1>3 DEF BucketEnd

(* A whole multiple of the timeframe is the end of the bucket before it.   *)
LEMMA WholeBucket ==
    ASSUME NEW e \in Nat, NEW f \in Nat \ {0}, e % f = 0, f <= e
    PROVE  e - f \in Nat /\ BucketEnd(e - f, f) = e
<1>1. e = f * (e \div f) /\ e \div f \in Nat
  OBVIOUS
<1>2. e - f = f * (e \div f - 1)
  BY <1>1
<1>3. (e - f) \div f = e \div f - 1
  BY <1>1, <1>2
<1>4. (e \div f - 1 + 1) * f = e
  BY <1>1
<1> QED BY <1>3, <1>4 DEF BucketEnd

(* Minutes from m on that lie before the end of m's bucket are in it.      *)
LEMMA SameBucket ==
    ASSUME NEW m \in Nat, NEW l \in Nat, NEW f \in Nat \ {0},
           m <= l, l < BucketEnd(m, f)
    PROVE  BucketEnd(l, f) = BucketEnd(m, f)
<1>1. m \div f \in Nat /\ l \div f \in Nat
  OBVIOUS
<1>2. m \div f <= l \div f
  OBVIOUS
<1>3. f * (l \div f) <= l
  OBVIOUS
<1>4. l \div f < m \div f + 1
  <2>1. f * (l \div f) < f * (m \div f + 1)
    BY <1>1, <1>3 DEF BucketEnd
  <2> QED BY <1>1, <2>1
<1> QED BY <1>1, <1>2, <1>4 DEF BucketEnd

(* Of the buckets of some minutes, those that are kept end one minute      *)
(* after a stored one at the latest, and those whose first and last        *)
(* minutes are there are kept (drop_edge_buckets).                         *)
LEMMA Aggregated ==
    ASSUME NEW M \in SUBSET Nat, IsFiniteSet(M), NEW f \in Nat \ {0}
    PROVE  /\ Aggregate(M, f) \in SUBSET Nat /\ IsFiniteSet(Aggregate(M, f))
           /\ \A e \in Aggregate(M, f) : (\E m \in M : m < e) /\ (\E l \in M : e <= l + 1)
           /\ \A e \in Nat : e % f = 0 /\ f <= e /\ e - f \in M /\ e - 1 \in M =>
                                e \in Aggregate(M, f)
<1> DEFINE ends == {BucketEnd(m, f) : m \in M}
           head == {e \in ends : e = MinOf(ends) /\ MinOf(M) > e - f}
           rest == ends \ head
           tail == {e \in rest : e = MaxOf(rest) /\ MaxOf(M) + 1 < e}
<1>1. Aggregate(M, f) = rest \ tail
  BY DEF Aggregate, DropEdges
<1>2. ends \in SUBSET Nat /\ IsFiniteSet(ends)
  <2>1. ends \in SUBSET Nat
    BY InBucket
  <2> DEFINE g == [m \in M |-> BucketEnd(m, f)]
  <2>2. g \in Surjection(M, ends)
    BY DEF Surjection
  <2> HIDE DEF g
  <2> QED BY <2>1, <2>2, FS_Surjection
<1>3. rest \in SUBSET Nat /\ IsFiniteSet(rest)
  <2>1. rest \in SUBSET ends
    OBVIOUS
  <2> HIDE DEF rest, ends
  <2> QED BY <1>2, <2>1, FS_Subset
<1>4. IsFiniteSet(rest \ tail)
  <2>1. rest \ tail \in SUBSET rest
    OBVIOUS
  <2> HIDE DEF rest, tail
  <2> QED BY <1>3, <2>1, FS_Subset
<1>5. ASSUME NEW e \in rest, e \notin tail
      PROVE  (\E m \in M : m < e) /\ (\E l \in M : e <= l + 1)
  <2>1. PICK m \in M : e = BucketEnd(m, f)
    OBVIOUS
  <2>2. e \in Nat /\ m \in Nat /\ m < e
    BY <2>1, InBucket
  <2> DEFINE l == MaxOf(M)
  <2>3. l \in M /\ \A k \in M : l >= k
    BY HasMax
  <2>4. ASSUME e > l + 1 PROVE FALSE
    <3>1. m <= l /\ l \in Nat
      BY <2>3
    <3>2. BucketEnd(l, f) = e
      <4> HIDE DEF l
      <4> QED BY <2>1, <2>2, <2>4, <3>1, SameBucket
    <3>3. \A x \in rest : x <= e
      <4> TAKE x \in rest
      <4>1. PICK k \in M : x = BucketEnd(k, f)
        OBVIOUS
      <4>2. k <= l /\ k \in Nat
        BY <2>3
      <4> HIDE DEF l
      <4> QED BY <3>1, <3>2, <4>1, <4>2, BucketsAscend
    <3>4. MaxOf(rest) \in rest /\ MaxOf(rest) >= e
      <4> HIDE DEF rest
      <4> QED BY <1>3, HasMax
    <3>5. e = MaxOf(rest)
      <4>1. MaxOf(rest) <= e
        BY <3>3, <3>4, Zenon
      <4>2. MaxOf(rest) \in Nat
        <5> HIDE DEF rest
        <5> QED BY <1>3, <3>4
      <4> HIDE DEF rest
      <4> QED BY <2>2, <3>4, <4>1, <4>2
    <3>6. MaxOf(M) + 1 < e
      <4>1. MaxOf(M) \in Nat
        BY <3>1
      <4> QED BY <2>4, <2>2, <4>1
    <3> QED BY <1>5, <3>5, <3>6
  <2>5. e <= l + 1
    <3>1. l \in Nat
      BY <2>3
    <3> HIDE DEF l
    <3> QED BY <2>2, <2>4, <3>1
  <2> QED BY <2>2, <2>3, <2>5
<1>6. ASSUME NEW e \in Nat, e % f = 0, f <= e, e - f \in M, e - 1 \in M
      PROVE  e \in rest \ tail
  <2>1. e \in ends
    BY <1>6, WholeBucket
  <2>2. MinOf(M) \in Nat /\ MinOf(M) <= e - f
    <3>1. M # {} /\ e - f \in M
      BY <1>6
    <3>2. MinOf(M) \in M /\ MinOf(M) <= e - f
      BY <3>1, HasMin
    <3> QED BY <3>2
  <2>3. e \notin head
    BY <2>2
  <2>4. MaxOf(M) \in Nat /\ MaxOf(M) >= e - 1
    <3>1. M # {} /\ e - 1 \in M
      BY <1>6
    <3>2. MaxOf(M) \in M /\ MaxOf(M) >= e - 1
      BY <3>1, HasMax
    <3> QED BY <3>2
  <2> QED BY <2>1, <2>3, <2>4
<1> HIDE DEF rest, tail
<1> QED BY <1>1, <1>3, <1>4, <1>5, <1>6

(* The stored minutes of an instrument are finitely many.                  *)
LEMMA Stored ==
    ASSUME history \in Histories, NEW i \in Instruments
    PROVE  /\ DOMAIN history[i] \in SUBSET (0..(MaxTime - 1)) /\ DOMAIN history[i] \in SUBSET Nat
           /\ \A S \in SUBSET DOMAIN history[i] : S \in SUBSET Nat /\ IsFiniteSet(S)
<1>1. MaxTime \in Nat /\ DOMAIN history[i] \in SUBSET (0..(MaxTime - 1))
  <2>1. MaxTime \in Nat
    BY BacktestAssumption
  <2>2. \A h \in Histories : DOMAIN h[i] \subseteq 0..(MaxTime - 1)
    BY Zenon, BacktestAssumption
  <2> QED BY <2>1, <2>2
<1>2. IsFiniteSet(0..(MaxTime - 1))
  BY <1>1, FS_Interval
<1>3. ASSUME NEW S \in SUBSET DOMAIN history[i] PROVE S \in SUBSET Nat /\ IsFiniteSet(S)
  <2>1. S \in SUBSET (0..(MaxTime - 1))
    BY <1>1
  <2>2. S \in SUBSET Nat
    BY <1>1, <2>1
  <2>3. IsFiniteSet(S)
    BY <1>2, <2>1, FS_Subset
  <2> QED BY <2>2, <2>3
<1> QED BY <1>1, <1>3

(* The bars of the replay end within the times of the backtest, and every  *)
(* bucket that lies in it with all its minutes is one of them.             *)
LEMMA Replayed ==
    ASSUME history \in Histories, NEW i \in Instruments, NEW f \in Nat \ {0}
    PROVE  /\ ReplayEnds(i, f) \in SUBSET Times /\ IsFiniteSet(ReplayEnds(i, f))
           /\ \A e \in Times :
                 /\ e % f = 0 /\ From <= e - f /\ e <= To
                 /\ (e - f)..(e - 1) \subseteq DOMAIN history[i]
                 => e \in ReplayEnds(i, f)
<1> DEFINE M == LoadBetween(i)
<1>1. M \in SUBSET DOMAIN history[i]
  BY DEF LoadBetween
<1>2. M \in SUBSET Nat /\ IsFiniteSet(M)
  BY <1>1, Stored
<1>3. MaxTime \in Nat /\ From \in Nat /\ To \in Nat
  BY BacktestAssumption
<1>4. ASSUME NEW e \in Aggregate(M, f) PROVE e \in Times
  <2> HIDE DEF M
  <2>1. e \in Nat /\ (\E m \in M : m < e) /\ (\E l \in M : e <= l + 1)
    BY <1>2, Aggregated
  <2>2. PICK m \in M : m < e
    BY <2>1
  <2>3. PICK l \in M : e <= l + 1
    BY <2>1
  <2>4. m \in Nat /\ l \in 0..(MaxTime - 1)
    BY <1>1, <1>2, Stored
  <2> QED BY <1>3, <2>1, <2>2, <2>3, <2>4 DEF Times
<1>5. ASSUME NEW e \in Times, e % f = 0, From <= e - f, e <= To,
             (e - f)..(e - 1) \subseteq DOMAIN history[i]
      PROVE  e \in Aggregate(M, f)
  <2>1. e \in Nat /\ e >= 1 /\ f \in Nat /\ f >= 1
    BY <1>3 DEF Times
  <2>2. e - f \in (e - f)..(e - 1) /\ e - 1 \in (e - f)..(e - 1)
    BY <2>1
  <2>3. e - f \in M /\ e - 1 \in M
    BY <1>3, <1>5, <2>1, <2>2 DEF LoadBetween
  <2>4. f <= e
    BY <1>3, <1>5, <2>1
  <2> HIDE DEF M
  <2> QED BY <1>2, <1>5, <2>1, <2>3, <2>4, Aggregated
<1> QED BY <1>2, <1>4, <1>5, Aggregated DEF ReplayEnds

(* The bars of the warmup end by --from.                                   *)
LEMMA WarmedUp ==
    ASSUME history \in Histories, NEW i \in Instruments, NEW f \in Nat \ {0}
    PROVE  /\ WarmupEnds(i, f) \in SUBSET Nat /\ IsFiniteSet(WarmupEnds(i, f))
           /\ \A e \in WarmupEnds(i, f) : e <= From
<1>1. From \in Nat
  BY BacktestAssumption
<1>2. \A n : /\ LoadBefore(i, n) \in SUBSET Nat /\ IsFiniteSet(LoadBefore(i, n))
             /\ \A m \in LoadBefore(i, n) : m < From
  <2> TAKE n
  <2>1. LoadBefore(i, n) \in SUBSET DOMAIN history[i] /\ \A m \in LoadBefore(i, n) : m < From
    BY DEF LoadBefore, Newest
  <2> QED BY <2>1, Stored
<1>3. CASE f = 1
  <2> DEFINE M == LoadBefore(i, WarmupBars)
             g == [m \in M |-> m + 1]
  <2>1. WarmupEnds(i, f) = {m + 1 : m \in M}
    BY <1>3 DEF WarmupEnds
  <2>2. M \in SUBSET Nat /\ IsFiniteSet(M) /\ \A m \in M : m < From
    BY <1>2
  <2> HIDE DEF M
  <2>3. g \in Surjection(M, {m + 1 : m \in M})
    BY DEF Surjection
  <2> HIDE DEF g
  <2>4. IsFiniteSet({m + 1 : m \in M})
    BY <2>2, <2>3, FS_Surjection
  <2>5. {m + 1 : m \in M} \in SUBSET Nat /\ \A e \in {m + 1 : m \in M} : e <= From
    BY <1>1, <2>2
  <2> QED BY <2>1, <2>4, <2>5
<1>4. CASE f # 1
  <2> DEFINE M == LoadBefore(i, (WarmupBars + 2) * f)
  <2>1. WarmupEnds(i, f) = Newest(Aggregate(M, f), WarmupBars)
    BY <1>4 DEF WarmupEnds
  <2>2. M \in SUBSET Nat /\ IsFiniteSet(M) /\ \A m \in M : m < From
    BY <1>2
  <2> HIDE DEF M
  <2>3. /\ Aggregate(M, f) \in SUBSET Nat /\ IsFiniteSet(Aggregate(M, f))
        /\ \A e \in Aggregate(M, f) : \E l \in M : e <= l + 1
    BY <2>2, Aggregated
  <2>4. WarmupEnds(i, f) \in SUBSET Aggregate(M, f)
    BY <2>1 DEF Newest
  <2>5. \A e \in Aggregate(M, f) : e <= From
    BY <1>1, <2>2, <2>3
  <2> QED BY <2>3, <2>4, <2>5, FS_Subset
<1> QED BY <1>3, <1>4

(* The bars of a replay are finitely many.                                 *)
Factors == {FactorOf[s] : s \in Ssus}

LEMMA BarsAreFinite ==
    ASSUME history \in Histories
    PROVE  /\ IsFiniteSet(Bars)
           /\ \A b \in Bars : /\ b.end \in Times /\ b.factor \in Factors /\ b.instrument \in Instruments
                              /\ b = [end |-> b.end, factor |-> b.factor, instrument |-> b.instrument]
                              /\ b.end \in ReplayEnds(b.instrument, b.factor)
           /\ \A i \in Instruments, f \in Factors : \A e \in ReplayEnds(i, f) :
                 [end |-> e, factor |-> f, instrument |-> i] \in Bars
<1>1. Factors \in SUBSET (Nat \ {0})
  BY BacktestAssumption DEF Factors
<1>2. \A i \in Instruments, f \in Factors : ReplayEnds(i, f) \in SUBSET Times
  BY <1>1, Replayed
<1>3. \A b \in Bars : \E i \in Instruments, f \in Factors : \E e \in ReplayEnds(i, f) :
          b = [end |-> e, factor |-> f, instrument |-> i]
  BY DEF Bars, Factors
<1>4. \A i \in Instruments, f \in Factors : \A e \in ReplayEnds(i, f) :
          [end |-> e, factor |-> f, instrument |-> i] \in Bars
  <2> TAKE i \in Instruments, f \in Factors
  <2> DEFINE these(j, g) == {[end |-> e, factor |-> g, instrument |-> j] : e \in ReplayEnds(j, g)}
             all == {these(j, g) : j \in Instruments, g \in Factors}
  <2>1. Bars = UNION all
    BY DEF Bars, Factors
  <2>2. these(i, f) \in all
    OBVIOUS
  <2>3. these(i, f) \subseteq Bars
    <3> HIDE DEF these, all
    <3> QED BY <2>1, <2>2
  <2> QED BY <2>3
<1> DEFINE P == (Times \X Factors) \X Instruments
           g == [b \in Bars |-> <<<<b.end, b.factor>>, b.instrument>>]
<1>5. IsFiniteSet(P)
  <2>1. IsFiniteSet(Times)
    <3>1. MaxTime \in Int /\ 1 \in Int
      BY BacktestAssumption
    <3> QED BY <3>1, FS_Interval DEF Times
  <2> DEFINE h == [s \in Ssus |-> FactorOf[s]]
  <2>2. h \in Surjection(Ssus, Factors)
    BY DEF Surjection, Factors
  <2> HIDE DEF h
  <2>3. IsFiniteSet(Factors)
    BY <2>2, BacktestAssumption, FS_Surjection
  <2>4. IsFiniteSet(Times \X Factors)
    BY <2>1, <2>3, FS_Product
  <2> QED BY <2>4, BacktestAssumption, FS_Product
<1>6. \A b \in Bars : /\ b.end \in Times /\ b.factor \in Factors /\ b.instrument \in Instruments
                      /\ b = [end |-> b.end, factor |-> b.factor, instrument |-> b.instrument]
                      /\ b.end \in ReplayEnds(b.instrument, b.factor)
  <2> TAKE b \in Bars
  <2>1. PICK i \in Instruments, f \in Factors : \E e \in ReplayEnds(i, f) :
            b = [end |-> e, factor |-> f, instrument |-> i]
    BY <1>3
  <2>2. PICK e \in ReplayEnds(i, f) : b = [end |-> e, factor |-> f, instrument |-> i]
    BY <2>1
  <2>3. e \in Times
    BY <1>2
  <2> QED BY <2>2, <2>3
<1>7. g \in Injection(Bars, P)
  <2>1. g \in [Bars -> P]
    BY <1>6
  <2>2. ASSUME NEW a \in Bars, NEW b \in Bars, g[a] = g[b] PROVE a = b
    BY <1>6, <2>2
  <2> HIDE DEF g
  <2> QED BY <2>1, <2>2 DEF Injection, IsInjective
<1>8. IsFiniteSet(Bars)
  <2> HIDE DEF g, P
  <2> QED BY <1>5, <1>7, FS_Injection
<1> QED BY <1>4, <1>6, <1>8

(* Bars are ordered by end, timeframe and instrument.                      *)
BarOrder == {x \in Bars \X Bars : Precedes(x[1], x[2])}

LEMMA BarsAreOrdered ==
    ASSUME history \in Histories
    PROVE  /\ IsOrder(BarOrder, Bars)
           /\ \A a, b \in Bars : <<a, b>> \in BarOrder <=> Precedes(a, b)
           /\ \A a, b \in Bars : Precedes(a, b) => a.end <= b.end
<1>1. \A a, b \in Bars : <<a, b>> \in BarOrder <=> Precedes(a, b)
  BY DEF BarOrder
<1>2. \A b \in Bars : b.end \in Int /\ b.factor \in Int /\ b.instrument \in Int
  <2>1. Times \subseteq Int /\ Factors \subseteq Int /\ Instruments \subseteq Int
    BY BacktestAssumption DEF Times, Factors
  <2> QED BY <2>1, BarsAreFinite
<1>3. \A a, b \in Bars : a.end = b.end /\ a.factor = b.factor /\ a.instrument = b.instrument => a = b
  BY BarsAreFinite, Zenon
<1>4. IsOrder(BarOrder, Bars)
  <2>1. \A x \in Bars : <<x, x>> \notin BarOrder
    BY <1>1, <1>2 DEF Precedes
  <2>2. \A x, y, z \in Bars :
            <<x, y>> \in BarOrder /\ <<y, z>> \in BarOrder => <<x, z>> \in BarOrder
    BY <1>1, <1>2 DEF Precedes
  <2>3. \A x, y \in Bars : x = y \/ <<x, y>> \in BarOrder \/ <<y, x>> \in BarOrder
    <3> TAKE x, y \in Bars
    <3>1. Precedes(x, y) \/ Precedes(y, x)
            \/ (x.end = y.end /\ x.factor = y.factor /\ x.instrument = y.instrument)
      BY <1>2 DEF Precedes
    <3> QED BY <1>1, <1>3, <3>1
  <2> QED BY <2>1, <2>2, <2>3 DEF IsOrder
<1> QED BY <1>1, <1>2, <1>4 DEF Precedes

(* The replay begins with all its bars, in the order of their ends.        *)
LEMMA ReplayInOrder ==
    ASSUME history \in Histories, NEW seq, seq = Sorted(Bars, Precedes)
    PROVE  /\ seq \in Seq(Bars)
           /\ \A j, k \in DOMAIN seq : j < k => seq[j].end <= seq[k].end
           /\ \A b \in Bars : \E k \in DOMAIN seq : seq[k] = b
<1> DEFINE n == Cardinality(Bars)
<1>1. IsFiniteSet(Bars) /\ n \in Nat
  BY BarsAreFinite, FS_CardinalityType
<1>2. seq = [k \in 1..n |->
               CHOOSE x \in Bars : Cardinality({y \in Bars : Precedes(y, x)}) = k - 1]
  BY DEF Sorted
<1>3. \A x \in Bars : Rank(x, BarOrder, Bars) = Cardinality({y \in Bars : Precedes(y, x)})
  <2> TAKE x \in Bars
  <2>1. {y \in Bars : <<y, x>> \in BarOrder} = {y \in Bars : Precedes(y, x)}
    BY BarsAreOrdered
  <2> QED BY <2>1 DEF Rank
<1>4. ByRank(seq, BarOrder, Bars)
  <2> SUFFICES ASSUME NEW k \in 1..n, NEW z \in Bars, Rank(z, BarOrder, Bars) = k - 1
               PROVE  seq[k] \in Bars /\ Rank(seq[k], BarOrder, Bars) = k - 1
    BY DEF ByRank
  <2>1. seq[k] = CHOOSE x \in Bars : Cardinality({y \in Bars : Precedes(y, x)}) = k - 1
    BY <1>2
  <2>2. Cardinality({y \in Bars : Precedes(y, z)}) = k - 1
    BY <1>3
  <2>3. seq[k] \in Bars /\ Cardinality({y \in Bars : Precedes(y, seq[k])}) = k - 1
    BY <2>1, <2>2
  <2> QED BY <1>3, <2>3
<1>5. InOrder(seq, BarOrder, Bars)
  BY <1>1, <1>4, BarsAreOrdered, RankedInOrder
<1>6. DOMAIN seq = 1..n /\ seq \in Seq(Bars)
  <2>1. DOMAIN seq = 1..n /\ seq \in [1..n -> Bars]
    BY <1>2, <1>5 DEF InOrder
  <2> HIDE DEF n
  <2> QED BY <1>1, <2>1, SeqDef
<1>7. \A j, k \in 1..n : j < k => seq[j].end <= seq[k].end
  <2> SUFFICES ASSUME NEW j \in 1..n, NEW k \in 1..n, j < k PROVE seq[j].end <= seq[k].end
    OBVIOUS
  <2>1. seq[j] \in Bars /\ seq[k] \in Bars /\ Precedes(seq[j], seq[k])
    BY <1>5, BarsAreOrdered DEF InOrder
  <2> QED BY <2>1, BarsAreOrdered
<1> QED BY <1>5, <1>6, <1>7 DEF InOrder

(* A finite set of numbers, ascending.                                     *)
LEMMA NumbersInOrder ==
    ASSUME NEW S \in SUBSET Nat, IsFiniteSet(S), NEW seq, seq = Ascending(S)
    PROVE  /\ seq \in Seq(S)
           /\ \A j, k \in DOMAIN seq : j < k => seq[j] < seq[k]
<1> DEFINE R == {x \in S \X S : x[1] < x[2]}
           n == Cardinality(S)
<1>1. \A a, b \in S : <<a, b>> \in R <=> a < b
  OBVIOUS
<1> HIDE DEF R
<1>2. IsOrder(R, S)
  <2>1. \A x \in S : x \in Int
    OBVIOUS
  <2> QED BY <1>1, <2>1 DEF IsOrder
<1>3. n \in Nat
  BY FS_CardinalityType
<1>4. seq = [k \in 1..n |-> CHOOSE x \in S : Cardinality({y \in S : y < x}) = k - 1]
  BY DEF Ascending, Sorted
<1>5. \A x \in S : Rank(x, R, S) = Cardinality({y \in S : y < x})
  <2> TAKE x \in S
  <2>1. {y \in S : <<y, x>> \in R} = {y \in S : y < x}
    BY <1>1
  <2> QED BY <2>1 DEF Rank
<1>6. ByRank(seq, R, S)
  <2> SUFFICES ASSUME NEW k \in 1..n, NEW z \in S, Rank(z, R, S) = k - 1
               PROVE  seq[k] \in S /\ Rank(seq[k], R, S) = k - 1
    BY DEF ByRank
  <2>1. seq[k] = CHOOSE x \in S : Cardinality({y \in S : y < x}) = k - 1
    BY <1>4
  <2>2. Cardinality({y \in S : y < z}) = k - 1
    BY <1>5
  <2>3. seq[k] \in S /\ Cardinality({y \in S : y < seq[k]}) = k - 1
    BY <2>1, <2>2
  <2> QED BY <1>5, <2>3
<1>7. InOrder(seq, R, S)
  BY <1>2, <1>6, RankedInOrder
<1>8. DOMAIN seq = 1..n /\ seq \in Seq(S)
  <2>1. DOMAIN seq = 1..n /\ seq \in [1..n -> S]
    BY <1>4, <1>7 DEF InOrder
  <2> HIDE DEF n
  <2> QED BY <1>3, <2>1, SeqDef
<1> QED BY <1>1, <1>7, <1>8 DEF InOrder

(* The handlers of an event run one after the other, each of them once.    *)
LEMMA HandlersInOrder ==
    ASSUME NEW bars, NEW seq, seq = Handlers(bars)
    PROVE  /\ seq \in Seq(Ssus \X Instruments)
           /\ \A j, k \in DOMAIN seq : seq[j] = seq[k] => j = k
           /\ \A k \in DOMAIN seq : \E b \in bars : b.instrument = seq[k][2]
<1> DEFINE S == {h \in Ssus \X Instruments :
                    \E b \in bars : b.factor = FactorOf[h[1]] /\ b.instrument = h[2]}
           Before(x, y) == x[1] < y[1] \/ (x[1] = y[1] /\ x[2] < y[2])
           R == {x \in S \X S : Before(x[1], x[2])}
           n == Cardinality(S)
<1>1. S \in SUBSET (Ssus \X Instruments) /\ IsFiniteSet(S)
  <2>1. S \in SUBSET (Ssus \X Instruments) /\ IsFiniteSet(Ssus \X Instruments)
    BY BacktestAssumption, FS_Product
  <2> HIDE DEF S
  <2> QED BY <2>1, FS_Subset
<1>2. seq = [k \in 1..n |-> CHOOSE x \in S : Cardinality({y \in S : Before(y, x)}) = k - 1]
  BY DEF Handlers, Sorted
<1>3. \A h \in S : h[1] \in Int /\ h[2] \in Int /\ h = <<h[1], h[2]>>
  <2> TAKE h \in S
  <2>1. h \in Ssus \X Instruments
    OBVIOUS
  <2>2. Ssus \subseteq Int /\ Instruments \subseteq Int
    BY BacktestAssumption
  <2> HIDE DEF S
  <2>3. h[1] \in Ssus /\ h[2] \in Instruments
    BY <2>1
  <2>4. h = <<h[1], h[2]>>
    BY <2>1
  <2> QED BY <2>2, <2>3, <2>4
<1>4. \A a, b \in S : <<a, b>> \in R <=> Before(a, b)
  OBVIOUS
<1> HIDE DEF R, S
<1>5. IsOrder(R, S)
  <2>1. \A x \in S : <<x, x>> \notin R
    BY <1>3, <1>4
  <2>2. \A x, y, z \in S : <<x, y>> \in R /\ <<y, z>> \in R => <<x, z>> \in R
    BY <1>3, <1>4
  <2>3. \A x, y \in S : x[1] = y[1] /\ x[2] = y[2] => x = y
    BY <1>3, Zenon
  <2>4. \A x, y \in S : x = y \/ <<x, y>> \in R \/ <<y, x>> \in R
    <3> TAKE x, y \in S
    <3>1. x[1] \in Int /\ x[2] \in Int /\ y[1] \in Int /\ y[2] \in Int
      BY <1>3
    <3>2. Before(x, y) \/ Before(y, x) \/ (x[1] = y[1] /\ x[2] = y[2])
      BY <3>1
    <3> HIDE DEF Before
    <3> QED BY <1>4, <2>3, <3>2
  <2> QED BY <2>1, <2>2, <2>4 DEF IsOrder
<1> HIDE DEF Before
<1>6. n \in Nat
  BY <1>1, FS_CardinalityType
<1>7. \A x \in S : Rank(x, R, S) = Cardinality({y \in S : Before(y, x)})
  <2> TAKE x \in S
  <2>1. {y \in S : <<y, x>> \in R} = {y \in S : Before(y, x)}
    BY <1>4
  <2> QED BY <2>1 DEF Rank
<1>8. ByRank(seq, R, S)
  <2> SUFFICES ASSUME NEW k \in 1..n, NEW z \in S, Rank(z, R, S) = k - 1
               PROVE  seq[k] \in S /\ Rank(seq[k], R, S) = k - 1
    BY DEF ByRank
  <2>1. seq[k] = CHOOSE x \in S : Cardinality({y \in S : Before(y, x)}) = k - 1
    BY <1>2
  <2>2. Cardinality({y \in S : Before(y, z)}) = k - 1
    BY <1>7
  <2>3. seq[k] \in S /\ Cardinality({y \in S : Before(y, seq[k])}) = k - 1
    BY <2>1, <2>2
  <2> QED BY <1>7, <2>3
<1>9. InOrder(seq, R, S)
  BY <1>1, <1>5, <1>8, RankedInOrder
<1>10. DOMAIN seq = 1..n /\ seq \in Seq(Ssus \X Instruments)
  <2>1. DOMAIN seq = 1..n /\ seq \in [1..n -> Ssus \X Instruments]
    BY <1>1, <1>2, <1>9 DEF InOrder
  <2> HIDE DEF n
  <2> QED BY <1>6, <2>1, SeqDef
<1>11. \A j, k \in 1..n : seq[j] = seq[k] => j = k
  <2> SUFFICES ASSUME NEW j \in 1..n, NEW k \in 1..n, j # k PROVE seq[j] # seq[k]
    OBVIOUS
  <2>1. j < k \/ k < j
    <3> HIDE DEF n
    <3> QED BY <1>6
  <2> QED BY <1>5, <1>9, <2>1 DEF IsOrder, InOrder
<1>12. ASSUME NEW k \in 1..n PROVE \E b \in bars : b.instrument = seq[k][2]
  <2>1. seq[k] \in S
    BY <1>9 DEF InOrder
  <2> QED BY <2>1 DEF S
<1> QED BY <1>10, <1>11, <1>12

-----------------------------------------------------------------------------
(* The bars come in order.                                                 *)

(* What is left of the replay lies ahead, and is in order; a bar of the    *)
(* replay that begins at --from or later has been seen or is still to      *)
(* come.                                                                   *)
ReplayOK ==
    /\ history \in Histories /\ now \in 0..MaxTime
    /\ replay \in Seq(Bars)
    /\ \A k \in DOMAIN replay : now < replay[k].end
    /\ \A j, k \in DOMAIN replay : j < k => replay[j].end <= replay[k].end

SeriesOK ==
    /\ series \in [Instruments -> [Timeframes -> Seq(Nat)]]
    /\ \A i \in Instruments, f \in Timeframes :
          /\ \A j, k \in DOMAIN series[i][f] : j < k => series[i][f][j] < series[i][f][k]
          /\ \A k \in DOMAIN series[i][f] : series[i][f][k] <= now \/ series[i][f][k] <= From

NothingLost ==
    \A b \in Bars : From < b.end =>
        \/ \E k \in DOMAIN replay : replay[k] = b
        \/ \E k \in DOMAIN series[b.instrument][b.factor] :
              series[b.instrument][b.factor][k] = b.end

FeedInv == ReplayOK /\ SeriesOK /\ NothingLost

(* The constants a proof about bars needs.                                 *)
LEMMA FeedConstants ==
    /\ MaxTime \in Nat /\ From \in Nat /\ Times \subseteq Nat
    /\ Factors \subseteq Timeframes /\ Timeframes \subseteq Nat \ {0}
BY BacktestAssumption DEF Times, Factors, Timeframes

(* The bars are those of the history.                                      *)
LEMMA SameBars ==
    ASSUME history' = history
    PROVE  Bars' = Bars
BY DEF Bars, ReplayEnds, LoadBetween

(* Nothing but an event of the feed touches it.                            *)
LEMMA FeedStays ==
    ASSUME FeedInv, UNCHANGED feed
    PROVE  FeedInv'
<1>1. Bars' = Bars
  BY SameBars DEF feed
<1> QED BY <1>1 DEF FeedInv, ReplayOK, SeriesOK, NothingLost, feed

LEMMA FeedStarts ==
    ASSUME Init
    PROVE  FeedInv
<1>1. history \in Histories /\ now = 0 /\ replay = Sorted(Bars, Precedes)
  BY DEF Init
<1>2. ReplayOK
  <2>1. /\ replay \in Seq(Bars)
        /\ \A j, k \in DOMAIN replay : j < k => replay[j].end <= replay[k].end
    BY <1>1, ReplayInOrder
  <2>2. \A k \in DOMAIN replay : replay[k] \in Bars
    BY <2>1, LenProperties, ElementOfSeq
  <2>3. \A k \in DOMAIN replay : now < replay[k].end
    BY <1>1, <2>2, BarsAreFinite, FeedConstants DEF Times
  <2> QED BY <1>1, <2>1, <2>3, FeedConstants DEF ReplayOK
<1>3. SeriesOK
  <2>1. ASSUME NEW i \in Instruments, NEW f \in Timeframes
        PROVE  /\ series[i][f] \in Seq(Nat)
               /\ \A j, k \in DOMAIN series[i][f] : j < k => series[i][f][j] < series[i][f][k]
               /\ \A k \in DOMAIN series[i][f] : series[i][f][k] <= From
    <3>1. series[i][f] = IF \E s \in Ssus : FactorOf[s] = f
                           THEN Ascending(WarmupEnds(i, f)) ELSE <<>>
      BY DEF Init
    <3>2. CASE series[i][f] = <<>>
      BY <3>2, EmptySeq
    <3>3. CASE series[i][f] = Ascending(WarmupEnds(i, f))
      <4> DEFINE W == WarmupEnds(i, f)
      <4>1. f \in Nat \ {0}
        BY FeedConstants
      <4>2. W \in SUBSET Nat /\ IsFiniteSet(W) /\ \A e \in W : e <= From
        BY <1>1, <4>1, WarmedUp
      <4> HIDE DEF W
      <4>3. /\ series[i][f] \in Seq(W)
            /\ \A j, k \in DOMAIN series[i][f] : j < k => series[i][f][j] < series[i][f][k]
        BY <3>3, <4>2, NumbersInOrder DEF W
      <4>4. \A k \in DOMAIN series[i][f] : series[i][f][k] \in W
        BY <4>3, LenProperties, ElementOfSeq
      <4> QED BY <4>2, <4>3, <4>4, SeqMonotonic
    <3> QED BY <3>1, <3>2, <3>3
  <2>2. series \in [Instruments -> [Timeframes -> Seq(Nat)]]
    <3>1. series = [i \in Instruments |-> [f \in Timeframes |-> series[i][f]]]
      BY DEF Init
    <3> QED BY <2>1, <3>1
  <2> QED BY <2>1, <2>2 DEF SeriesOK
<1>4. NothingLost
  BY <1>1, ReplayInOrder DEF NothingLost
<1> QED BY <1>2, <1>3, <1>4 DEF FeedInv

(* A group is all the bars that end next, and leaves the later ones.       *)
GroupOf(n) == {b \in {replay[k] : k \in 1..n} : IsNew(b)}

LEMMA GroupTaken ==
    ASSUME FeedInv, NextGroup
    PROVE  \E n \in 1..Len(replay) :
             /\ \A k \in 1..n : replay[k].end = now'
             /\ \A k \in (n + 1)..Len(replay) : now' < replay[k].end
             /\ replay' = SubSeq(replay, n + 1, Len(replay))
             /\ series' = [i \in Instruments |-> [f \in Timeframes |->
                  IF \E b \in GroupOf(n) : b.instrument = i /\ b.factor = f
                    THEN Append(series[i][f], now') ELSE series[i][f]]]
             /\ queue' = Handlers(GroupOf(n))
             /\ now' \in Times /\ now < now'
<1> DEFINE L == Len(replay)
           same == {k \in DOMAIN replay : \A j \in 1..k : replay[j].end = now'}
           n == MaxOf(same)
<1>1. L \in Nat /\ DOMAIN replay = 1..L /\ \A k \in 1..L : replay[k] \in Bars
  BY LenProperties, ElementOfSeq DEF FeedInv, ReplayOK
<1>2. \A k \in 1..L : replay[k].end \in Nat /\ replay[k].end \in Times
  BY <1>1, BarsAreFinite, FeedConstants DEF FeedInv, ReplayOK
<1>3. L >= 1 /\ now' = replay[1].end
  <2>1. replay # <<>> /\ now' = Head(replay).end
    BY DEF NextGroup
  <2>2. L # 0
    BY <2>1, EmptySeq DEF FeedInv, ReplayOK
  <2>3. Head(replay) = replay[1]
    BY <1>1, <2>1 DEF FeedInv, ReplayOK
  <2> QED BY <1>1, <2>1, <2>2, <2>3
<1>4. n \in same /\ \A k \in same : n >= k
  <2>1. 1 \in same
    BY <1>1, <1>3
  <2>2. same \in SUBSET (1..L) /\ IsFiniteSet(1..L) /\ 1..L \subseteq Int
    BY <1>1, FS_Interval
  <2> HIDE DEF same, L
  <2> QED BY <2>1, <2>2, HasMax, FS_Subset
<1>5. n \in 1..L /\ \A k \in 1..n : replay[k].end = now'
  BY <1>1, <1>4
<1>6. /\ replay' = SubSeq(replay, n + 1, L)
      /\ series' = [i \in Instruments |-> [f \in Timeframes |->
                  IF \E b \in GroupOf(n) : b.instrument = i /\ b.factor = f
                    THEN Append(series[i][f], now') ELSE series[i][f]]]
      /\ queue' = Handlers(GroupOf(n))
  BY DEF NextGroup, GroupOf
<1>7. \A k \in (n + 1)..L : now' < replay[k].end
  <2>1. \A j, k \in 1..L : j < k => replay[j].end <= replay[k].end
    BY <1>1 DEF FeedInv, ReplayOK
  <2>2. \A k \in same : n >= k
    BY <1>4
  <2> HIDE DEF n
  <2>3. ASSUME n + 1 \in 1..L PROVE now' # replay[n + 1].end
    <3> SUFFICES ASSUME now' = replay[n + 1].end PROVE FALSE
      OBVIOUS
    <3>1. \A k \in 1..(n + 1) : replay[k].end = now'
      <4>1. \A k \in 1..(n + 1) : k \in 1..n \/ k = n + 1
        BY <1>1, <1>5
      <4> QED BY <1>5, <4>1
    <3>2. n + 1 \in same
      BY <1>1, <2>3, <3>1
    <3> HIDE DEF same
    <3> QED BY <1>1, <1>5, <2>2, <3>2
  <2>4. ASSUME NEW k \in (n + 1)..L PROVE now' < replay[k].end
    <3>1. k \in 1..L /\ n + 1 \in 1..L /\ 1 \in 1..L /\ 1 < n + 1
      BY <1>1, <1>5
    <3>2. now' <= replay[n + 1].end /\ replay[n + 1].end <= replay[k].end
      <4>1. replay[1].end <= replay[n + 1].end
        BY <2>1, <3>1
      <4>2. k = n + 1 \/ n + 1 < k
        BY <1>1, <1>5
      <4>3. replay[n + 1].end <= replay[k].end
        BY <1>2, <2>1, <3>1, <4>2
      <4> QED BY <1>3, <4>1, <4>3
    <3> QED BY <1>2, <1>3, <2>3, <3>1, <3>2
  <2> QED BY <2>4
<1>8. now' \in Times /\ now < now'
  BY <1>1, <1>2, <1>3 DEF FeedInv, ReplayOK
<1> HIDE DEF n
<1> QED BY <1>5, <1>6, <1>7, <1>8

(* Appending a number that is larger than all the others.                  *)
LEMMA Appended ==
    ASSUME NEW seq \in Seq(Nat), NEW e \in Nat,
           \A j, k \in DOMAIN seq : j < k => seq[j] < seq[k],
           \A k \in DOMAIN seq : seq[k] < e
    PROVE  /\ Append(seq, e) \in Seq(Nat)
           /\ \A j, k \in DOMAIN Append(seq, e) : j < k => Append(seq, e)[j] < Append(seq, e)[k]
           /\ \A k \in DOMAIN Append(seq, e) : Append(seq, e)[k] = e \/ \E j \in DOMAIN seq : Append(seq, e)[k] = seq[j]
           /\ \E k \in DOMAIN Append(seq, e) : Append(seq, e)[k] = e
           /\ \A j \in DOMAIN seq : \E k \in DOMAIN Append(seq, e) : Append(seq, e)[k] = seq[j]
<1>1. /\ Append(seq, e) \in Seq(Nat) /\ Len(seq) \in Nat
      /\ DOMAIN Append(seq, e) = 1..(Len(seq) + 1) /\ DOMAIN seq = 1..Len(seq)
      /\ Append(seq, e)[Len(seq) + 1] = e
      /\ \A k \in 1..Len(seq) : Append(seq, e)[k] = seq[k]
  BY AppendProperties, LenProperties
<1>2. \A k \in 1..(Len(seq) + 1) : k \in 1..Len(seq) \/ k = Len(seq) + 1
  BY <1>1
<1>3. \A k \in 1..Len(seq) : k \in 1..(Len(seq) + 1) /\ k < Len(seq) + 1
  BY <1>1
<1>4. Len(seq) + 1 \in 1..(Len(seq) + 1)
  BY <1>1
<1>5. \A j, k \in 1..(Len(seq) + 1) : j < k => Append(seq, e)[j] < Append(seq, e)[k]
  <2> SUFFICES ASSUME NEW j \in 1..(Len(seq) + 1), NEW k \in 1..(Len(seq) + 1), j < k
               PROVE  Append(seq, e)[j] < Append(seq, e)[k]
    OBVIOUS
  <2>1. j \in 1..Len(seq)
    BY <1>1
  <2> QED BY <1>1, <1>2, <2>1
<1> QED BY <1>1, <1>2, <1>3, <1>4, <1>5

LEMMA GroupStep ==
    ASSUME FeedInv, NextGroup
    PROVE  FeedInv'
<1>1. PICK n \in 1..Len(replay) :
        /\ \A k \in 1..n : replay[k].end = now'
        /\ \A k \in (n + 1)..Len(replay) : now' < replay[k].end
        /\ replay' = SubSeq(replay, n + 1, Len(replay))
        /\ series' = [i \in Instruments |-> [f \in Timeframes |->
             IF \E b \in GroupOf(n) : b.instrument = i /\ b.factor = f
               THEN Append(series[i][f], now') ELSE series[i][f]]]
        /\ now' \in Times /\ now < now'
  BY GroupTaken
<1>2. history' = history /\ Bars' = Bars
  BY SameBars DEF NextGroup
<1> DEFINE L == Len(replay)
<1>3. L \in Nat /\ DOMAIN replay = 1..L /\ \A k \in 1..L : replay[k] \in Bars
  BY LenProperties, ElementOfSeq DEF FeedInv, ReplayOK
<1>4. now \in Nat /\ now' \in Nat /\ now' \in 0..MaxTime /\ From \in Nat
  BY <1>1, FeedConstants DEF FeedInv, ReplayOK, Times
<1>5. \A k \in 1..n : k \in 1..L /\ replay[k] \in Bars
  BY <1>3
<1>6. /\ replay' \in Seq(Bars)
      /\ DOMAIN replay' = 1..(L - n)
      /\ \A k \in 1..(L - n) : replay'[k] = replay[n + k] /\ n + k \in (n + 1)..L
  <2>1. n + 1 \in Int /\ L \in Int /\ \A k \in (n + 1)..L : replay[k] \in Bars
    BY <1>3
  <2>2. /\ replay' \in Seq(Bars)
        /\ Len(replay') = IF n + 1 <= L THEN L - (n + 1) + 1 ELSE 0
        /\ \A k \in 1..(L - (n + 1) + 1) : replay'[k] = replay[n + 1 + k - 1]
    <3> HIDE DEF L
    <3> QED BY <1>1, <2>1, SubSeqProperties DEF L
  <2>3. Len(replay') = L - n /\ L - (n + 1) + 1 = L - n
    <3>1. n \in Nat /\ n <= L
      BY <1>3
    <3> HIDE DEF L
    <3>2. CASE n = L
      BY <1>3, <2>2, <3>1, <3>2
    <3>3. CASE n # L
      <4>1. n + 1 <= L
        BY <1>3, <3>1, <3>3
      <4> QED BY <1>3, <2>2, <3>1, <4>1
    <3> QED BY <3>2, <3>3
  <2>4. \A k \in 1..(L - n) : n + 1 + k - 1 = n + k /\ n + k \in (n + 1)..L
    BY <1>3
  <2>5. DOMAIN replay' = 1..Len(replay')
    BY <2>2, LenProperties
  <2> HIDE DEF L
  <2> QED BY <2>2, <2>3, <2>4, <2>5
<1>7. ReplayOK'
  <2>1. \A k \in DOMAIN replay' : now' < replay'[k].end
    BY <1>1, <1>6
  <2>2. \A j, k \in DOMAIN replay' : j < k => replay'[j].end <= replay'[k].end
    <3> SUFFICES ASSUME NEW j \in 1..(L - n), NEW k \in 1..(L - n), j < k
                 PROVE  replay'[j].end <= replay'[k].end
      BY <1>6
    <3>1. n + j \in 1..L /\ n + k \in 1..L /\ n + j < n + k
      BY <1>3
    <3> QED BY <1>3, <1>6, <3>1 DEF FeedInv, ReplayOK
  <2> QED BY <1>2, <1>4, <1>6, <2>1, <2>2 DEF FeedInv, ReplayOK
<1>8. ASSUME NEW i \in Instruments, NEW f \in Timeframes
      PROVE  /\ series'[i][f] \in Seq(Nat)
             /\ \A j, k \in DOMAIN series'[i][f] : j < k => series'[i][f][j] < series'[i][f][k]
             /\ \A k \in DOMAIN series'[i][f] : series'[i][f][k] <= now' \/ series'[i][f][k] <= From
             /\ \A k \in DOMAIN series[i][f] : \E l \in DOMAIN series'[i][f] : series'[i][f][l] = series[i][f][k]
             /\ (\E b \in GroupOf(n) : b.instrument = i /\ b.factor = f) =>
                    \E l \in DOMAIN series'[i][f] : series'[i][f][l] = now'
  <2> DEFINE seen == series[i][f]
  <2>1. /\ seen \in Seq(Nat)
        /\ \A j, k \in DOMAIN seen : j < k => seen[j] < seen[k]
        /\ \A k \in DOMAIN seen : seen[k] <= now \/ seen[k] <= From
        /\ \A k \in DOMAIN seen : seen[k] \in Nat
    BY LenProperties, ElementOfSeq DEF FeedInv, SeriesOK
  <2>2. CASE \E b \in GroupOf(n) : b.instrument = i /\ b.factor = f
    <3>1. series'[i][f] = Append(seen, now')
      BY <1>1, <2>2
    <3>2. \A k \in DOMAIN seen : seen[k] < now'
      <4>1. PICK b \in GroupOf(n) : b.instrument = i /\ b.factor = f
        BY <2>2
      <4>2. b.end = now' /\ IsNew(b)
        BY <1>1 DEF GroupOf
      <4> QED BY <4>1, <4>2 DEF IsNew
    <3> HIDE DEF seen
    <3>3. /\ Append(seen, now') \in Seq(Nat)
          /\ \A j, k \in DOMAIN Append(seen, now') : j < k => Append(seen, now')[j] < Append(seen, now')[k]
          /\ \A k \in DOMAIN Append(seen, now') :
                Append(seen, now')[k] = now' \/ \E j \in DOMAIN seen : Append(seen, now')[k] = seen[j]
          /\ \E k \in DOMAIN Append(seen, now') : Append(seen, now')[k] = now'
          /\ \A j \in DOMAIN seen : \E k \in DOMAIN Append(seen, now') : Append(seen, now')[k] = seen[j]
      BY <1>4, <2>1, <3>2, Appended
    <3>4. \A k \in DOMAIN seen : seen[k] <= now'
      BY <1>4, <2>1, <3>2
    <3>5. \A k \in DOMAIN Append(seen, now') : Append(seen, now')[k] <= now'
      BY <1>4, <3>3, <3>4
    <3> QED BY <3>1, <3>3, <3>5 DEF seen
  <2>3. CASE ~\E b \in GroupOf(n) : b.instrument = i /\ b.factor = f
    <3>1. series'[i][f] = seen
      BY <1>1, <2>3
    <3> HIDE DEF seen
    <3>2. \A k \in DOMAIN seen : seen[k] <= now' \/ seen[k] <= From
      BY <1>1, <1>4, <2>1
    <3> QED BY <2>1, <2>3, <3>1, <3>2 DEF seen
  <2> QED BY <2>2, <2>3
<1>9. SeriesOK'
  <2>1. series' = [i \in Instruments |-> [f \in Timeframes |-> series'[i][f]]]
    BY <1>1
  <2>2. series' \in [Instruments -> [Timeframes -> Seq(Nat)]]
    BY <1>8, <2>1
  <2> QED BY <1>8, <2>2 DEF SeriesOK
<1>10. NothingLost'
  <2> SUFFICES ASSUME NEW b \in Bars, From < b.end
               PROVE  \/ \E k \in DOMAIN replay' : replay'[k] = b
                      \/ \E k \in DOMAIN series'[b.instrument][b.factor] :
                            series'[b.instrument][b.factor][k] = b.end
    BY <1>2 DEF NothingLost
  <2>1. b.instrument \in Instruments /\ b.factor \in Timeframes /\ b.end \in Nat
    BY BarsAreFinite, FeedConstants DEF FeedInv, ReplayOK
  <2>2. CASE \E k \in DOMAIN series[b.instrument][b.factor] :
                series[b.instrument][b.factor][k] = b.end
    BY <1>8, <2>1, <2>2
  <2>3. CASE \E k \in DOMAIN replay : replay[k] = b
    <3>1. PICK k \in 1..L : replay[k] = b
      BY <1>3, <2>3
    <3>2. CASE k > n
      <4>1. k - n \in 1..(L - n) /\ n + (k - n) = k
        BY <1>3, <3>2
      <4> QED BY <1>6, <3>1, <4>1
    <3>3. CASE k <= n
      <4>1. k \in 1..n /\ b.end = now'
        BY <1>1, <3>1, <3>3
      <4>2. IsNew(b)
        <5> SUFFICES ASSUME NEW l \in DOMAIN series[b.instrument][b.factor]
                     PROVE  series[b.instrument][b.factor][l] < b.end
          BY DEF IsNew
        <5> DEFINE seen == series[b.instrument][b.factor]
        <5>1. seen \in Seq(Nat) /\ (seen[l] <= now \/ seen[l] <= From)
          BY <2>1 DEF FeedInv, SeriesOK
        <5>2. seen[l] \in Nat
          BY <5>1, LenProperties, ElementOfSeq
        <5> HIDE DEF seen
        <5>3. seen[l] < b.end
          BY <1>1, <1>4, <2>1, <4>1, <5>1, <5>2
        <5> QED BY <5>3 DEF seen
      <4>3. b \in GroupOf(n)
        BY <3>1, <4>1, <4>2 DEF GroupOf
      <4> QED BY <1>8, <2>1, <4>1, <4>3
    <3> QED BY <1>3, <3>2, <3>3
  <2> QED BY <2>2, <2>3 DEF FeedInv, NothingLost
<1> QED BY <1>7, <1>9, <1>10 DEF FeedInv

(* The bars of every backtest come in order.                               *)
LEMMA FeedSteps ==
    ASSUME FeedInv, [Next]_vars
    PROVE  FeedInv'
<1>1. CASE NextGroup
  BY <1>1, GroupStep
<1>2. CASE UNCHANGED feed
  BY <1>2, FeedStays
<1>3. NextGroup \/ UNCHANGED feed
  <2>1. Pass \/ Done \/ UNCHANGED vars => UNCHANGED feed
    BY DEF Pass, Done, vars
  <2>2. ASSUME NEW s \in Ssus, NEW i \in Instruments, Partial(s, i) \/ Close(s, i) \/ Enter(s, i)
        PROVE  UNCHANGED feed
    BY <2>2 DEF Partial, Close, Enter
  <2> QED BY <2>1, <2>2 DEF Next
<1> QED BY <1>1, <1>2, <1>3

(* BarsInOrder is what the feed of a backtest guarantees.                  *)
LEMMA FeedDelivers ==
    ASSUME FeedInv
    PROVE  BarsInOrder
<1> SUFFICES ASSUME NEW i \in Instruments, NEW s \in Ssus
             PROVE  LET f    == FactorOf[s]
                        seen == series[i][f]
                        whole == {e \in Times : /\ e % f = 0 /\ From <= e - f /\ e <= To
                                    /\ (e - f)..(e - 1) \subseteq DOMAIN history[i]}
                    IN  /\ \A j, k \in DOMAIN seen : j < k => seen[j] < seen[k]
                        /\ \A k \in DOMAIN seen : seen[k] <= MaxOf({now, From})
                        /\ Finished => whole \subseteq Range(seen)
  BY DEF BarsInOrder
<1> DEFINE f == FactorOf[s]
           seen == series[i][f]
<1>1. f \in Factors /\ f \in Timeframes /\ f \in Nat \ {0}
  BY FeedConstants DEF Factors
<1>2. /\ seen \in Seq(Nat)
      /\ \A j, k \in DOMAIN seen : j < k => seen[j] < seen[k]
      /\ \A k \in DOMAIN seen : seen[k] <= now \/ seen[k] <= From
  BY <1>1 DEF FeedInv, SeriesOK
<1>3. \A k \in DOMAIN seen : seen[k] <= MaxOf({now, From})
  <2>1. now \in Nat /\ From \in Nat
    BY FeedConstants DEF FeedInv, ReplayOK
  <2>2. IsFiniteSet({now, From})
    <3>1. IsFiniteSet({now} \cup {From})
      BY FS_Singleton, FS_AddElement
    <3>2. {now, From} = {now} \cup {From}
      OBVIOUS
    <3> QED BY <3>1, <3>2
  <2>3. MaxOf({now, From}) \in {now, From} /\ MaxOf({now, From}) >= now /\ MaxOf({now, From}) >= From
    BY <2>1, <2>2, HasMax
  <2>4. \A k \in DOMAIN seen : seen[k] \in Nat
    BY <1>2, LenProperties, ElementOfSeq
  <2> QED BY <1>2, <2>1, <2>3, <2>4
<1>4. ASSUME Finished, NEW e \in Times, e % f = 0, From <= e - f, e <= To,
             (e - f)..(e - 1) \subseteq DOMAIN history[i]
      PROVE  e \in Range(seen)
  <2>1. history \in Histories
    BY DEF FeedInv, ReplayOK
  <2>2. e \in ReplayEnds(i, f)
    BY <1>1, <1>4, <2>1, Replayed
  <2> DEFINE b == [end |-> e, factor |-> f, instrument |-> i]
  <2>3. b \in Bars
    BY <1>1, <2>1, <2>2, BarsAreFinite
  <2>4. From < b.end
    BY <1>1, <1>4, FeedConstants
  <2>5. DOMAIN replay = {}
    BY <1>4 DEF Finished
  <2>6. \E k \in DOMAIN series[b.instrument][b.factor] : series[b.instrument][b.factor][k] = b.end
    <3> HIDE DEF b
    <3> QED BY <2>3, <2>4, <2>5 DEF FeedInv, NothingLost
  <2> QED BY <2>6 DEF Range
<1> HIDE DEF f, seen
<1> QED BY <1>2, <1>3, <1>4 DEF f, seen

(* A strategy never sees a bar before its time or twice, and misses none   *)
(* whose minutes are all stored (BacktestEngine, drop_edge_buckets).       *)
THEOREM BarsComeInOrder == Spec => []BarsInOrder
<1>1. Spec => []FeedInv
  BY FeedStarts, FeedSteps, PTL DEF Spec
<1> QED BY <1>1, FeedDelivers, PTL

-----------------------------------------------------------------------------
(* The book.  What its limits are read from, told by the positions.        *)
EnteredBy(s) == {p \in PosIds : p.ssu = s /\ positions[p] # NoRow}
OpenBy(s) == {p \in EnteredBy(s) : positions[p].status = "OPEN"}

OpenAgrees == \A s \in Ssus : open_by_ssu[s] = OpenBy(s)
KeyAgrees ==
    \A s \in Ssus, i \in Instruments, d \in Sides :
        open_by_key[s][i][d] = {p \in OpenBy(s) : p.instrument = i /\ positions[p].side = d}
LastAgrees ==
    \A s \in Ssus : last_entry_by_ssu[s] = MaxOf({p.at : p \in EnteredBy(s)} \cup {0})
DayAgrees ==
    \A s \in Ssus : \A d \in DOMAIN entries_by_ssu_day[s] :
        entries_by_ssu_day[s][d] = Cardinality({p \in EnteredBy(s) : Day(p.at) = d})
TradeAgrees(p) ==
    LET row == positions[p]
        t   == trades[p]
    IN  /\ t = NoTrade <=> row = NoRow
        /\ t # NoTrade =>
             /\ t.side = row.side /\ t.status = row.status /\ t.exit_at = row.exit_at
             /\ t.remaining_qty = IF t.status = "CLOSED" THEN 0
                                  ELSE Units - Len(t.partial_exits) * PartialUnits

LEMMA AgreementInParts ==
    IndexesAgree <=> /\ OpenAgrees /\ KeyAgrees /\ LastAgrees /\ DayAgrees
                     /\ \A p \in PosIds : TradeAgrees(p)
BY Zenon DEF IndexesAgree, OpenAgrees, KeyAgrees, LastAgrees, DayAgrees, TradeAgrees,
             EnteredBy, OpenBy

(* The shapes of rows, trades and indexes.  What a trade earned is left    *)
(* open: it is a sum over its parts.                                       *)
Rows == [side : Sides, status : {"OPEN", "CLOSED"}, exit_at : 0..MaxTime]
IsList(x) == x \in Seq({x[k] : k \in DOMAIN x})
IsTrade(t) ==
    /\ DOMAIN t = {"side", "status", "remaining_qty", "raw_entry", "entry_price", "raw_exit",
                   "exit_at", "charges", "funding_charges", "gross_pnl", "net_pnl",
                   "partial_exits"}
    /\ t.side \in Sides /\ IsList(t.partial_exits)

BookTypes ==
    /\ positions \in [PosIds -> Rows \cup {NoRow}]
    /\ DOMAIN trades = PosIds
    /\ \A p \in PosIds : trades[p] = NoTrade \/ IsTrade(trades[p])
    /\ open_by_ssu \in [Ssus -> SUBSET PosIds]
    /\ open_by_key \in [Ssus -> [Instruments -> [Sides -> SUBSET PosIds]]]
    /\ last_entry_by_ssu \in [Ssus -> Nat]
    /\ entries_by_ssu_day \in [Ssus -> [0..(MaxTime \div DayLength) -> Nat]]

(* No handler runs twice at a bar, so the position it may enter is new.    *)
Here(h) == [ssu |-> h[1], instrument |-> h[2], at |-> now]

QueueOK ==
    /\ queue \in Seq(Ssus \X Instruments)
    /\ \A j, k \in DOMAIN queue : queue[j] = queue[k] => j = k
    /\ \A k \in DOMAIN queue : now \in Times /\ positions[Here(queue[k])] = NoRow
    /\ \A p \in PosIds : positions[p] # NoRow => p.at <= now

BookInv == BookTypes /\ QueueOK /\ IndexesAgree

(* The positions there can be are finitely many.                           *)
LEMMA PosIdsAreFinite ==
    \A S \in SUBSET PosIds : IsFiniteSet(S)
<1> DEFINE P == (Ssus \X Instruments) \X Times
           g == [p \in PosIds |-> <<<<p.ssu, p.instrument>>, p.at>>]
<1>1. IsFiniteSet(P)
  <2>1. IsFiniteSet(Times)
    <3>1. MaxTime \in Int /\ 1 \in Int
      BY BacktestAssumption
    <3> QED BY <3>1, FS_Interval DEF Times
  <2>2. IsFiniteSet(Ssus \X Instruments)
    BY BacktestAssumption, FS_Product
  <2> QED BY <2>1, <2>2, FS_Product
<1>2. g \in Injection(PosIds, P)
  <2>1. g \in [PosIds -> P]
    BY DEF PosIds
  <2>2. ASSUME NEW a \in PosIds, NEW b \in PosIds, g[a] = g[b] PROVE a = b
    BY <2>2 DEF PosIds
  <2> HIDE DEF g
  <2> QED BY <2>1, <2>2 DEF Injection, IsInjective
<1>3. IsFiniteSet(PosIds)
  <2> HIDE DEF g, P
  <2> QED BY <1>1, <1>2, FS_Injection
<1> QED BY <1>3, FS_Subset

(* The largest element is the only one with its property.                  *)
LEMMA MaxIs ==
    ASSUME NEW T \in SUBSET Int, NEW x \in T, \A y \in T : x >= y
    PROVE  MaxOf(T) = x
<1>1. MaxOf(T) \in T /\ \A y \in T : MaxOf(T) >= y
  BY DEF MaxOf
<1>2. MaxOf(T) \in Int /\ x \in Int /\ MaxOf(T) >= x /\ x >= MaxOf(T)
  BY <1>1
<1> QED BY <1>2

(* A list one longer.                                                      *)
LEMMA ListGrows ==
    ASSUME NEW x, IsList(x), NEW e
    PROVE  IsList(Append(x, e)) /\ Len(x) \in Nat /\ Len(Append(x, e)) = Len(x) + 1
<1> DEFINE S == {x[k] : k \in DOMAIN x}
           A == Append(x, e)
<1>1. x \in Seq(S) /\ x \in Seq(S \cup {e}) /\ e \in S \cup {e}
  <2>1. x \in Seq(S)
    BY DEF IsList
  <2> HIDE DEF S
  <2> QED BY <2>1, SeqMonotonic
<1> HIDE DEF S
<1>2. /\ A \in Seq(S \cup {e}) /\ Len(x) \in Nat /\ Len(A) = Len(x) + 1
  BY <1>1, AppendProperties, LenProperties
<1>3. Len(A) \in Nat /\ DOMAIN A = 1..Len(A) /\ A \in [1..Len(A) -> S \cup {e}]
  BY <1>2, LenProperties
<1> HIDE DEF A
<1>4. A \in [1..Len(A) -> {A[k] : k \in DOMAIN A}]
  BY <1>3
<1>5. A \in Seq({A[k] : k \in DOMAIN A})
  BY <1>3, <1>4, SeqDef
<1> QED BY <1>2, <1>5 DEF IsList, A

(* A position a handler manages is open, and is the one its exit means.    *)
LEMMA TargetIsManaged ==
    ASSUME BookInv, NEW s \in Ssus, NEW i \in Instruments, NEW p \in Managed(s, i)
    PROVE  /\ p \in PosIds /\ p.ssu = s /\ p.instrument = i /\ p.at < now
           /\ positions[p] \in Rows /\ positions[p].status = "OPEN"
           /\ Target(s, i, positions[p].side, p) = {p}
           /\ IsTrade(trades[p]) /\ trades[p] # NoTrade /\ trades[p].status = "OPEN"
<1>1. p \in OpenBy(s) /\ p.instrument = i /\ p.at < now
  BY AgreementInParts DEF Managed, BookInv, OpenAgrees
<1>2. p \in PosIds /\ p.ssu = s /\ positions[p] # NoRow /\ positions[p].status = "OPEN"
  BY <1>1 DEF OpenBy, EnteredBy
<1>3. positions[p] \in Rows
  BY <1>2 DEF BookInv, BookTypes
<1>4. Target(s, i, positions[p].side, p) = {p}
  BY <1>1, <1>2 DEF Target
<1>5. trades[p] # NoTrade /\ trades[p].status = "OPEN"
  BY <1>2, AgreementInParts DEF BookInv, TradeAgrees
<1>6. IsTrade(trades[p])
  BY <1>2, <1>5 DEF BookInv, BookTypes
<1> QED BY <1>1, <1>2, <1>3, <1>4, <1>5, <1>6

(* The queue moves on.                                                     *)
LEMMA QueueMovesOn ==
    ASSUME QueueOK, queue # <<>>
    PROVE  /\ Head(queue) = queue[1] /\ 1 \in DOMAIN queue
           /\ Tail(queue) \in Seq(Ssus \X Instruments)
           /\ \A k \in DOMAIN Tail(queue) : k + 1 \in DOMAIN queue /\ Tail(queue)[k] = queue[k + 1]
           /\ \A j, k \in DOMAIN Tail(queue) : Tail(queue)[j] = Tail(queue)[k] => j = k
           /\ \A k \in DOMAIN Tail(queue) : Tail(queue)[k] # Head(queue)
<1> DEFINE q == Tail(queue)
           T == Ssus \X Instruments
<1>1. queue \in Seq(T) /\ \A j, k \in DOMAIN queue : queue[j] = queue[k] => j = k
  BY DEF QueueOK
<1> HIDE DEF T
<1>2. /\ Len(queue) \in Nat /\ DOMAIN queue = 1..Len(queue) /\ Len(queue) # 0
      /\ q \in Seq(T) /\ Len(q) = Len(queue) - 1 /\ DOMAIN q = 1..Len(q)
      /\ \A k \in 1..Len(q) : q[k] = queue[k + 1]
  BY <1>1, LenProperties, HeadTailProperties, EmptySeq
<1>3. Head(queue) = queue[1]
  BY <1>1, <1>2
<1>4. 1 \in DOMAIN queue /\ \A k \in DOMAIN q : k + 1 \in DOMAIN queue /\ k + 1 # 1
  BY <1>2
<1>5. \A j, k \in DOMAIN q : q[j] = q[k] => j = k
  <2> SUFFICES ASSUME NEW j \in DOMAIN q, NEW k \in DOMAIN q, q[j] = q[k] PROVE j = k
    OBVIOUS
  <2>1. j + 1 = k + 1
    BY <1>1, <1>2, <1>4
  <2>2. j \in Int /\ k \in Int
    BY <1>2
  <2> HIDE DEF q
  <2> QED BY <2>1, <2>2
<1>6. \A k \in DOMAIN q : q[k] # Head(queue)
  BY <1>1, <1>2, <1>3, <1>4
<1> QED BY <1>2, <1>3, <1>4, <1>5, <1>6 DEF T

(* What an entry does: a position that was not there.                      *)
Opened(p, side) == [side |-> side, status |-> "OPEN", exit_at |-> 0]

LEMMA EnterEffect ==
    ASSUME FeedInv, BookInv, NEW s \in Ssus, NEW i \in Instruments, Enter(s, i)
    PROVE  \E p \in PosIds, side \in Sides :
             /\ p = Here(<<s, i>>) /\ p.ssu = s /\ p.instrument = i /\ p.at = now
             /\ positions[p] = NoRow
             /\ positions' = [positions EXCEPT ![p] = Opened(p, side)]
             /\ DOMAIN trades' = PosIds
             /\ \A q \in PosIds \ {p} : trades'[q] = trades[q]
             /\ IsTrade(trades'[p]) /\ trades'[p].side = side /\ trades'[p].status = "OPEN"
             /\ trades'[p].exit_at = 0 /\ trades'[p].remaining_qty = Units
             /\ trades'[p].partial_exits = <<>>
             /\ IndexOpen(p, side)
<1>1. PICK side \in Sides :
        LET p     == [ssu |-> s, instrument |-> i, at |-> now]
            raw   == CloseOf(i)
            price == FillPrice(Entering(side), raw)
        IN  /\ positions' = [positions EXCEPT ![p] =
                    [side |-> side, status |-> "OPEN", exit_at |-> 0]]
            /\ trades' = [trades EXCEPT ![p] =
                    [side |-> side, status |-> "OPEN", remaining_qty |-> Units,
                     raw_entry |-> raw, entry_price |-> price,
                     raw_exit |-> 0, exit_at |-> 0,
                     charges |-> TradingFee(price, Units, EntryFee),
                     funding_charges |-> 0, gross_pnl |-> 0, net_pnl |-> 0,
                     partial_exits |-> <<>>]]
            /\ IndexOpen(p, side)
  BY Zenon DEF Enter
<1>2. queue # <<>> /\ Head(queue) = <<s, i>>
  BY DEF Enter, Runs
<1>3. now \in Times /\ positions[Here(<<s, i>>)] = NoRow
  <2>1. queue[1] = <<s, i>> /\ 1 \in DOMAIN queue
    BY <1>2, QueueMovesOn DEF BookInv
  <2> QED BY <2>1 DEF BookInv, QueueOK
<1>4. PICK p : p = [ssu |-> s, instrument |-> i, at |-> now]
  OBVIOUS
<1>5. p \in PosIds /\ p = Here(<<s, i>>) /\ p.ssu = s /\ p.instrument = i /\ p.at = now
  BY <1>3, <1>4 DEF PosIds, Here
<1>6. PICK raw, price, fee :
        trades' = [trades EXCEPT ![p] =
                    [side |-> side, status |-> "OPEN", remaining_qty |-> Units,
                     raw_entry |-> raw, entry_price |-> price,
                     raw_exit |-> 0, exit_at |-> 0,
                     charges |-> fee,
                     funding_charges |-> 0, gross_pnl |-> 0, net_pnl |-> 0,
                     partial_exits |-> <<>>]]
  BY <1>1, <1>4, Zenon
<1>7. DOMAIN trades = PosIds
  BY DEF BookInv, BookTypes
<1>8. IsList(<<>>)
  BY EmptySeq DEF IsList
<1>9. /\ DOMAIN trades' = PosIds
      /\ \A q \in PosIds \ {p} : trades'[q] = trades[q]
      /\ trades'[p] = [side |-> side, status |-> "OPEN", remaining_qty |-> Units,
                       raw_entry |-> raw, entry_price |-> price,
                       raw_exit |-> 0, exit_at |-> 0,
                       charges |-> fee,
                       funding_charges |-> 0, gross_pnl |-> 0, net_pnl |-> 0,
                       partial_exits |-> <<>>]
  BY <1>5, <1>6, <1>7
<1>10. /\ trades'[p].side = side /\ trades'[p].status = "OPEN"
       /\ trades'[p].exit_at = 0 /\ trades'[p].remaining_qty = Units
       /\ trades'[p].partial_exits = <<>>
  BY <1>9
<1>11. IsTrade(trades'[p])
  BY <1>8, <1>9 DEF IsTrade
<1>12. positions' = [positions EXCEPT ![p] = Opened(p, side)] /\ IndexOpen(p, side)
  BY <1>1, <1>4, Zenon DEF Opened
<1> QED BY <1>3, <1>5, <1>9, <1>10, <1>11, <1>12

(* What a partial exit does: a part less of a trade that stays open.       *)
LEMMA PartialEffect ==
    ASSUME BookInv, NEW s \in Ssus, NEW i \in Instruments, Partial(s, i)
    PROVE  \E p \in PosIds :
             /\ DOMAIN trades' = PosIds
             /\ \A q \in PosIds \ {p} : trades'[q] = trades[q]
             /\ trades[p] # NoTrade /\ trades[p].status = "OPEN" /\ IsTrade(trades'[p])
             /\ trades'[p].side = trades[p].side /\ trades'[p].status = trades[p].status
             /\ trades'[p].exit_at = trades[p].exit_at
             /\ trades'[p].remaining_qty = trades[p].remaining_qty - PartialUnits
             /\ Len(trades[p].partial_exits) \in Nat
             /\ Len(trades'[p].partial_exits) = Len(trades[p].partial_exits) + 1
<1>1. PICK p \in Managed(s, i) : \E q \in Target(s, i, positions[p].side, p) :
        \E level, raw : trades' = [trades EXCEPT ![q] = Parted(@, q, level, raw)]
  BY Zenon DEF Partial
<1>2. /\ p \in PosIds /\ Target(s, i, positions[p].side, p) = {p}
      /\ IsTrade(trades[p]) /\ trades[p] # NoTrade /\ trades[p].status = "OPEN"
  BY TargetIsManaged
<1>3. PICK level, raw : trades' = [trades EXCEPT ![p] = Parted(@, p, level, raw)]
  BY <1>1, <1>2
<1>4. DOMAIN trades = PosIds
  BY DEF BookInv, BookTypes
<1>5. DOMAIN trades' = PosIds /\ \A q \in PosIds \ {p} : trades'[q] = trades[q]
  BY <1>3, <1>4
<1>6. PICK cost, fee, part : trades'[p] = [trades[p] EXCEPT
                    !.remaining_qty = @ - PartialUnits,
                    !.funding_charges = @ + cost,
                    !.charges = @ + fee + cost,
                    !.partial_exits = Append(@, part)]
  <2>1. trades'[p] = Parted(trades[p], p, level, raw)
    BY <1>2, <1>3, <1>4
  <2> QED BY <2>1, Zenon DEF Parted
<1>7. /\ DOMAIN trades'[p] = DOMAIN trades[p]
      /\ trades'[p].side = trades[p].side /\ trades'[p].status = trades[p].status
      /\ trades'[p].exit_at = trades[p].exit_at
      /\ trades'[p].remaining_qty = trades[p].remaining_qty - PartialUnits
      /\ trades'[p].partial_exits = Append(trades[p].partial_exits, part)
  BY <1>2, <1>6 DEF IsTrade
<1>8. /\ IsList(trades'[p].partial_exits) /\ Len(trades[p].partial_exits) \in Nat
      /\ Len(trades'[p].partial_exits) = Len(trades[p].partial_exits) + 1
  BY <1>2, <1>7, ListGrows DEF IsTrade
<1>9. IsTrade(trades'[p])
  BY <1>2, <1>7, <1>8 DEF IsTrade
<1> QED BY <1>2, <1>5, <1>7, <1>8, <1>9

(* What an exit does: the open position is closed, its trade settled.      *)
ClosedRow(row, at) == [row EXCEPT !.status = "CLOSED", !.exit_at = at]

LEMMA CloseEffect ==
    ASSUME BookInv, NEW s \in Ssus, NEW i \in Instruments, Close(s, i)
    PROVE  \E p \in PosIds :
             /\ p.ssu = s /\ p.instrument = i /\ p.at < now
             /\ positions[p] \in Rows /\ positions[p].status = "OPEN"
             /\ positions' = [positions EXCEPT ![p] = ClosedRow(positions[p], now)]
             /\ RemoveOpen(p)
             /\ DOMAIN trades' = PosIds
             /\ \A q \in PosIds \ {p} : trades'[q] = trades[q]
             /\ trades[p] # NoTrade /\ IsTrade(trades'[p])
             /\ trades'[p].side = trades[p].side /\ trades'[p].status = "CLOSED"
             /\ trades'[p].exit_at = now /\ trades'[p].remaining_qty = 0
<1>1. PICK p \in Managed(s, i) : \E q \in Target(s, i, positions[p].side, p) : \E raw :
        /\ trades' = [trades EXCEPT ![q] = Settled(@, q, raw)]
        /\ RemoveOpen(q)
        /\ positions' = [positions EXCEPT ![q] =
              [@ EXCEPT !.status = "CLOSED", !.exit_at = now]]
  BY Zenon DEF Close
<1>2. /\ p \in PosIds /\ p.ssu = s /\ p.instrument = i /\ p.at < now
      /\ positions[p] \in Rows /\ positions[p].status = "OPEN"
      /\ Target(s, i, positions[p].side, p) = {p}
      /\ IsTrade(trades[p]) /\ trades[p] # NoTrade
  BY TargetIsManaged
<1>3. PICK raw : /\ trades' = [trades EXCEPT ![p] = Settled(@, p, raw)]
                 /\ RemoveOpen(p)
                 /\ positions' = [positions EXCEPT ![p] =
                        [@ EXCEPT !.status = "CLOSED", !.exit_at = now]]
  BY <1>1, <1>2
<1>4. DOMAIN trades = PosIds /\ DOMAIN positions = PosIds
  BY DEF BookInv, BookTypes
<1>5. positions' = [positions EXCEPT ![p] = ClosedRow(positions[p], now)]
  BY <1>2, <1>3, <1>4 DEF ClosedRow
<1>6. DOMAIN trades' = PosIds /\ \A q \in PosIds \ {p} : trades'[q] = trades[q]
  BY <1>3, <1>4
<1>7. trades'[p] = Settled(trades[p], p, raw)
  BY <1>2, <1>3, <1>4
<1>8. PICK cost, all, gross :
        trades'[p] = [trades[p] EXCEPT !.status = "CLOSED", !.raw_exit = raw, !.exit_at = now,
                  !.funding_charges = @ + cost, !.charges = all,
                  !.gross_pnl = gross, !.net_pnl = gross - all, !.remaining_qty = 0]
  BY <1>7, Zenon DEF Settled
<1>9. /\ DOMAIN trades'[p] = DOMAIN trades[p]
      /\ trades'[p].side = trades[p].side /\ trades'[p].status = "CLOSED"
      /\ trades'[p].exit_at = now /\ trades'[p].remaining_qty = 0
      /\ trades'[p].partial_exits = trades[p].partial_exits
  BY <1>2, <1>8 DEF IsTrade
<1>10. IsTrade(trades'[p])
  BY <1>2, <1>9 DEF IsTrade
<1> QED BY <1>2, <1>3, <1>5, <1>6, <1>9, <1>10

-----------------------------------------------------------------------------
(* The book agrees with itself from the start and at every step.           *)

(* The constants a proof about the book needs.                             *)
LEMMA BookConstants ==
    /\ MaxTime \in Nat /\ DayLength \in Nat \ {0} /\ Units \in Nat /\ PartialUnits \in Nat
    /\ \A at \in Times : at \in Nat /\ at <= MaxTime /\ Day(at) \in 0..(MaxTime \div DayLength)
    /\ \A p \in PosIds : p.at \in Times /\ p.ssu \in Ssus /\ p.instrument \in Instruments
<1>1. MaxTime \in Nat /\ DayLength \in Nat \ {0} /\ Units \in Nat /\ PartialUnits \in Nat
  BY BacktestAssumption
<1>2. ASSUME NEW at \in Times
      PROVE  at \in Nat /\ at <= MaxTime /\ Day(at) \in 0..(MaxTime \div DayLength)
  <2>1. at \in Nat /\ at <= MaxTime
    BY <1>1 DEF Times
  <2>2. at \div DayLength \in Nat /\ MaxTime \div DayLength \in Nat
    BY <1>1, <2>1
  <2>3. at \div DayLength <= MaxTime \div DayLength
    BY <1>1, <2>1
  <2> QED BY <2>1, <2>2, <2>3 DEF Day
<1> QED BY <1>1, <1>2 DEF PosIds

(* Nothing has been entered.                                               *)
LEMMA BookStarts ==
    ASSUME Init
    PROVE  BookInv
<1>1. positions = [p \in PosIds |-> NoRow] /\ trades = [p \in PosIds |-> NoTrade] /\ queue = <<>>
  BY DEF Init
<1>2. /\ open_by_ssu = [s \in Ssus |-> {}]
      /\ open_by_key = [s \in Ssus |-> [i \in Instruments |-> [d \in Sides |-> {}]]]
      /\ last_entry_by_ssu = [s \in Ssus |-> 0]
      /\ entries_by_ssu_day = [s \in Ssus |-> [d \in 0..(MaxTime \div DayLength) |-> 0]]
  BY DEF Init
<1>3. \A s : EnteredBy(s) = {} /\ OpenBy(s) = {}
  BY <1>1 DEF EnteredBy, OpenBy
<1>4. BookTypes
  BY <1>1, <1>2 DEF BookTypes
<1>5. QueueOK
  BY <1>1, EmptySeq DEF QueueOK
<1>6. OpenAgrees /\ KeyAgrees
  BY <1>2, <1>3 DEF OpenAgrees, KeyAgrees
<1>7. LastAgrees
  <2>1. ASSUME NEW s \in Ssus PROVE last_entry_by_ssu[s] = MaxOf({p.at : p \in EnteredBy(s)} \cup {0})
    <3>1. {p.at : p \in EnteredBy(s)} \cup {0} = {0}
      BY <1>3
    <3>2. MaxOf({0}) = 0
      BY MaxIs
    <3> QED BY <1>2, <3>1, <3>2
  <2> QED BY <2>1 DEF LastAgrees
<1>8. DayAgrees
  <2>1. \A s, d : {p \in EnteredBy(s) : Day(p.at) = d} = {}
    BY <1>3
  <2> QED BY <1>2, <2>1, FS_EmptySet DEF DayAgrees
<1>9. \A p \in PosIds : TradeAgrees(p)
  BY <1>1 DEF TradeAgrees
<1> QED BY <1>4, <1>5, <1>6, <1>7, <1>8, <1>9, AgreementInParts DEF BookInv

(* An entry is indexed under its SSU, its key, its time and its day.       *)
LEMMA EnterStep ==
    ASSUME FeedInv, BookInv, NEW s \in Ssus, NEW i \in Instruments, Enter(s, i)
    PROVE  BookInv'
<1>1. PICK p \in PosIds, side \in Sides :
             /\ p = Here(<<s, i>>) /\ p.ssu = s /\ p.instrument = i /\ p.at = now
             /\ positions[p] = NoRow
             /\ positions' = [positions EXCEPT ![p] = Opened(p, side)]
             /\ DOMAIN trades' = PosIds
             /\ \A q \in PosIds \ {p} : trades'[q] = trades[q]
             /\ IsTrade(trades'[p]) /\ trades'[p].side = side /\ trades'[p].status = "OPEN"
             /\ trades'[p].exit_at = 0 /\ trades'[p].remaining_qty = Units
             /\ trades'[p].partial_exits = <<>>
             /\ IndexOpen(p, side)
  BY EnterEffect
<1>2. queue # <<>> /\ Head(queue) = <<s, i>> /\ queue' = Tail(queue) /\ now' = now
  BY DEF Enter, Runs, feed
<1>3. positions \in [PosIds -> Rows \cup {NoRow}] /\ Opened(p, side) \in Rows
  BY BookConstants DEF BookInv, BookTypes, Opened, Rows
<1>4. /\ positions'[p] = Opened(p, side)
      /\ \A q \in PosIds : q # p => positions'[q] = positions[q]
      /\ positions' \in [PosIds -> Rows \cup {NoRow}]
  BY <1>1, <1>3
<1>5. positions'[p] # NoRow /\ positions'[p].status = "OPEN" /\ positions'[p].side = side
  BY <1>4 DEF Opened, NoRow, Sides
<1>6. /\ p \notin EnteredBy(s) /\ EnteredBy(s)' = EnteredBy(s) \cup {p}
      /\ OpenBy(s)' = OpenBy(s) \cup {p}
      /\ \A r \in Ssus \ {s} : EnteredBy(r)' = EnteredBy(r) /\ OpenBy(r)' = OpenBy(r)
      /\ \A q \in OpenBy(s) : positions'[q] = positions[q]
  BY <1>1, <1>4, <1>5 DEF EnteredBy, OpenBy
<1>7. /\ OpenAgrees /\ KeyAgrees /\ LastAgrees /\ DayAgrees /\ \A q \in PosIds : TradeAgrees(q)
  BY AgreementInParts DEF BookInv
<1>8. /\ open_by_ssu \in [Ssus -> SUBSET PosIds]
      /\ open_by_key \in [Ssus -> [Instruments -> [Sides -> SUBSET PosIds]]]
      /\ last_entry_by_ssu \in [Ssus -> Nat]
      /\ entries_by_ssu_day \in [Ssus -> [0..(MaxTime \div DayLength) -> Nat]]
  BY DEF BookInv, BookTypes
<1>9. /\ now \in Times /\ now \in Nat /\ Day(now) \in 0..(MaxTime \div DayLength)
  BY <1>1, BookConstants
<1>10. open_by_ssu' \in [Ssus -> SUBSET PosIds] /\ OpenAgrees'
  <2>1. open_by_ssu' = [open_by_ssu EXCEPT ![s] = @ \cup {p}]
    BY <1>1 DEF IndexOpen
  <2>2. /\ open_by_ssu' \in [Ssus -> SUBSET PosIds] /\ open_by_ssu'[s] = open_by_ssu[s] \cup {p}
        /\ \A r \in Ssus \ {s} : open_by_ssu'[r] = open_by_ssu[r]
    BY <1>8, <2>1
  <2>3. \A r \in Ssus : open_by_ssu'[r] = OpenBy(r)'
    BY <1>6, <1>7, <2>2 DEF OpenAgrees
  <2> QED BY <2>2, <2>3 DEF OpenAgrees
<1>11. open_by_key' \in [Ssus -> [Instruments -> [Sides -> SUBSET PosIds]]] /\ KeyAgrees'
  <2>1. open_by_key' = [open_by_key EXCEPT ![s][i][side] = @ \cup {p}]
    BY <1>1 DEF IndexOpen
  <2>2. /\ open_by_key' \in [Ssus -> [Instruments -> [Sides -> SUBSET PosIds]]]
        /\ open_by_key'[s][i][side] = open_by_key[s][i][side] \cup {p}
    BY <1>8, <2>1
  <2>3. \A r \in Ssus, j \in Instruments, d \in Sides :
            r # s \/ j # i \/ d # side => open_by_key'[r][j][d] = open_by_key[r][j][d]
    BY <1>8, <2>1
  <2>4. ASSUME NEW r \in Ssus, NEW j \in Instruments, NEW d \in Sides
        PROVE  open_by_key'[r][j][d] =
                  {q \in OpenBy(r)' : q.instrument = j /\ positions'[q].side = d}
    <3>1. open_by_key[r][j][d] = {q \in OpenBy(r) : q.instrument = j /\ positions[q].side = d}
      BY <1>7 DEF KeyAgrees
    <3>2. CASE r # s
      <4>1. \A q \in OpenBy(r) : positions'[q] = positions[q]
        BY <1>1, <1>4, <3>2 DEF OpenBy, EnteredBy
      <4> QED BY <1>6, <2>3, <3>1, <3>2, <4>1
    <3>3. CASE r = s /\ (j # i \/ d # side)
      <4>1. ~(p.instrument = j /\ positions'[p].side = d)
        BY <1>1, <1>5, <3>3
      <4> QED BY <1>6, <2>3, <3>1, <3>3, <4>1
    <3>4. CASE r = s /\ j = i /\ d = side
      <4>1. p.instrument = j /\ positions'[p].side = d
        BY <1>1, <1>5, <3>4
      <4>2. {q \in OpenBy(s) \cup {p} : q.instrument = i /\ positions'[q].side = side}
              = {q \in OpenBy(s) : q.instrument = i /\ positions[q].side = side} \cup {p}
        BY <1>6, <3>4, <4>1
      <4> QED BY <1>6, <2>2, <3>1, <3>4, <4>2
    <3> QED BY <3>2, <3>3, <3>4
  <2> QED BY <2>2, <2>4 DEF KeyAgrees
<1>12. last_entry_by_ssu' \in [Ssus -> Nat] /\ LastAgrees'
  <2> DEFINE at(r) == {q.at : q \in EnteredBy(r)} \cup {0}
  <2>1. last_entry_by_ssu' = [last_entry_by_ssu EXCEPT ![s] = MaxOf({@, now})]
    BY <1>1 DEF IndexOpen
  <2>2. \A q \in EnteredBy(s) : q.at \in Nat /\ q.at <= now
    BY BookConstants DEF BookInv, QueueOK, EnteredBy
  <2>3. at(s) \in SUBSET Nat /\ IsFiniteSet(at(s)) /\ at(s) # {} /\ \A x \in at(s) : x <= now
    <3>1. at(s) \in SUBSET Nat /\ \A x \in at(s) : x <= now
      BY <1>9, <2>2
    <3> DEFINE S == at(s)
    <3>2. \A x \in S : x <= now
      BY <3>1
    <3>3. S \in SUBSET Nat
      BY <3>1
    <3> HIDE DEF S
    <3>4. IsFiniteSet(S)
      BY <1>9, <3>2, <3>3, FS_BoundedSetOfNaturals
    <3> QED BY <3>1, <3>4 DEF S
  <2>4. last_entry_by_ssu[s] = MaxOf(at(s))
    BY <1>7 DEF LastAgrees
  <2>5. last_entry_by_ssu[s] \in Nat /\ last_entry_by_ssu[s] <= now
    <3> HIDE DEF at
    <3> QED BY <2>3, <2>4, HasMax
  <2>6. MaxOf({last_entry_by_ssu[s], now}) = now
    <3> DEFINE T == {last_entry_by_ssu[s], now}
    <3>1. T \in SUBSET Int /\ now \in T /\ \A y \in T : now >= y
      BY <1>9, <2>5
    <3> HIDE DEF T
    <3>2. MaxOf(T) = now
      BY <3>1, MaxIs
    <3> QED BY <3>2 DEF T
  <2>7. MaxOf(at(s) \cup {now}) = now
    <3> HIDE DEF at
    <3> QED BY <1>9, <2>3, MaxIs
  <2>8. {q.at : q \in EnteredBy(s) \cup {p}} \cup {0} = at(s) \cup {now}
    BY <1>1
  <2>9. /\ last_entry_by_ssu' \in [Ssus -> Nat] /\ last_entry_by_ssu'[s] = now
        /\ \A r \in Ssus \ {s} : last_entry_by_ssu'[r] = last_entry_by_ssu[r]
    BY <1>8, <1>9, <2>1, <2>6
  <2>10. last_entry_by_ssu'[s] = MaxOf({q.at : q \in EnteredBy(s)'} \cup {0})
    BY <1>6, <2>7, <2>8, <2>9
  <2>11. \A r \in Ssus \ {s} : last_entry_by_ssu'[r] = MaxOf({q.at : q \in EnteredBy(r)'} \cup {0})
    BY <1>6, <1>7, <2>9 DEF LastAgrees
  <2> QED BY <2>9, <2>10, <2>11 DEF LastAgrees
<1>13. entries_by_ssu_day' \in [Ssus -> [0..(MaxTime \div DayLength) -> Nat]] /\ DayAgrees'
  <2>1. entries_by_ssu_day' = [entries_by_ssu_day EXCEPT ![s][Day(now)] = @ + 1]
    BY <1>1 DEF IndexOpen
  <2>2. /\ entries_by_ssu_day' \in [Ssus -> [0..(MaxTime \div DayLength) -> Nat]]
        /\ entries_by_ssu_day'[s][Day(now)] = entries_by_ssu_day[s][Day(now)] + 1
        /\ \A r \in Ssus : \A d \in 0..(MaxTime \div DayLength) :
              r # s \/ d # Day(now) => entries_by_ssu_day'[r][d] = entries_by_ssu_day[r][d]
    <3> DEFINE D == 0..(MaxTime \div DayLength)
               row == [entries_by_ssu_day[s] EXCEPT ![Day(now)] = @ + 1]
    <3>1. entries_by_ssu_day \in [Ssus -> [D -> Nat]] /\ Day(now) \in D
      BY <1>8, <1>9
    <3>2. entries_by_ssu_day' = [entries_by_ssu_day EXCEPT ![s] = row]
      BY <2>1
    <3> HIDE DEF D
    <3>3. /\ row \in [D -> Nat] /\ row[Day(now)] = entries_by_ssu_day[s][Day(now)] + 1
          /\ \A d \in D : d # Day(now) => row[d] = entries_by_ssu_day[s][d]
      BY <3>1
    <3> HIDE DEF row
    <3>4. /\ entries_by_ssu_day' \in [Ssus -> [D -> Nat]]
          /\ entries_by_ssu_day'[s] = row
          /\ \A r \in Ssus \ {s} : entries_by_ssu_day'[r] = entries_by_ssu_day[r]
      BY <3>1, <3>2, <3>3
    <3>5. \A r \in Ssus : \A d \in D :
              r # s \/ d # Day(now) => entries_by_ssu_day'[r][d] = entries_by_ssu_day[r][d]
      BY <3>3, <3>4
    <3> QED BY <3>3, <3>4, <3>5 DEF D
  <2>3. ASSUME NEW r \in Ssus, NEW d \in 0..(MaxTime \div DayLength)
        PROVE  entries_by_ssu_day'[r][d] = Cardinality({q \in EnteredBy(r)' : Day(q.at) = d})
    <3> DEFINE old == {q \in EnteredBy(r) : Day(q.at) = d}
    <3>1. entries_by_ssu_day[r][d] = Cardinality(old)
      BY <1>7, <1>8 DEF DayAgrees
    <3>2. CASE r # s
      BY <1>6, <2>2, <3>1, <3>2
    <3>3. CASE r = s /\ d # Day(now)
      <4>1. {q \in EnteredBy(r)' : Day(q.at) = d} = old
        BY <1>1, <1>6, <3>3
      <4> QED BY <2>2, <3>1, <3>3, <4>1
    <3>4. CASE r = s /\ d = Day(now)
      <4>1. {q \in EnteredBy(r)' : Day(q.at) = d} = old \cup {p} /\ p \notin old
        BY <1>1, <1>6, <3>4
      <4>2. IsFiniteSet(old)
        <5>1. old \in SUBSET PosIds
          BY DEF EnteredBy
        <5> QED BY <5>1, PosIdsAreFinite
      <4> HIDE DEF old
      <4>3. Cardinality(old \cup {p}) = Cardinality(old) + 1
        BY <4>1, <4>2, FS_AddElement
      <4>4. entries_by_ssu_day'[r][d] = Cardinality(old) + 1
        BY <2>2, <3>1, <3>4
      <4> QED BY <4>1, <4>3, <4>4
    <3> QED BY <3>2, <3>3, <3>4
  <2>4. \A r \in Ssus : DOMAIN entries_by_ssu_day'[r] = 0..(MaxTime \div DayLength)
    <3> DEFINE D == 0..(MaxTime \div DayLength)
    <3>1. entries_by_ssu_day' \in [Ssus -> [D -> Nat]]
      BY <2>2
    <3> HIDE DEF D
    <3>2. \A r \in Ssus : DOMAIN entries_by_ssu_day'[r] = D
      BY <3>1
    <3> QED BY <3>2 DEF D
  <2>5. DayAgrees'
    <3> DEFINE D == 0..(MaxTime \div DayLength)
    <3> SUFFICES ASSUME NEW r \in Ssus, NEW d \in D
                 PROVE  entries_by_ssu_day'[r][d] = Cardinality({q \in EnteredBy(r)' : Day(q.at) = d})
      BY <2>4 DEF DayAgrees
    <3> HIDE DEF D
    <3>1. d \in 0..(MaxTime \div DayLength)
      BY DEF D
    <3> QED BY <2>3, <3>1
  <2>6. entries_by_ssu_day' \in [Ssus -> [0..(MaxTime \div DayLength) -> Nat]]
    BY <2>2
  <2> QED BY <2>5, <2>6
<1>14. \A q \in PosIds : TradeAgrees(q)'
  <2> TAKE q \in PosIds
  <2>1. CASE q # p
    <3>1. trades'[q] = trades[q] /\ positions'[q] = positions[q]
      BY <1>1, <1>4, <2>1
    <3> QED BY <1>7, <3>1 DEF TradeAgrees
  <2>2. CASE q = p
    <3>1. trades'[p] # NoTrade
      BY <1>1 DEF NoTrade, Sides
    <3>2. Units - Len(<<>>) * PartialUnits = Units
      BY BookConstants
    <3>3. positions'[p].exit_at = 0
      BY <1>4 DEF Opened
    <3> QED BY <1>1, <1>5, <2>2, <3>1, <3>2, <3>3 DEF TradeAgrees
  <2> QED BY <2>1, <2>2
<1>15. BookTypes'
  <2>1. \A q \in PosIds : trades'[q] = NoTrade \/ IsTrade(trades'[q])
    BY <1>1 DEF BookInv, BookTypes
  <2>2. \A q \in PosIds : (trades[q] = NoTrade \/ IsTrade(trades[q]))'
    BY <2>1 DEF IsTrade, IsList
  <2> QED BY <1>1, <1>4, <1>10, <1>11, <1>12, <1>13, <2>2 DEF BookTypes
<1>16. QueueOK'
  <2>1. /\ queue' \in Seq(Ssus \X Instruments)
        /\ \A k \in DOMAIN queue' : k + 1 \in DOMAIN queue /\ queue'[k] = queue[k + 1]
        /\ \A j, k \in DOMAIN queue' : queue'[j] = queue'[k] => j = k
        /\ \A k \in DOMAIN queue' : queue'[k] # <<s, i>>
    BY <1>2, QueueMovesOn DEF BookInv
  <2>2. ASSUME NEW k \in DOMAIN queue' PROVE now' \in Times /\ positions'[Here(queue[k])'] = NoRow
    <3>1. PICK h \in Ssus \X Instruments : h = queue'[k]
      BY <2>1, LenProperties, ElementOfSeq
    <3>2. now \in Times /\ positions[Here(h)] = NoRow
      BY <2>1, <3>1 DEF BookInv, QueueOK
    <3>3. Here(h) # p /\ Here(h) \in PosIds
      <4>1. h[1] \in Ssus /\ h[2] \in Instruments /\ h = <<h[1], h[2]>> /\ h # <<s, i>>
        BY <2>1, <3>1
      <4>2. h[1] # s \/ h[2] # i
        BY <4>1
      <4> QED BY <1>1, <3>2, <4>1, <4>2 DEF Here, PosIds
    <3>4. Here(queue[k])' = Here(h)
      BY <1>2, <3>1 DEF Here
    <3> QED BY <1>2, <1>4, <3>2, <3>3, <3>4
  <2>3. \A q \in PosIds : positions'[q] # NoRow => q.at <= now'
    BY <1>1, <1>2, <1>4, <1>9 DEF BookInv, QueueOK
  <2> QED BY <2>1, <2>2, <2>3 DEF QueueOK
<1>17. IndexesAgree'
  <2>1. (/\ OpenAgrees /\ KeyAgrees /\ LastAgrees /\ DayAgrees /\ \A q \in PosIds : TradeAgrees(q))'
    BY <1>10, <1>11, <1>12, <1>13, <1>14
  <2> QED BY <2>1, Zenon DEF IndexesAgree, OpenAgrees, KeyAgrees, LastAgrees, DayAgrees,
             TradeAgrees, EnteredBy, OpenBy
<1> QED BY <1>15, <1>16, <1>17 DEF BookInv

(* An exit leaves what was entered, and takes one position from the open   *)
(* ones and from its key.                                                  *)
LEMMA CloseStep ==
    ASSUME FeedInv, BookInv, NEW s \in Ssus, NEW i \in Instruments, Close(s, i)
    PROVE  BookInv'
<1>1. PICK p \in PosIds :
             /\ p.ssu = s /\ p.instrument = i /\ p.at < now
             /\ positions[p] \in Rows /\ positions[p].status = "OPEN"
             /\ positions' = [positions EXCEPT ![p] = ClosedRow(positions[p], now)]
             /\ RemoveOpen(p)
             /\ DOMAIN trades' = PosIds
             /\ \A q \in PosIds \ {p} : trades'[q] = trades[q]
             /\ trades[p] # NoTrade /\ IsTrade(trades'[p])
             /\ trades'[p].side = trades[p].side /\ trades'[p].status = "CLOSED"
             /\ trades'[p].exit_at = now /\ trades'[p].remaining_qty = 0
  BY CloseEffect
<1>2. queue' = queue /\ now' = now /\ now \in 0..MaxTime
  BY DEF Close, feed, FeedInv, ReplayOK
<1> DEFINE d == positions[p].side
<1>3. /\ positions \in [PosIds -> Rows \cup {NoRow}] /\ d \in Sides
      /\ ClosedRow(positions[p], now) \in Rows
      /\ ClosedRow(positions[p], now).side = d /\ ClosedRow(positions[p], now).status = "CLOSED"
      /\ ClosedRow(positions[p], now).exit_at = now
  BY <1>1, <1>2 DEF BookInv, BookTypes, ClosedRow, Rows
<1>4. /\ positions'[p] = ClosedRow(positions[p], now)
      /\ \A q \in PosIds : q # p => positions'[q] = positions[q]
      /\ positions' \in [PosIds -> Rows \cup {NoRow}]
  BY <1>1, <1>3
<1>5. positions'[p] # NoRow /\ positions[p] # NoRow /\ positions'[p].status # "OPEN"
  BY <1>1, <1>3, <1>4 DEF NoRow, Sides, Rows
<1>6. \A r : EnteredBy(r)' = EnteredBy(r) /\ OpenBy(r)' = OpenBy(r) \ {p}
  BY <1>1, <1>4, <1>5 DEF EnteredBy, OpenBy
<1>7. \A r : r # s => p \notin OpenBy(r)
  BY <1>1 DEF EnteredBy, OpenBy
<1>8. /\ OpenAgrees /\ KeyAgrees /\ LastAgrees /\ DayAgrees /\ \A q \in PosIds : TradeAgrees(q)
  BY AgreementInParts DEF BookInv
<1>9. /\ open_by_ssu \in [Ssus -> SUBSET PosIds]
      /\ open_by_key \in [Ssus -> [Instruments -> [Sides -> SUBSET PosIds]]]
      /\ last_entry_by_ssu' = last_entry_by_ssu /\ entries_by_ssu_day' = entries_by_ssu_day
  BY <1>1 DEF BookInv, BookTypes, RemoveOpen
<1>10. open_by_ssu' \in [Ssus -> SUBSET PosIds] /\ OpenAgrees'
  <2>1. open_by_ssu' = [open_by_ssu EXCEPT ![s] = @ \ {p}]
    BY <1>1 DEF RemoveOpen
  <2>2. /\ open_by_ssu' \in [Ssus -> SUBSET PosIds] /\ open_by_ssu'[s] = open_by_ssu[s] \ {p}
        /\ \A r \in Ssus \ {s} : open_by_ssu'[r] = open_by_ssu[r]
    BY <1>9, <2>1
  <2>3. \A r \in Ssus : open_by_ssu'[r] = OpenBy(r)'
    BY <1>6, <1>7, <1>8, <2>2 DEF OpenAgrees
  <2> QED BY <2>2, <2>3 DEF OpenAgrees
<1>11. open_by_key' \in [Ssus -> [Instruments -> [Sides -> SUBSET PosIds]]] /\ KeyAgrees'
  <2>1. open_by_key' = [open_by_key EXCEPT ![s][i][d] = @ \ {p}]
    BY <1>1 DEF RemoveOpen
  <2> HIDE DEF d
  <2>2. /\ open_by_key' \in [Ssus -> [Instruments -> [Sides -> SUBSET PosIds]]]
        /\ open_by_key'[s][i][d] = open_by_key[s][i][d] \ {p}
    BY <1>3, <1>9, <2>1
  <2>3. \A r \in Ssus, j \in Instruments, e \in Sides :
            r # s \/ j # i \/ e # d => open_by_key'[r][j][e] = open_by_key[r][j][e]
    BY <1>3, <1>9, <2>1
  <2>4. ASSUME NEW r \in Ssus, NEW j \in Instruments, NEW e \in Sides
        PROVE  open_by_key'[r][j][e] =
                  {q \in OpenBy(r)' : q.instrument = j /\ positions'[q].side = e}
    <3>1. open_by_key[r][j][e] = {q \in OpenBy(r) : q.instrument = j /\ positions[q].side = e}
      BY <1>8 DEF KeyAgrees
    <3>2. \A q \in OpenBy(r) : q # p => positions'[q] = positions[q]
      BY <1>4 DEF OpenBy, EnteredBy
    <3>3. {q \in OpenBy(r)' : q.instrument = j /\ positions'[q].side = e}
            = {q \in OpenBy(r) : q.instrument = j /\ positions[q].side = e} \ {p}
      BY <1>6, <3>2
    <3>4. CASE r = s /\ j = i /\ e = d
      BY <2>2, <3>1, <3>3, <3>4
    <3>5. CASE r # s \/ j # i \/ e # d
      <4>1. p \notin OpenBy(r) \/ ~(p.instrument = j /\ positions[p].side = e)
        BY <1>1, <1>7, <3>5 DEF d
      <4> QED BY <2>3, <3>1, <3>3, <3>5, <4>1
    <3> QED BY <3>4, <3>5
  <2> QED BY <2>2, <2>4 DEF KeyAgrees
<1>12. LastAgrees' /\ DayAgrees'
  BY <1>6, <1>8, <1>9 DEF LastAgrees, DayAgrees
<1>13. \A q \in PosIds : TradeAgrees(q)'
  <2> TAKE q \in PosIds
  <2>1. CASE q # p
    <3>1. trades'[q] = trades[q] /\ positions'[q] = positions[q]
      BY <1>1, <1>4, <2>1
    <3> QED BY <1>8, <3>1 DEF TradeAgrees
  <2>2. CASE q = p
    <3>1. trades'[p].side = positions'[p].side /\ trades'[p].side \in Sides
      <4>1. trades[p].side = positions[p].side
        BY <1>1, <1>8 DEF TradeAgrees
      <4> QED BY <1>1, <1>3, <1>4, <4>1
    <3>2. trades'[p] # NoTrade
      BY <3>1 DEF NoTrade, Sides
    <3> QED BY <1>1, <1>3, <1>4, <1>5, <2>2, <3>1, <3>2 DEF TradeAgrees
  <2> QED BY <2>1, <2>2
<1>14. BookTypes'
  <2>1. \A q \in PosIds : trades'[q] = NoTrade \/ IsTrade(trades'[q])
    BY <1>1 DEF BookInv, BookTypes
  <2>2. \A q \in PosIds : (trades[q] = NoTrade \/ IsTrade(trades[q]))'
    BY <2>1 DEF IsTrade, IsList
  <2> QED BY <1>1, <1>4, <1>9, <1>10, <1>11, <2>2 DEF BookInv, BookTypes
<1>15. QueueOK'
  <2>1. \A q \in PosIds : positions'[q] # NoRow <=> positions[q] # NoRow
    BY <1>4, <1>5
  <2>2. ASSUME NEW k \in DOMAIN queue PROVE now \in Times /\ positions'[Here(queue[k])] = NoRow
    <3>1. queue[k] \in Ssus \X Instruments /\ now \in Times /\ positions[Here(queue[k])] = NoRow
      BY LenProperties, ElementOfSeq DEF BookInv, QueueOK
    <3>2. Here(queue[k]) \in PosIds
      BY <3>1 DEF Here, PosIds
    <3> QED BY <2>1, <3>1, <3>2
  <2>3. \A h : Here(h)' = Here(h)
    BY <1>2 DEF Here
  <2>4. ASSUME NEW k \in DOMAIN queue PROVE Here(queue[k])' = Here(queue[k])
    BY <1>2 DEF Here
  <2> QED BY <1>2, <2>1, <2>2, <2>4 DEF BookInv, QueueOK
<1>16. IndexesAgree'
  <2>1. (/\ OpenAgrees /\ KeyAgrees /\ LastAgrees /\ DayAgrees /\ \A q \in PosIds : TradeAgrees(q))'
    BY <1>10, <1>11, <1>12, <1>13
  <2> QED BY <2>1, Zenon DEF IndexesAgree, OpenAgrees, KeyAgrees, LastAgrees, DayAgrees,
             TradeAgrees, EnteredBy, OpenBy
<1> QED BY <1>14, <1>15, <1>16 DEF BookInv

(* A partial exit touches the money record only, and its quantity is what  *)
(* its parts leave.                                                        *)
LEMMA PartialStep ==
    ASSUME BookInv, NEW s \in Ssus, NEW i \in Instruments, Partial(s, i)
    PROVE  BookInv'
<1>1. PICK p \in PosIds :
             /\ DOMAIN trades' = PosIds
             /\ \A q \in PosIds \ {p} : trades'[q] = trades[q]
             /\ trades[p] # NoTrade /\ trades[p].status = "OPEN" /\ IsTrade(trades'[p])
             /\ trades'[p].side = trades[p].side /\ trades'[p].status = trades[p].status
             /\ trades'[p].exit_at = trades[p].exit_at
             /\ trades'[p].remaining_qty = trades[p].remaining_qty - PartialUnits
             /\ Len(trades[p].partial_exits) \in Nat
             /\ Len(trades'[p].partial_exits) = Len(trades[p].partial_exits) + 1
  BY PartialEffect
<1>2. UNCHANGED <<queue, now, positions, indexes>>
  BY DEF Partial, feed
<1>3. /\ OpenAgrees /\ KeyAgrees /\ LastAgrees /\ DayAgrees /\ \A q \in PosIds : TradeAgrees(q)
  BY AgreementInParts DEF BookInv
<1>4. OpenAgrees' /\ KeyAgrees' /\ LastAgrees' /\ DayAgrees'
  <2>1. /\ positions' = positions /\ open_by_ssu' = open_by_ssu /\ open_by_key' = open_by_key
        /\ last_entry_by_ssu' = last_entry_by_ssu /\ entries_by_ssu_day' = entries_by_ssu_day
    BY <1>2 DEF indexes
  <2>2. \A r : EnteredBy(r)' = EnteredBy(r) /\ OpenBy(r)' = OpenBy(r)
    BY <2>1 DEF OpenBy, EnteredBy
  <2>3. OpenAgrees'
    BY <1>3, <2>1, <2>2 DEF OpenAgrees
  <2>4. KeyAgrees'
    BY <1>3, <2>1, <2>2 DEF KeyAgrees
  <2>5. LastAgrees'
    BY <1>3, <2>1, <2>2 DEF LastAgrees
  <2>6. DayAgrees'
    BY <1>3, <2>1, <2>2 DEF DayAgrees
  <2> QED BY <2>3, <2>4, <2>5, <2>6
<1>5. \A q \in PosIds : TradeAgrees(q)'
  <2> TAKE q \in PosIds
  <2>1. CASE q # p
    <3>1. trades'[q] = trades[q] /\ positions'[q] = positions[q]
      BY <1>1, <1>2, <2>1
    <3> QED BY <1>3, <3>1 DEF TradeAgrees
  <2>2. CASE q = p
    <3>1. /\ trades[p].side = positions[p].side /\ trades[p].status = positions[p].status
          /\ trades[p].exit_at = positions[p].exit_at /\ positions[p] # NoRow
          /\ trades[p].remaining_qty = Units - Len(trades[p].partial_exits) * PartialUnits
      BY <1>1, <1>3 DEF TradeAgrees
    <3>2. trades'[p] # NoTrade
      BY <1>1 DEF NoTrade, Sides, IsTrade
    <3>3. trades'[p].remaining_qty = Units - Len(trades'[p].partial_exits) * PartialUnits
      <4> DEFINE n == Len(trades[p].partial_exits)
      <4>1. Units \in Nat /\ PartialUnits \in Nat /\ n \in Nat
        BY <1>1, BookConstants
      <4> HIDE DEF n
      <4>2. (n + 1) * PartialUnits = n * PartialUnits + PartialUnits /\ n * PartialUnits \in Nat
        BY <4>1
      <4>3. Units - n * PartialUnits - PartialUnits = Units - (n + 1) * PartialUnits
        BY <4>1, <4>2
      <4> QED BY <1>1, <3>1, <4>3 DEF n
    <3>4. positions'[p] = positions[p]
      BY <1>2
    <3> QED BY <1>1, <2>2, <3>1, <3>2, <3>3, <3>4 DEF TradeAgrees
  <2> QED BY <2>1, <2>2
<1>6. BookTypes'
  <2>1. \A q \in PosIds : trades'[q] = NoTrade \/ IsTrade(trades'[q])
    BY <1>1 DEF BookInv, BookTypes
  <2>2. \A q \in PosIds : (trades[q] = NoTrade \/ IsTrade(trades[q]))'
    BY <2>1 DEF IsTrade, IsList
  <2> QED BY <1>1, <1>2, <2>2 DEF BookInv, BookTypes, indexes
<1>7. QueueOK'
  BY <1>2 DEF BookInv, QueueOK, Here
<1>8. IndexesAgree'
  <2>1. (/\ OpenAgrees /\ KeyAgrees /\ LastAgrees /\ DayAgrees /\ \A q \in PosIds : TradeAgrees(q))'
    BY <1>4, <1>5
  <2> QED BY <2>1, Zenon DEF IndexesAgree, OpenAgrees, KeyAgrees, LastAgrees, DayAgrees,
             TradeAgrees, EnteredBy, OpenBy
<1> QED BY <1>6, <1>7, <1>8 DEF BookInv

(* What does not touch the book's positions, trades and indexes.           *)
LEMMA IndexesStay ==
    ASSUME BookInv, UNCHANGED <<positions, trades, indexes>>
    PROVE  BookTypes' /\ IndexesAgree'
<1>1. /\ positions' = positions /\ trades' = trades
      /\ open_by_ssu' = open_by_ssu /\ open_by_key' = open_by_key
      /\ last_entry_by_ssu' = last_entry_by_ssu /\ entries_by_ssu_day' = entries_by_ssu_day
  BY DEF indexes
<1>2. BookTypes'
  <2>1. \A q \in PosIds : (trades[q] = NoTrade \/ IsTrade(trades[q]))'
    BY <1>1 DEF BookInv, BookTypes, IsTrade, IsList
  <2> QED BY <1>1, <2>1 DEF BookInv, BookTypes
<1>3. IndexesAgree'
  <2>1. /\ OpenAgrees /\ KeyAgrees /\ LastAgrees /\ DayAgrees /\ \A p \in PosIds : TradeAgrees(p)
    BY AgreementInParts DEF BookInv
  <2>2. \A r : EnteredBy(r)' = EnteredBy(r) /\ OpenBy(r)' = OpenBy(r)
    BY <1>1 DEF OpenBy, EnteredBy
  <2>3. OpenAgrees'
    BY <1>1, <2>1, <2>2 DEF OpenAgrees
  <2>4. KeyAgrees'
    BY <1>1, <2>1, <2>2 DEF KeyAgrees
  <2>5. LastAgrees'
    BY <1>1, <2>1, <2>2 DEF LastAgrees
  <2>6. DayAgrees'
    BY <1>1, <2>1, <2>2 DEF DayAgrees
  <2>7. \A p \in PosIds : TradeAgrees(p)'
    BY <1>1, <2>1 DEF TradeAgrees
  <2> QED BY <2>3, <2>4, <2>5, <2>6, <2>7, Zenon DEF IndexesAgree, OpenAgrees, KeyAgrees,
             LastAgrees, DayAgrees, TradeAgrees, EnteredBy, OpenBy
<1> QED BY <1>2, <1>3

LEMMA PassStep ==
    ASSUME BookInv, Pass, UNCHANGED now
    PROVE  BookInv'
<1>1. /\ queue # <<>> /\ queue' = Tail(queue) /\ positions' = positions
      /\ UNCHANGED <<positions, trades, indexes>>
  BY DEF Pass
<1>2. QueueOK'
  <2>1. /\ queue' \in Seq(Ssus \X Instruments)
        /\ \A k \in DOMAIN queue' : k + 1 \in DOMAIN queue /\ queue'[k] = queue[k + 1]
        /\ \A j, k \in DOMAIN queue' : queue'[j] = queue'[k] => j = k
    BY <1>1, QueueMovesOn DEF BookInv
  <2>2. ASSUME NEW k \in DOMAIN queue'
        PROVE  now' \in Times /\ positions'[Here(queue[k])'] = NoRow
    <3>1. now \in Times /\ positions[Here(queue[k + 1])] = NoRow
      BY <2>1 DEF BookInv, QueueOK
    <3>2. Here(queue[k])' = Here(queue[k + 1])
      BY <2>1 DEF Here
    <3> QED BY <1>1, <3>1, <3>2
  <2> QED BY <1>1, <2>1, <2>2 DEF BookInv, QueueOK
<1> QED BY <1>1, <1>2, IndexesStay DEF BookInv

(* The handlers of a new group find no position entered at its time.       *)
LEMMA GroupKeepsBook ==
    ASSUME FeedInv, BookInv, NextGroup
    PROVE  BookInv'
<1>1. UNCHANGED <<positions, trades, indexes>>
  BY DEF NextGroup
<1>2. PICK n \in 1..Len(replay) :
        queue' = Handlers(GroupOf(n)) /\ now' \in Times /\ now < now'
  BY GroupTaken
<1>3. now \in Nat /\ now' \in Nat
  BY <1>2, FeedConstants DEF FeedInv, ReplayOK
<1>4. /\ queue' \in Seq(Ssus \X Instruments)
      /\ \A j, k \in DOMAIN queue' : queue'[j] = queue'[k] => j = k
  <2>1. PICK seq : seq = queue'
    OBVIOUS
  <2>2. /\ seq \in Seq(Ssus \X Instruments)
        /\ \A j, k \in DOMAIN seq : seq[j] = seq[k] => j = k
    BY <1>2, <2>1, HandlersInOrder
  <2> QED BY <2>1, <2>2
<1>5. \A p \in PosIds : positions[p] # NoRow => p.at <= now /\ p.at \in Nat
  BY BookConstants DEF BookInv, QueueOK
<1>6. ASSUME NEW k \in DOMAIN queue' PROVE positions'[Here(queue[k])'] = NoRow
  <2>1. PICK h \in Ssus \X Instruments : h = queue'[k]
    BY <1>4, LenProperties, ElementOfSeq
  <2>2. PICK p : p = [ssu |-> h[1], instrument |-> h[2], at |-> now']
    OBVIOUS
  <2>3. p \in PosIds /\ p.at = now'
    BY <1>2, <2>1, <2>2 DEF PosIds
  <2>4. Here(queue[k])' = p
    BY <2>1, <2>2 DEF Here
  <2>5. positions[p] = NoRow
    BY <1>2, <1>3, <1>5, <2>3
  <2> QED BY <1>1, <2>4, <2>5
<1>7. \A p \in PosIds : positions'[p] # NoRow => p.at <= now'
  BY <1>1, <1>2, <1>3, <1>5
<1>8. QueueOK'
  BY <1>2, <1>4, <1>6, <1>7 DEF QueueOK
<1> QED BY <1>1, <1>8, IndexesStay DEF BookInv

LEMMA BookSteps ==
    ASSUME FeedInv, BookInv, [Next]_vars
    PROVE  BookInv'
<1>1. CASE NextGroup
  BY <1>1, GroupKeepsBook
<1>2. CASE Pass
  BY <1>2, PassStep DEF Pass, feed
<1>3. CASE Done \/ UNCHANGED vars
  <2>1. UNCHANGED <<positions, trades, indexes, queue, now>>
    BY <1>3 DEF Done, vars, feed
  <2>2. QueueOK'
    BY <2>1 DEF BookInv, QueueOK, Here
  <2> QED BY <2>1, <2>2, IndexesStay DEF BookInv
<1>4. ASSUME NEW s \in Ssus, NEW i \in Instruments, Partial(s, i) \/ Close(s, i) \/ Enter(s, i)
      PROVE  BookInv'
  BY <1>4, PartialStep, CloseStep, EnterStep
<1> QED BY <1>1, <1>2, <1>3, <1>4 DEF Next

(* Together: the bars and the book.                                        *)
LEMMA BacktestInvariant == Spec => [](FeedInv /\ BookInv)
<1>1. Init => FeedInv /\ BookInv
  BY FeedStarts, BookStarts
<1>2. FeedInv /\ BookInv /\ [Next]_vars => (FeedInv /\ BookInv)'
  BY FeedSteps, BookSteps
<1> QED BY <1>1, <1>2, PTL DEF Spec

(* After any number of entries, parts and exits the indexes the limits and *)
(* the targets are read from agree with the positions, and the money       *)
(* record of each of them with it (index_open_position,                    *)
(* remove_open_position).                                                  *)
THEOREM IndexesAlwaysAgree == Spec => []IndexesAgree
<1>1. BookInv => IndexesAgree
  BY DEF BookInv
<1> QED BY <1>1, BacktestInvariant, PTL

-----------------------------------------------------------------------------
(* The backtest implements the book.                                       *)

(* FiniteSets in the abstract book and here are one module.                *)
LEMMA SameCardinality ==
    ASSUME NEW S
    PROVE  Book!Cardinality(S) = Cardinality(S)
BY DEF Book!Cardinality, Cardinality

(* The limits read from the indexes are those over all the trades there    *)
(* have been.                                                              *)
LEMMA AdmittedAdmits ==
    ASSUME BookInv, NEW s \in Ssus, NEW at \in Times, Admitted(s, at)
    PROVE  Book!Admits(s, at)
<1>1. /\ OpenAgrees /\ LastAgrees /\ DayAgrees
  BY AgreementInParts DEF BookInv
<1>2. Book!Entered(s) = EnteredBy(s)
  BY DEF Book!Entered, EnteredBy, Book!PosIds, PosIds, Times, Book!NoRow, NoRow
<1>3. Book!OpenOf(s) = OpenBy(s)
  BY DEF Book!OpenOf, OpenBy, EnteredBy, Book!PosIds, PosIds, Times, NoRow
<1>4. ASSUME TradeGap[s] > 0, NEW p \in EnteredBy(s) PROVE at >= p.at + TradeGap[s]
  <2> DEFINE T == {q.at : q \in EnteredBy(s)} \cup {0}
  <2>1. T \in SUBSET Nat /\ p.at \in T /\ \A x \in T : x <= MaxTime
    BY BookConstants DEF EnteredBy
  <2>2. p.at >= 1
    BY BookConstants DEF EnteredBy, Times
  <2>3. last_entry_by_ssu[s] = MaxOf(T)
    BY <1>1 DEF LastAgrees
  <2> HIDE DEF T
  <2>4. IsFiniteSet(T)
    BY <2>1, BookConstants, FS_BoundedSetOfNaturals
  <2>5. last_entry_by_ssu[s] \in Nat /\ last_entry_by_ssu[s] >= p.at /\ p.at \in Nat
    <3>1. T \in SUBSET Int /\ T # {}
      BY <2>1
    <3>2. MaxOf(T) \in T /\ \A y \in T : MaxOf(T) >= y
      BY <2>4, <3>1, HasMax
    <3> QED BY <2>1, <2>3, <3>2
  <2>6. TradeGap[s] \in Nat /\ at \in Nat
    BY BacktestAssumption, BookConstants
  <2>7. at >= last_entry_by_ssu[s] + TradeGap[s]
    BY <1>4, <2>2, <2>5 DEF Admitted
  <2> QED BY <2>5, <2>6, <2>7
<1>5. MaxOverlap[s] > 0 => Cardinality(OpenBy(s)) < MaxOverlap[s]
  BY <1>1 DEF Admitted, OpenAgrees
<1>6. MaxPerDay[s] > 0 => Cardinality({p \in EnteredBy(s) : Book!SameDay(at, p)}) < MaxPerDay[s]
  <2>1. {p \in EnteredBy(s) : Book!SameDay(at, p)} = {p \in EnteredBy(s) : Day(p.at) = Day(at)}
    BY DEF Book!SameDay, Day
  <2>2. Day(at) \in DOMAIN entries_by_ssu_day[s]
    BY BookConstants DEF BookInv, BookTypes
  <2>3. entries_by_ssu_day[s][Day(at)] = Cardinality({p \in EnteredBy(s) : Day(p.at) = Day(at)})
    BY <1>1, <2>2 DEF DayAgrees
  <2> QED BY <2>1, <2>3 DEF Admitted
<1> QED BY <1>2, <1>3, <1>4, <1>5, <1>6, SameCardinality DEF Book!Admits

(* Entering and closing are the steps of the abstract book.                *)
LEMMA EnterRefines ==
    ASSUME FeedInv, BookInv, NEW s \in Ssus, NEW i \in Instruments, Enter(s, i)
    PROVE  Book!Next
<1>1. PICK p \in PosIds, side \in Sides :
             /\ p = Here(<<s, i>>) /\ p.ssu = s /\ p.instrument = i /\ p.at = now
             /\ positions[p] = NoRow
             /\ positions' = [positions EXCEPT ![p] = Opened(p, side)]
             /\ DOMAIN trades' = PosIds
             /\ \A q \in PosIds \ {p} : trades'[q] = trades[q]
             /\ IsTrade(trades'[p]) /\ trades'[p].side = side /\ trades'[p].status = "OPEN"
             /\ trades'[p].exit_at = 0 /\ trades'[p].remaining_qty = Units
             /\ trades'[p].partial_exits = <<>>
             /\ IndexOpen(p, side)
  BY EnterEffect
<1>2. Book!Admits(p.ssu, p.at)
  <2>1. now \in Times /\ Admitted(s, now)
    BY <1>1, BookConstants DEF Enter
  <2> QED BY <1>1, <2>1, AdmittedAdmits
<1>3. Book!Enter(p, side)
  BY <1>1, <1>2 DEF Book!Enter, Book!NoRow, NoRow, Opened
<1>4. positions'[p] = Opened(p, side)
  BY <1>1 DEF BookInv, BookTypes
<1>5. p \in Book!Changed
  BY <1>1, <1>4 DEF Book!Changed, Book!PosIds, PosIds, Times, NoRow, Opened
<1> QED BY <1>3, <1>5 DEF Book!Next

LEMMA CloseRefines ==
    ASSUME FeedInv, BookInv, NEW s \in Ssus, NEW i \in Instruments, Close(s, i)
    PROVE  Book!Next
<1>1. PICK p \in PosIds :
             /\ p.at < now
             /\ positions[p] \in Rows /\ positions[p].status = "OPEN"
             /\ positions' = [positions EXCEPT ![p] = ClosedRow(positions[p], now)]
  BY CloseEffect
<1>2. now \in 1..MaxTime
  BY <1>1, BookConstants DEF FeedInv, ReplayOK
<1>3. Book!Exit(p, now)
  BY <1>1 DEF Book!Exit, ClosedRow
<1>4. positions'[p].status = "CLOSED"
  BY <1>1 DEF BookInv, BookTypes, ClosedRow, Rows
<1>5. p \in Book!Changed
  BY <1>1, <1>4 DEF Book!Changed, Book!PosIds, PosIds, Times
<1> QED BY <1>2, <1>3, <1>5 DEF Book!Next

(* Every backtest is a behaviour of the book the live program implements,  *)
(* with the limits taken over all trades, and no exit is ever undone.      *)
THEOREM BacktestImplementsBook == Spec => ImplementsBook
<1>1. Init => Book!Init
  BY DEF Init, Book!Init, Book!PosIds, PosIds, Times, Book!NoRow, NoRow
<1>2. ASSUME FeedInv, BookInv, [Next]_vars PROVE [Book!Next]_positions
  <2>1. NextGroup \/ Pass \/ Done \/ UNCHANGED vars => UNCHANGED positions
    BY DEF NextGroup, Pass, Done, vars
  <2>2. ASSUME NEW s \in Ssus, NEW i \in Instruments, Partial(s, i)
        PROVE  UNCHANGED positions
    BY <2>2 DEF Partial
  <2>3. ASSUME NEW s \in Ssus, NEW i \in Instruments, Close(s, i) \/ Enter(s, i)
        PROVE  Book!Next
    BY <1>2, <2>3, EnterRefines, CloseRefines
  <2> QED BY <1>2, <2>1, <2>2, <2>3 DEF Next
<1> QED BY <1>1, <1>2, BacktestInvariant, PTL DEF Spec, ImplementsBook, Book!Spec

-----------------------------------------------------------------------------
(* The limits of an SSU.                                                   *)

EnteredOn(s, d) == {p \in EnteredBy(s) : Day(p.at) = d}

EntriesApart ==
    \A s \in Ssus : TradeGap[s] > 0 =>
        \A p, q \in EnteredBy(s) :
            p # q => p.at >= q.at + TradeGap[s] \/ q.at >= p.at + TradeGap[s]
DailyCapKept ==
    \A s \in Ssus : MaxPerDay[s] > 0 =>
        \A d \in Nat : Cardinality(EnteredOn(s, d)) <= MaxPerDay[s]
OverlapKept ==
    \A s \in Ssus : MaxOverlap[s] > 0 => Cardinality(OpenBy(s)) <= MaxOverlap[s]

LimitsKept == EntriesApart /\ DailyCapKept /\ OverlapKept

(* An entry that the book admits keeps all three limits.                   *)
LEMMA EnterKeepsLimits ==
    ASSUME BookInv, LimitsKept, NEW p \in PosIds, NEW side \in Sides, Book!Enter(p, side)
    PROVE  LimitsKept'
<1> DEFINE row == [side |-> side, status |-> "OPEN", exit_at |-> 0]
           u == p.ssu
<1>1. /\ positions[p] = NoRow /\ Book!Admits(u, p.at)
      /\ positions' = [positions EXCEPT ![p] = row] /\ DOMAIN positions = PosIds
  BY DEF Book!Enter, Book!NoRow, NoRow, BookInv, BookTypes
<1>2. p.ssu \in Ssus /\ p.at \in Nat /\ row # NoRow /\ row.status = "OPEN"
      /\ Day(p.at) \in Nat
  BY BookConstants DEF NoRow
<1> HIDE DEF row
<1>3. positions'[p] = row /\ \A q \in PosIds \ {p} : positions'[q] = positions[q]
  BY <1>1
<1>4. \A s \in Ssus : EnteredBy(s)' = IF s = u THEN EnteredBy(s) \cup {p} ELSE EnteredBy(s)
  BY <1>2, <1>3 DEF EnteredBy
<1>5. \A s \in Ssus : OpenBy(s)' = IF s = u THEN OpenBy(s) \cup {p} ELSE OpenBy(s)
  BY <1>2, <1>3, <1>4 DEF OpenBy, EnteredBy
<1>6. \A s \in Ssus, d \in Nat :
        EnteredOn(s, d)' = IF s = u /\ d = Day(p.at) THEN EnteredOn(s, d) \cup {p}
                           ELSE EnteredOn(s, d)
  BY <1>4 DEF EnteredOn
<1>7. Book!Entered(u) = EnteredBy(u) /\ Book!OpenOf(u) = OpenBy(u)
  BY DEF Book!Entered, EnteredBy, Book!OpenOf, OpenBy, Book!PosIds, PosIds, Times,
         Book!NoRow, NoRow
<1>8. /\ TradeGap[u] > 0 => \A q \in EnteredBy(u) : p.at >= q.at + TradeGap[u]
      /\ MaxOverlap[u] > 0 => Cardinality(OpenBy(u)) < MaxOverlap[u]
      /\ MaxPerDay[u] > 0 => Cardinality(EnteredOn(u, Day(p.at))) < MaxPerDay[u]
  <2>1. {q \in EnteredBy(u) : Book!SameDay(p.at, q)} = EnteredOn(u, Day(p.at))
    BY DEF Book!SameDay, Day, EnteredOn
  <2> QED BY <1>1, <1>7, <2>1, SameCardinality DEF Book!Admits
<1>9. \A s \in Ssus : TradeGap[s] \in Nat /\ MaxOverlap[s] \in Nat /\ MaxPerDay[s] \in Nat
  BY BacktestAssumption
<1>10. ASSUME NEW S \in SUBSET PosIds
       PROVE  Cardinality(S \cup {p}) <= Cardinality(S) + 1 /\ Cardinality(S) \in Nat
              /\ Cardinality(S \cup {p}) \in Nat
  <2>1. IsFiniteSet(S)
    BY PosIdsAreFinite
  <2>2. Cardinality(S) \in Nat
    BY <2>1, FS_CardinalityType
  <2>3. Cardinality(S \cup {p}) = IF p \in S THEN Cardinality(S) ELSE Cardinality(S) + 1
    BY <2>1, FS_AddElement
  <2> QED BY <2>2, <2>3
<1>11. EntriesApart'
  <2> SUFFICES ASSUME NEW s \in Ssus, TradeGap[s] > 0, NEW x \in EnteredBy(s)',
                      NEW y \in EnteredBy(s)', x # y
               PROVE  x.at >= y.at + TradeGap[s] \/ y.at >= x.at + TradeGap[s]
    BY DEF EntriesApart
  <2>1. CASE x \in EnteredBy(s) /\ y \in EnteredBy(s)
    BY <2>1 DEF LimitsKept, EntriesApart
  <2>2. CASE s = u /\ (x = p \/ y = p)
    <3>1. x \in EnteredBy(u) \/ y \in EnteredBy(u)
      BY <2>2, <1>4
    <3> QED BY <3>1, <2>2, <1>8, <1>4
  <2> QED BY <2>1, <2>2, <1>4
<1>12. DailyCapKept'
  <2> SUFFICES ASSUME NEW s \in Ssus, MaxPerDay[s] > 0, NEW d \in Nat
               PROVE  Cardinality(EnteredOn(s, d)') <= MaxPerDay[s]
    BY DEF DailyCapKept
  <2>1. EnteredOn(s, d) \in SUBSET PosIds
    BY DEF EnteredOn, EnteredBy
  <2>2. CASE s = u /\ d = Day(p.at)
    BY <2>1, <2>2, <1>6, <1>8, <1>9, <1>10
  <2>3. CASE ~(s = u /\ d = Day(p.at))
    BY <2>3, <1>6 DEF LimitsKept, DailyCapKept
  <2> QED BY <2>2, <2>3
<1>13. OverlapKept'
  <2> SUFFICES ASSUME NEW s \in Ssus, MaxOverlap[s] > 0
               PROVE  Cardinality(OpenBy(s)') <= MaxOverlap[s]
    BY DEF OverlapKept
  <2>1. OpenBy(s) \in SUBSET PosIds
    BY DEF OpenBy, EnteredBy
  <2>2. CASE s = u
    BY <2>1, <2>2, <1>5, <1>8, <1>9, <1>10
  <2>3. CASE s # u
    BY <2>3, <1>5 DEF LimitsKept, OverlapKept
  <2> QED BY <2>2, <2>3
<1> QED BY <1>11, <1>12, <1>13 DEF LimitsKept

(* So does an exit.                                                        *)
LEMMA ExitKeepsLimits ==
    ASSUME BookInv, LimitsKept, NEW p \in PosIds, NEW at, Book!Exit(p, at)
    PROVE  LimitsKept'
<1>1. /\ positions[p].status = "OPEN" /\ DOMAIN positions = PosIds
      /\ positions' = [positions EXCEPT ![p] = [@ EXCEPT !.status = "CLOSED", !.exit_at = at]]
  BY DEF Book!Exit, BookInv, BookTypes
<1>2. positions[p] \in Rows /\ positions[p] # NoRow
  <2>1. positions[p] # NoRow
    BY <1>1 DEF NoRow
  <2> QED BY <2>1 DEF BookInv, BookTypes
<1>3. positions'[p] = [positions[p] EXCEPT !.status = "CLOSED", !.exit_at = at]
      /\ \A q \in PosIds \ {p} : positions'[q] = positions[q]
  BY <1>1
<1>4. positions'[p].status = "CLOSED" /\ positions'[p] # NoRow
  <2>1. PICK row \in Rows : row = positions[p]
    BY <1>2
  <2>2. positions'[p] = [row EXCEPT !.status = "CLOSED", !.exit_at = at]
    BY <2>1, <1>3
  <2>3. [row EXCEPT !.status = "CLOSED", !.exit_at = at].status = "CLOSED"
    BY DEF Rows
  <2>4. positions'[p].status = "CLOSED"
    BY <2>2, <2>3
  <2>5. NoRow.status # "CLOSED"
    BY DEF NoRow
  <2> QED BY <2>4, <2>5
<1>5. \A s \in Ssus : EnteredBy(s)' = EnteredBy(s)
  BY <1>2, <1>3, <1>4 DEF EnteredBy
<1>6. \A s \in Ssus : OpenBy(s)' = OpenBy(s) \ {p}
  BY <1>3, <1>4, <1>5 DEF OpenBy, EnteredBy
<1>7. EntriesApart' /\ DailyCapKept'
  BY <1>5 DEF LimitsKept, EntriesApart, DailyCapKept, EnteredOn
<1>8. OverlapKept'
  <2> SUFFICES ASSUME NEW s \in Ssus, MaxOverlap[s] > 0
               PROVE  Cardinality(OpenBy(s)') <= MaxOverlap[s]
    BY DEF OverlapKept
  <2>1. IsFiniteSet(OpenBy(s))
    BY PosIdsAreFinite DEF OpenBy, EnteredBy
  <2>2. /\ Cardinality(OpenBy(s) \ {p}) <= Cardinality(OpenBy(s))
        /\ Cardinality(OpenBy(s) \ {p}) \in Nat /\ Cardinality(OpenBy(s)) \in Nat
    BY <2>1, FS_Subset, FS_CardinalityType
  <2>3. Cardinality(OpenBy(s)) <= MaxOverlap[s] /\ MaxOverlap[s] \in Nat
    BY BacktestAssumption DEF LimitsKept, OverlapKept
  <2> QED BY <2>2, <2>3, <1>6
<1> QED BY <1>7, <1>8 DEF LimitsKept

(* No backtest breaks the limits its SSUs were given: entries are a trade  *)
(* gap apart, no day has more than its cap, and no more positions are open *)
(* at once than the overlap allows, whatever the history and the decisions *)
(* of the strategies (open_position of the backtest book).                 *)
THEOREM BacktestKeepsLimits == Spec => []LimitsKept
<1>1. Init => LimitsKept
  <2> SUFFICES ASSUME Init PROVE LimitsKept
    OBVIOUS
  <2>1. \A s \in Ssus : EnteredBy(s) = {} /\ OpenBy(s) = {}
    BY DEF Init, EnteredBy, OpenBy
  <2>2. \A s \in Ssus, d \in Nat : EnteredOn(s, d) = {}
    BY <2>1 DEF EnteredOn
  <2>3. \A s \in Ssus : MaxOverlap[s] \in Nat /\ MaxPerDay[s] \in Nat
    BY BacktestAssumption
  <2> QED BY <2>1, <2>2, <2>3, FS_EmptySet DEF LimitsKept, EntriesApart, DailyCapKept, OverlapKept
<1>2. BookInv /\ LimitsKept /\ [Book!Next]_positions => LimitsKept'
  <2> SUFFICES ASSUME BookInv, LimitsKept, [Book!Next]_positions PROVE LimitsKept'
    OBVIOUS
  <2>1. CASE UNCHANGED positions
    BY <2>1 DEF LimitsKept, EntriesApart, DailyCapKept, OverlapKept, EnteredOn, OpenBy, EnteredBy
  <2>2. CASE \E p \in Book!Changed, side \in Sides : Book!Enter(p, side)
    BY <2>2, EnterKeepsLimits DEF Book!Changed, Book!PosIds, PosIds, Times
  <2>3. CASE \E p \in Book!Changed, at \in 1..MaxTime : Book!Exit(p, at)
    BY <2>3, ExitKeepsLimits DEF Book!Changed, Book!PosIds, PosIds, Times
  <2> QED BY <2>1, <2>2, <2>3 DEF Book!Next, Book!Forget
<1> QED BY <1>1, <1>2, BacktestInvariant, BacktestImplementsBook, PTL
        DEF Spec, ImplementsBook, Book!Spec

-----------------------------------------------------------------------------
(* The money.  The net P&L of a closed trade is the cash of its fills less *)
(* the funding of what was held at each due minute, whatever parts were    *)
(* sold before, and the summary of an SSU adds those up.  First sums over  *)
(* finite sets, which the model takes from the community modules, then the *)
(* drawdown of a list, then the money of one trade from its entry to its   *)
(* exit, and last the steps of the backtest.                               *)

(* Sums and folds.  A fold is defined by recursion over the subsets of its *)
(* domain: that such a function exists, and what it is, is shown by        *)
(* counting.                                                               *)

(* A set with 0 and every successor has every number.                      *)
LEMMA CountingUp ==
    ASSUME NEW G \in SUBSET Nat, 0 \in G, \A n \in G : n + 1 \in G
    PROVE  G = Nat
<1> SUFFICES ASSUME NEW m \in Nat, m \notin G PROVE FALSE
  OBVIOUS
<1> DEFINE T == {n \in 0..m : n \notin G}
<1>1. T \in SUBSET Int /\ IsFiniteSet(T) /\ T # {}
  <2>1. IsFiniteSet(0..m) /\ T \in SUBSET (0..m) /\ m \in T
    BY FS_Interval
  <2> HIDE DEF T
  <2>2. IsFiniteSet(T)
    BY <2>1, FS_Subset
  <2> QED BY <2>1, <2>2
<1> HIDE DEF T
<1>2. PICK n \in T : \A y \in T : n <= y
  BY <1>1, HasMin
<1> USE DEF T
<1>3. n \in 0..m /\ n \notin G /\ n # 0
  BY <1>2
<1>4. n - 1 \in G
  BY <1>2, <1>3
<1>5. (n - 1) + 1 = n
  BY <1>3
<1> QED BY <1>3, <1>4, <1>5

(* A function on the subsets of S that is defined by taking elements out   *)
(* one by one.                                                             *)
Picks(ch, S) == \A s \in SUBSET S : s # {} => ch[s] \in s

FoldsUp(f, base, ch, G, S, V) ==
    /\ f \in [SUBSET S -> V]
    /\ \A s \in SUBSET S :
          f[s] = IF s = {} THEN base ELSE G[<<s, f[s \ {ch[s]}]>>]

(* A function defined by recursion over the subsets of a set exists.       *)
LEMMA FoldExists ==
    ASSUME NEW S, IsFiniteSet(S), NEW V, NEW base \in V, NEW ch, Picks(ch, S),
           NEW G, G \in [(SUBSET S) \X V -> V]
    PROVE  \E f : FoldsUp(f, base, ch, G, S, V)
<1> DEFINE Folds(f, s) == f[s] = IF s = {} THEN base ELSE G[<<s, f[s \ {ch[s]}]>>]
           upto == {n \in Nat : \E f \in [SUBSET S -> V] :
                       \A s \in SUBSET S : Cardinality(s) <= n => Folds(f, s)}
<1>1. \A s \in SUBSET S : IsFiniteSet(s) /\ Cardinality(s) \in Nat
                         /\ Cardinality(s) <= Cardinality(S) /\ (Cardinality(s) = 0 => s = {})
  BY FS_Subset, FS_CardinalityType, FS_EmptySet
<1>2. \A s \in SUBSET S : s # {} => s \ {ch[s]} \in SUBSET S
                                    /\ Cardinality(s \ {ch[s]}) = Cardinality(s) - 1
  BY <1>1, FS_RemoveElement DEF Picks
<1>3. 0 \in upto
  <2> DEFINE f == [s \in SUBSET S |-> base]
  <2>1. \A s \in SUBSET S : Cardinality(s) <= 0 => Folds(f, s)
    <3> SUFFICES ASSUME NEW s \in SUBSET S, Cardinality(s) <= 0 PROVE Folds(f, s)
      OBVIOUS
    <3>1. s = {}
      BY <1>1
    <3> QED BY <3>1
  <2>2. f \in [SUBSET S -> V]
    OBVIOUS
  <2> HIDE DEF f, Folds
  <2> QED BY <2>1, <2>2
<1>4. ASSUME NEW n \in upto PROVE n + 1 \in upto
  <2>1. PICK f \in [SUBSET S -> V] : \A s \in SUBSET S : Cardinality(s) <= n => Folds(f, s)
    OBVIOUS
  <2> DEFINE g == [s \in SUBSET S |-> IF s = {} THEN base ELSE G[<<s, f[s \ {ch[s]}]>>]]
  <2>2. g \in [SUBSET S -> V]
    <3>1. \A s \in SUBSET S : s # {} => f[s \ {ch[s]}] \in V
      BY <1>2
    <3> QED BY <3>1
  <2>3. \A s \in SUBSET S : Cardinality(s) <= n + 1 => Folds(g, s)
    <3> SUFFICES ASSUME NEW s \in SUBSET S, Cardinality(s) <= n + 1, s # {}
                 PROVE  g[s] = G[<<s, g[s \ {ch[s]}]>>]
      <4>1. g[{}] = base
        OBVIOUS
      <4> QED BY <4>1
    <3> DEFINE r == s \ {ch[s]}
    <3>1. r \in SUBSET S /\ Cardinality(r) <= n
      BY <1>1, <1>2
    <3>2. Folds(f, r)
      BY <2>1, <3>1
    <3>3. g[r] = f[r]
      <4>1. g[r] = IF r = {} THEN base ELSE G[<<r, f[r \ {ch[r]}]>>]
        BY <3>1
      <4> HIDE DEF g, r
      <4> QED BY <3>2, <4>1
    <3>4. g[s] = G[<<s, f[r]>>]
      OBVIOUS
    <3> HIDE DEF g
    <3> QED BY <3>3, <3>4
  <2> HIDE DEF g, Folds
  <2> QED BY <2>2, <2>3
<1>5. upto = Nat
  <2> HIDE DEF Folds
  <2>1. upto \in SUBSET Nat
    OBVIOUS
  <2> HIDE DEF upto
  <2> QED BY <1>3, <1>4, <2>1, CountingUp
<1>6. Cardinality(S) \in upto
  BY <1>1, <1>5
<1> QED BY <1>1, <1>6 DEF FoldsUp

(* A sum over every subset of T, whichever element is taken out.           *)
Adds(g, h, T) ==
    /\ g \in [SUBSET T -> Int] /\ g[{}] = 0
    /\ \A s \in SUBSET T : \A x \in s : g[s] = h[x] + g[s \ {x}]

(* A function that adds up the values of a finite set exists.              *)
LEMMA AddsExists ==
    ASSUME NEW T, IsFiniteSet(T), NEW h \in [T -> Int]
    PROVE  \E g : Adds(g, h, T)
<1> DEFINE ch == [s \in SUBSET T |-> CHOOSE x \in s : TRUE]
           G == [sv \in (SUBSET T) \X Int |-> IF sv[1] = {} THEN 0 ELSE h[ch[sv[1]]] + sv[2]]
<1>1. \A s \in SUBSET T : s # {} => ch[s] \in s
  OBVIOUS
<1>2. G \in [(SUBSET T) \X Int -> Int]
  <2>1. \A sv \in (SUBSET T) \X Int : sv[1] # {} => h[ch[sv[1]]] \in Int
    BY <1>1
  <2> HIDE DEF ch
  <2> QED BY <2>1
<1>3. \A s \in SUBSET T, v \in Int : s # {} => G[<<s, v>>] = h[ch[s]] + v
  <2> HIDE DEF ch
  <2> QED OBVIOUS
<1> HIDE DEF ch, G
<1>4. PICK g \in [SUBSET T -> Int] : \A s \in SUBSET T :
              g[s] = IF s = {} THEN 0 ELSE G[<<s, g[s \ {ch[s]}]>>]
  <2>1. PICK V : V = Int
    OBVIOUS
  <2>2. 0 \in V /\ G \in [(SUBSET T) \X V -> V] /\ Picks(ch, T)
    BY <1>1, <1>2, <2>1 DEF Picks
  <2>3. \E g : FoldsUp(g, 0, ch, G, T, V)
    BY <2>2, FoldExists
  <2> QED BY <2>1, <2>3 DEF FoldsUp
<1>5. g[{}] = 0
  BY <1>4
<1>6. ASSUME NEW s \in SUBSET T, s # {} PROVE g[s] = h[ch[s]] + g[s \ {ch[s]}]
  <2>1. g[s \ {ch[s]}] \in Int
    OBVIOUS
  <2> QED BY <1>3, <1>4, <1>6, <2>1
<1> DEFINE Free(s) == \A x \in s : g[s] = h[x] + g[s \ {x}]
           upto == {n \in Nat : \A s \in SUBSET T : Cardinality(s) = n => Free(s)}
<1>7. \A s \in SUBSET T : IsFiniteSet(s) /\ Cardinality(s) \in Nat /\ (Cardinality(s) = 0 => s = {})
  BY FS_Subset, FS_CardinalityType, FS_EmptySet
<1>8. 0 \in upto
  BY <1>7
<1>9. ASSUME NEW n \in upto PROVE n + 1 \in upto
  <2> SUFFICES ASSUME NEW s \in SUBSET T, Cardinality(s) = n + 1, NEW x \in s
               PROVE  g[s] = h[x] + g[s \ {x}]
    OBVIOUS
  <2> DEFINE y == ch[s]
  <2>1. y \in s /\ g[s] = h[y] + g[s \ {y}]
    BY <1>1, <1>6
  <2>2. CASE x = y
    BY <2>1, <2>2
  <2>3. CASE x # y
    <3> DEFINE a == s \ {y}
               b == s \ {x}
               c == s \ {x, y}
    <3>1. /\ a \in SUBSET T /\ b \in SUBSET T /\ c \in SUBSET T /\ x \in a /\ y \in b
          /\ a \ {x} = c /\ b \ {y} = c
      BY <2>1, <2>3
    <3>2. Cardinality(a) = n /\ Cardinality(b) = n
      <4>1. y \in s /\ IsFiniteSet(s)
        BY <1>7, <2>1
      <4> HIDE DEF y
      <4>2. Cardinality(a) = Cardinality(s) - 1
        BY <4>1, FS_RemoveElement
      <4>3. Cardinality(b) = Cardinality(s) - 1
        BY <4>1, FS_RemoveElement
      <4> QED BY <4>2, <4>3
    <3>3. g[a] = h[x] + g[c] /\ g[b] = h[y] + g[c]
      <4>1. Free(a) /\ Free(b)
        BY <3>1, <3>2
      <4> QED BY <3>1, <4>1
    <3>4. h[x] \in Int /\ h[y] \in Int /\ g[c] \in Int
      BY <2>1, <3>1
    <3> QED BY <2>1, <3>3, <3>4
  <2> QED BY <2>2, <2>3
<1>10. upto = Nat
  <2> HIDE DEF Free
  <2>1. upto \in SUBSET Nat
    OBVIOUS
  <2> HIDE DEF upto
  <2> QED BY <1>8, <1>9, <2>1, CountingUp
<1>11. \A s \in SUBSET T : Free(s)
  BY <1>7, <1>10
<1> QED BY <1>5, <1>11 DEF Adds

(* Whatever order a sum is taken in, it is this one.                       *)
IntsOn(h, T) == IsFiniteSet(T) /\ \A x \in T : h[x] \in Int

SumsUp(v, h, T) ==
    /\ v[{}] = 0
    /\ \A s \in SUBSET T : s # {} =>
          \E x \in s : v[s] = h[x] + v[s \ {x}] \/ v[s] = v[s \ {x}] + h[x]

(* Two functions that add up the same values agree.                        *)
LEMMA AddsOnce ==
    ASSUME NEW T, NEW h, IntsOn(h, T), NEW g, Adds(g, h, T), NEW v, SumsUp(v, h, T)
    PROVE  \A s \in SUBSET T : v[s] = g[s]
<1> DEFINE upto == {n \in Nat : \A s \in SUBSET T : Cardinality(s) = n => v[s] = g[s]}
<1>1. \A s \in SUBSET T : IsFiniteSet(s) /\ Cardinality(s) \in Nat /\ (Cardinality(s) = 0 => s = {})
  BY FS_Subset, FS_CardinalityType, FS_EmptySet DEF IntsOn
<1>2. 0 \in upto
  BY <1>1 DEF Adds, SumsUp
<1>3. ASSUME NEW n \in upto PROVE n + 1 \in upto
  <2> SUFFICES ASSUME NEW s \in SUBSET T, Cardinality(s) = n + 1 PROVE v[s] = g[s]
    OBVIOUS
  <2>1. s # {}
    BY FS_EmptySet
  <2>2. PICK x \in s : v[s] = h[x] + v[s \ {x}] \/ v[s] = v[s \ {x}] + h[x]
    BY <2>1 DEF SumsUp
  <2>3. Cardinality(s \ {x}) = n
    <3>1. Cardinality(s \ {x}) = Cardinality(s) - 1
      BY <1>1, <2>2, FS_RemoveElement
    <3> QED BY <3>1
  <2>4. v[s \ {x}] = g[s \ {x}]
    BY <2>3
  <2>5. h[x] \in Int /\ g[s \ {x}] \in Int /\ g[s] = h[x] + g[s \ {x}]
    BY DEF Adds, IntsOn
  <2>6. v[s] = h[x] + g[s \ {x}] \/ v[s] = g[s \ {x}] + h[x]
    BY <2>2, <2>4
  <2> QED BY <2>5, <2>6
<1>4. upto = Nat
  <2>1. upto \in SUBSET Nat
    OBVIOUS
  <2> HIDE DEF upto
  <2> QED BY <1>2, <1>3, <2>1, CountingUp
<1> QED BY <1>1, <1>4

(* The sum of the values a function has on a finite set, and what is known *)
(* of it: it can be taken in any order.                                    *)
Total(h, T) == (CHOOSE g : Adds(g, h, T))[T]

(* Whatever adds up the values of a set is their total.                    *)
LEMMA TotalOnce ==
    ASSUME NEW T, NEW h, IntsOn(h, T), NEW v, SumsUp(v, h, T)
    PROVE  \A s \in SUBSET T : v[s] = Total(h, s)
<1> SUFFICES ASSUME NEW s \in SUBSET T PROVE v[s] = Total(h, s)
  OBVIOUS
<1>1. IsFiniteSet(s) /\ \A x \in s : h[x] \in Int
  BY FS_Subset DEF IntsOn
<1>2. \E g : Adds(g, h, s)
  <2> DEFINE k == [x \in s |-> h[x]]
  <2>1. k \in [s -> Int] /\ \A x \in s : k[x] = h[x]
    BY <1>1
  <2> HIDE DEF k
  <2>2. PICK g : Adds(g, k, s)
    BY <1>1, <2>1, AddsExists
  <2>3. Adds(g, h, s)
    BY <2>1, <2>2 DEF Adds
  <2> QED BY <2>3
<1> DEFINE g == CHOOSE g : Adds(g, h, s)
<1>3. Adds(g, h, s)
  BY <1>2
<1> HIDE DEF g
<1>4. SumsUp(v, h, s) /\ IntsOn(h, s)
  BY <1>1 DEF SumsUp, IntsOn
<1>5. v[s] = g[s]
  BY <1>3, <1>4, AddsOnce
<1> QED BY <1>5 DEF Total, g

Without(x, h, s) ==
    /\ Total(h, s) = h[x] + Total(h, s \ {x})
    /\ Total(h, s \ {x}) \in Int /\ h[x] \in Int

(* The total is an integer, zero of nothing, and grows by each value.      *)
LEMMA TotalAdds ==
    ASSUME NEW T, NEW h, IntsOn(h, T)
    PROVE  /\ Total(h, {}) = 0
           /\ \A s \in SUBSET T : Total(h, s) \in Int
           /\ \A s \in SUBSET T : \A x \in s : Without(x, h, s)
<1> DEFINE k == [x \in T |-> h[x]]
<1>1. k \in [T -> Int] /\ \A x \in T : k[x] = h[x]
  BY DEF IntsOn
<1> HIDE DEF k
<1>2. PICK g : Adds(g, k, T)
  BY <1>1, AddsExists DEF IntsOn
<1>3. /\ g \in [SUBSET T -> Int] /\ g[{}] = 0
      /\ \A s \in SUBSET T : \A x \in s : g[s] = h[x] + g[s \ {x}]
  BY <1>1, <1>2 DEF Adds
<1>4. SumsUp(g, h, T)
  BY <1>3 DEF SumsUp
<1>5. \A s \in SUBSET T : g[s] = Total(h, s)
  BY <1>4, TotalOnce
<1>6. \A s \in SUBSET T : \A x \in s : s \ {x} \in SUBSET T
  OBVIOUS
<1> QED BY <1>3, <1>5, <1>6 DEF Without, IntsOn

(* One more.                                                               *)
LEMMA TotalGrows ==
    ASSUME NEW T, NEW h, IntsOn(h, T), NEW x, x \notin T, h[x] \in Int
    PROVE  Total(h, T \cup {x}) = Total(h, T) + h[x] /\ Total(h, T) \in Int
<1> DEFINE U == T \cup {x}
<1>1. IntsOn(h, U) /\ x \in U /\ U \ {x} = T /\ T \in SUBSET U /\ U \in SUBSET U
  BY FS_AddElement DEF IntsOn
<1> HIDE DEF U
<1>2. Total(h, U) = h[x] + Total(h, U \ {x})
  BY <1>1, TotalAdds DEF Without
<1>3. Total(h, T) \in Int
  BY <1>1, TotalAdds
<1>4. Total(h, U) = Total(h, T) + h[x]
  <2>1. Total(h, U) = h[x] + Total(h, T)
    BY <1>1, <1>2, Zenon
  <2> QED BY <1>3, <2>1
<1> QED BY <1>3, <1>4 DEF U

(* Functions that agree have the same sum.                                 *)
LEMMA TotalSame ==
    ASSUME NEW T, NEW h, IntsOn(h, T), NEW k, \A x \in T : k[x] = h[x]
    PROVE  Total(k, T) = Total(h, T)
<1> DEFINE v == [s \in SUBSET T |-> Total(k, s)]
<1>1. IntsOn(k, T)
  BY DEF IntsOn
<1>2. v[{}] = 0
  BY <1>1, TotalAdds
<1>3. \A s \in SUBSET T : s # {} => \E x \in s : v[s] = h[x] + v[s \ {x}]
  <2> SUFFICES ASSUME NEW s \in SUBSET T, NEW x \in s PROVE v[s] = h[x] + v[s \ {x}]
    OBVIOUS
  <2>1. Total(k, s) = k[x] + Total(k, s \ {x})
    BY <1>1, TotalAdds DEF Without
  <2> QED BY <2>1
<1>4. v[T] = Total(k, T)
  OBVIOUS
<1> HIDE DEF v
<1>5. v[T] = Total(h, T)
  <2>1. SumsUp(v, h, T)
    BY <1>2, <1>3 DEF SumsUp
  <2> QED BY <2>1, TotalOnce
<1> QED BY <1>4, <1>5

(* What is added to some of the values is added to the sum as often.       *)
IsPlus(k, h, T, B, c) == \A x \in T : k[x] = h[x] + (IF x \in B THEN c ELSE 0)

(* Adding the same to the values of some elements.                         *)
LEMMA TotalPlus ==
    ASSUME NEW T, NEW h, IntsOn(h, T), NEW k, NEW B, NEW c \in Int, IsPlus(k, h, T, B, c)
    PROVE  Total(k, T) = Total(h, T) + c * Cardinality(T \cap B)
<1> DEFINE v == [s \in SUBSET T |-> Total(h, s) + c * Cardinality(s \cap B)]
<1>1. IntsOn(k, T) /\ \A x \in T : k[x] = h[x] + (IF x \in B THEN c ELSE 0)
  BY DEF IntsOn, IsPlus
<1>2. v[{}] = 0
  <2>1. Total(h, {}) = 0 /\ {} \cap B = {} /\ Cardinality({}) = 0
    BY TotalAdds, FS_EmptySet
  <2> QED BY <2>1
<1>3. ASSUME NEW s \in SUBSET T, NEW x \in s PROVE v[s] = k[x] + v[s \ {x}]
  <2> DEFINE r == s \ {x}
  <2>1. /\ Total(h, s) = h[x] + Total(h, r) /\ Total(h, r) \in Int /\ h[x] \in Int
    <3>1. Without(x, h, s)
      BY TotalAdds
    <3> QED BY <3>1 DEF Without
  <2>2. IsFiniteSet(s \cap B) /\ IsFiniteSet(r \cap B)
    BY FS_Subset DEF IntsOn
  <2>3. Cardinality(s \cap B) \in Nat /\ Cardinality(r \cap B) \in Nat
    BY <2>2, FS_CardinalityType
  <2>4. CASE x \in B
    <3>1. s \cap B = (r \cap B) \cup {x} /\ x \notin r \cap B
      BY <2>4
    <3>2. Cardinality(s \cap B) = Cardinality(r \cap B) + 1
      BY <2>2, <3>1, FS_AddElement
    <3>3. v[s] = Total(h, s) + c * Cardinality(s \cap B) /\ v[r] = Total(h, r) + c * Cardinality(r \cap B)
      OBVIOUS
    <3>4. k[x] = h[x] + c
      BY <1>1, <2>4
    <3> HIDE DEF v, r
    <3>5. c * (Cardinality(r \cap B) + 1) = c * Cardinality(r \cap B) + c
          /\ c * Cardinality(r \cap B) \in Int
      BY <2>3
    <3> QED BY <2>1, <3>2, <3>3, <3>4, <3>5 DEF r
  <2>5. CASE x \notin B
    <3>1. s \cap B = r \cap B
      BY <2>5
    <3>2. v[s] = Total(h, s) + c * Cardinality(s \cap B) /\ v[r] = Total(h, r) + c * Cardinality(r \cap B)
      OBVIOUS
    <3>3. k[x] = h[x] + 0
      BY <1>1, <2>5
    <3>4. c * Cardinality(r \cap B) \in Int
      BY <2>3
    <3>5. v[s] = h[x] + Total(h, r) + c * Cardinality(r \cap B)
      <4> HIDE DEF v, r
      <4> QED BY <2>1, <3>1, <3>2
    <3> HIDE DEF v
    <3>6. v[s] = k[x] + v[r]
      <4> HIDE DEF r
      <4> QED BY <2>1, <3>2, <3>3, <3>4, <3>5
    <3> QED BY <3>6
  <2> QED BY <2>4, <2>5
<1>4. \A s \in SUBSET T : s # {} => \E x \in s : v[s] = k[x] + v[s \ {x}]
  <2> HIDE DEF v
  <2> QED BY <1>3
<1>5. v[T] = Total(h, T) + c * Cardinality(T \cap B)
  OBVIOUS
<1> HIDE DEF v
<1>6. v[T] = Total(k, T)
  <2>1. SumsUp(v, k, T)
    BY <1>2, <1>4 DEF SumsUp
  <2> QED BY <1>1, <2>1, TotalOnce
<1> QED BY <1>5, <1>6

(* Sums of a product with a constant.                                      *)
IsTimes(k, h, T, c) == \A x \in T : k[x] = c * h[x]

(* Multiplying all the values.                                             *)
LEMMA TotalTimes ==
    ASSUME NEW T, NEW h, IntsOn(h, T), NEW k, NEW c \in Int, IsTimes(k, h, T, c)
    PROVE  Total(k, T) = c * Total(h, T)
<1> DEFINE v == [s \in SUBSET T |-> c * Total(h, s)]
<1>1. IntsOn(k, T) /\ \A x \in T : k[x] = c * h[x]
  BY DEF IntsOn, IsTimes
<1>2. v[{}] = 0
  <2>1. Total(h, {}) = 0
    BY TotalAdds
  <2> QED BY <2>1
<1>3. ASSUME NEW s \in SUBSET T, NEW x \in s PROVE v[s] = k[x] + v[s \ {x}]
  <2>1. Total(h, s) = h[x] + Total(h, s \ {x}) /\ Total(h, s \ {x}) \in Int /\ h[x] \in Int
    <3>1. Without(x, h, s)
      BY TotalAdds
    <3> QED BY <3>1 DEF Without
  <2>2. v[s] = c * Total(h, s) /\ v[s \ {x}] = c * Total(h, s \ {x}) /\ k[x] = c * h[x]
    BY <1>1
  <2>3. c * (h[x] + Total(h, s \ {x})) = c * h[x] + c * Total(h, s \ {x})
    BY <2>1
  <2> HIDE DEF v
  <2> QED BY <2>1, <2>2, <2>3
<1>4. \A s \in SUBSET T : s # {} => \E x \in s : v[s] = k[x] + v[s \ {x}]
  <2> HIDE DEF v
  <2> QED BY <1>3
<1>5. v[T] = c * Total(h, T)
  OBVIOUS
<1> HIDE DEF v
<1>6. v[T] = Total(k, T)
  <2>1. SumsUp(v, k, T)
    BY <1>2, <1>4 DEF SumsUp
  <2> QED BY <1>1, <2>1, TotalOnce
<1> QED BY <1>5, <1>6

(* The sums of the model are such totals: the function their folds choose  *)
(* exists, since the total is one.                                         *)
LEMMA LastOf ==
    ASSUME NEW n \in Nat, NEW s \in SUBSET (1..n), s # {}
    PROVE  Max(s) \in s /\ \A y \in s : Max(s) >= y
<1>1. s \in SUBSET Int /\ IsFiniteSet(s)
  <2>1. IsFiniteSet(1..n)
    BY FS_Interval
  <2>2. IsFiniteSet(s)
    BY <2>1, FS_Subset
  <2> QED BY <2>2
<1>2. MaxOf(s) \in s /\ \A y \in s : MaxOf(s) >= y
  BY <1>1, HasMax
<1> QED BY <1>2 DEF Max, MaxOf

(* The sum of a function over its domain is the total of its values.       *)
LEMMA SumIsTotal ==
    ASSUME NEW T, NEW h, DOMAIN h = T, IntsOn(h, T)
    PROVE  SumFunction(h) = Total(h, T)
<1> DEFINE x(s) == CHOOSE x \in s : TRUE
           Of(it) == [s \in SUBSET T |-> IF s = {} THEN 0 ELSE h[x(s)] + it[s \ {x(s)}]]
           w == [s \in SUBSET T |-> Total(h, s)]
           iter == CHOOSE it : it = Of(it)
<1>1. SumFunction(h) = iter[T]
  <2>1. SumFunction(h) = (CHOOSE it : it = [s \in SUBSET DOMAIN h |->
                        IF s = {} THEN 0 ELSE h[x(s)] + it[s \ {x(s)}]])[DOMAIN h]
    BY DEF SumFunction, SumFunctionOnSet, FoldFunctionOnSet, MapThenFoldSet
  <2> QED BY <2>1
<1>2. \A s \in SUBSET T : s # {} => x(s) \in s
  OBVIOUS
<1> HIDE DEF x
<1>3. w = Of(w)
  <2>1. ASSUME NEW s \in SUBSET T, s # {}
        PROVE  w[s] = h[x(s)] + w[s \ {x(s)}]
    <3>1. PICK y \in s : y = x(s)
      BY <1>2, <2>1
    <3>2. Total(h, s) = h[y] + Total(h, s \ {y})
      BY TotalAdds DEF Without
    <3> QED BY <3>1, <3>2
  <2>2. w[{}] = 0
    BY TotalAdds
  <2>3. \A s \in SUBSET T : w[s] = Of(w)[s]
    <3> HIDE DEF w
    <3> QED BY <2>1, <2>2
  <2> QED BY <2>3
<1>4. iter = Of(iter)
  <2> HIDE DEF w, Of
  <2> QED BY <1>3
<1> HIDE DEF iter, w
<1>5. SumsUp(iter, h, T)
  <2>1. \A s \in SUBSET T :
          iter[s] = IF s = {} THEN 0 ELSE h[x(s)] + iter[s \ {x(s)}]
    BY <1>4
  <2> QED BY <1>2, <2>1 DEF SumsUp
<1> QED BY <1>1, <1>5, TotalOnce

-----------------------------------------------------------------------------
(* The drawdown of a list of results.                                      *)

(* The drawdown.  At each step of the fold the equity is the sum of the    *)
(* values so far, the peak the highest it has been, the fall the largest   *)
(* way down from an earlier to a later one.                                *)
Falls == [equity : Int, peak : Int, fall : Int]

Fallen(d, v) ==
    LET equity == d.equity + v
        peak   == MaxOf({d.peak, equity})
    IN  [equity |-> equity, peak |-> peak, fall |-> MaxOf({d.fall, peak - equity})]

Tracks(d, E, k) ==
    /\ d \in Falls /\ d.equity = E[k]
    /\ \A i \in 0..k : E[i] <= d.peak
    /\ \E i \in 0..k : E[i] = d.peak
    /\ \A i, j \in 0..k : i <= j => E[i] - E[j] <= d.fall
    /\ \E i, j \in 0..k : i <= j /\ E[i] - E[j] = d.fall

(* The larger of two numbers.                                              *)
LEMMA LargerOf ==
    ASSUME NEW a \in Int, NEW b \in Int
    PROVE  MaxOf({a, b}) = IF a >= b THEN a ELSE b
<1>1. CASE a >= b
  BY <1>1, MaxIs
<1>2. CASE ~(a >= b)
  BY <1>2, MaxIs
<1> QED BY <1>1, <1>2

(* One step of the fold keeps what it tracks.                              *)
LEMMA FallStep ==
    ASSUME NEW n \in Nat, NEW E \in [0..n -> Int], NEW k \in Nat, k + 1 <= n,
           NEW d, Tracks(d, E, k), NEW v \in Int, E[k + 1] = E[k] + v
    PROVE  Tracks(Fallen(d, v), E, k + 1)
<1> DEFINE eq == d.equity + v
           pk == MaxOf({d.peak, eq})
           fl == MaxOf({d.fall, pk - eq})
<1>1. d \in Falls /\ d.equity \in Int /\ d.peak \in Int /\ d.fall \in Int
  BY DEF Tracks, Falls
<1>2. eq \in Int /\ eq = E[k + 1]
  BY <1>1 DEF Tracks
<1> HIDE DEF eq
<1>3. pk \in Int /\ pk >= d.peak /\ pk >= eq /\ (pk = d.peak \/ pk = eq)
  <2>1. PICK top : top = d.peak
    OBVIOUS
  <2>2. top \in Int /\ eq \in Int /\ pk = MaxOf({top, eq})
    BY <1>1, <1>2, <2>1
  <2>3. pk = IF top >= eq THEN top ELSE eq
    BY <2>2, LargerOf
  <2> HIDE DEF pk
  <2>4. pk \in Int /\ pk >= top /\ pk >= eq /\ (pk = top \/ pk = eq)
    BY <2>2, <2>3
  <2> QED BY <2>1, <2>4
<1> HIDE DEF pk
<1>4. fl \in Int /\ fl >= d.fall /\ fl >= pk - eq /\ (fl = d.fall \/ fl = pk - eq)
  <2>1. pk - eq \in Int
    BY <1>2, <1>3
  <2>2. fl = IF d.fall >= pk - eq THEN d.fall ELSE pk - eq
    BY <1>1, <2>1, LargerOf
  <2> HIDE DEF fl
  <2> QED BY <1>1, <2>1, <2>2
<1> HIDE DEF fl
<1>5. Fallen(d, v) = [equity |-> eq, peak |-> pk, fall |-> fl]
  BY DEF Fallen, eq, pk, fl
<1>6. \A i \in 0..(k + 1) : (i \in 0..k \/ i = k + 1) /\ E[i] \in Int
  OBVIOUS
<1>7. 0..k \subseteq 0..(k + 1) /\ k + 1 \in 0..(k + 1)
  OBVIOUS
<1>8. \A i \in 0..(k + 1) : E[i] <= pk
  <2> TAKE i \in 0..(k + 1)
  <2>1. CASE i \in 0..k
    <3>1. E[i] <= d.peak /\ E[i] \in Int
      BY <1>6, <2>1 DEF Tracks
    <3> QED BY <1>1, <1>3, <3>1
  <2>2. CASE i = k + 1
    BY <1>2, <1>3, <2>2
  <2> QED BY <1>6, <2>1, <2>2
<1>9. \E i \in 0..(k + 1) : E[i] = pk
  <2>1. CASE pk = d.peak
    <3>1. PICK i \in 0..k : E[i] = d.peak
      BY DEF Tracks
    <3> QED BY <1>7, <2>1, <3>1
  <2>2. CASE pk = eq
    BY <1>2, <1>7, <2>2
  <2> QED BY <1>3, <2>1, <2>2
<1>10. ASSUME NEW i \in 0..(k + 1), NEW j \in 0..(k + 1), i <= j
       PROVE  E[i] - E[j] <= fl
  <2>1. CASE j \in 0..k
    <3>1. i \in 0..k
      BY <1>10, <2>1
    <3>2. E[i] - E[j] <= d.fall
      BY <1>10, <2>1, <3>1 DEF Tracks
    <3>3. E[i] \in Int /\ E[j] \in Int
      BY <1>6
    <3>4. PICK fall : fall = d.fall
      OBVIOUS
    <3>5. fall \in Int /\ fl \in Int /\ fl >= fall
      BY <1>1, <1>4, <3>4
    <3>6. PICK a, b : a = E[i] /\ b = E[j]
      OBVIOUS
    <3>7. a \in Int /\ b \in Int /\ a - b <= fall
      BY <3>2, <3>3, <3>4, <3>6
    <3>8. a - b <= fl
      BY <3>5, <3>7
    <3> QED BY <3>6, <3>8
  <2>2. CASE j = k + 1
    <3>1. E[i] <= pk /\ E[j] = eq
      BY <1>2, <1>8, <2>2
    <3>2. E[i] \in Int /\ eq \in Int /\ pk \in Int /\ fl \in Int /\ fl >= pk - eq
      BY <1>2, <1>3, <1>4, <1>6
    <3>3. E[i] - eq <= fl
      BY <3>1, <3>2
    <3> QED BY <3>1, <3>3
  <2> QED BY <1>6, <2>1, <2>2
<1>11. \E i, j \in 0..(k + 1) : i <= j /\ E[i] - E[j] = fl
  <2>1. CASE fl = d.fall
    <3>1. PICK i \in 0..k, j \in 0..k : i <= j /\ E[i] - E[j] = d.fall
      BY DEF Tracks
    <3> QED BY <1>7, <2>1, <3>1
  <2>2. CASE fl = pk - eq
    <3>1. PICK i \in 0..(k + 1) : E[i] = pk
      BY <1>9
    <3>2. i <= k + 1
      OBVIOUS
    <3> QED BY <1>2, <1>7, <2>2, <3>1, <3>2
  <2> QED BY <1>4, <2>1, <2>2
<1>12. [equity |-> eq, peak |-> pk, fall |-> fl] \in Falls
  BY <1>2, <1>3, <1>4 DEF Falls
<1> DEFINE f == [equity |-> eq, peak |-> pk, fall |-> fl]
<1>13. f \in Falls /\ f.equity = E[k + 1] /\ f.peak = pk /\ f.fall = fl
  BY <1>2, <1>12
<1> HIDE DEF f
<1>14. Tracks(f, E, k + 1)
  BY <1>8, <1>9, <1>10, <1>11, <1>13 DEF Tracks
<1> QED BY <1>5, <1>14 DEF f

(* The drawdown of a list of results is the largest fall of their sum from *)
(* an earlier to a later place.                                            *)
LEMMA DrawdownIsWorst ==
    ASSUME NEW n \in Nat, NEW v, DOMAIN v = 1..n, \A k \in 1..n : v[k] \in Int,
           NEW E, E = [k \in 0..n |-> Total(v, 1..k)]
    PROVE  /\ E \in [0..n -> Int] /\ MaxDrawdown(v) \in Int
           /\ \A i, j \in 0..n : i <= j => E[i] - E[j] <= MaxDrawdown(v)
           /\ \E i, j \in 0..n : i <= j /\ E[i] - E[j] = MaxDrawdown(v)
<1> DEFINE none == [equity |-> 0, peak |-> 0, fall |-> 0]
           Of(it) == [s \in SUBSET (1..n) |->
                        IF s = {} THEN none ELSE Fallen(it[s \ {Max(s)}], v[Max(s)])]
           iter == CHOOSE it : it = Of(it)
<1>1. MaxDrawdown(v) = iter[1..n].fall
  <2>1. MaxDrawdown(v) = (CHOOSE it : it = [s \in SUBSET DOMAIN v |->
            IF s = {} THEN none ELSE Fallen(it[s \ {Max(s)}], v[Max(s)])])[DOMAIN v].fall
    BY DEF MaxDrawdown, Fallen, FoldLeft, MapThenFoldSet
  <2> QED BY <2>1
<1>2. IntsOn(v, 1..n)
  BY FS_Interval DEF IntsOn
<1>3. \E it : it = Of(it)
  <2> DEFINE ch == [s \in SUBSET (1..n) |-> Max(s)]
             G == [sv \in (SUBSET (1..n)) \X Falls |->
                     IF sv[1] = {} THEN none ELSE Fallen(sv[2], v[ch[sv[1]]])]
  <2>1. none \in Falls
    BY DEF Falls
  <2>2. \A s \in SUBSET (1..n) : s # {} => ch[s] \in s /\ ch[s] = Max(s)
    BY LastOf
  <2> HIDE DEF ch, none
  <2>3. ASSUME NEW d \in Falls, NEW x \in Int PROVE Fallen(d, x) \in Falls
    <3>1. d.equity \in Int /\ d.peak \in Int /\ d.fall \in Int
      BY DEF Falls
    <3> DEFINE eq == d.equity + x
               pk == MaxOf({d.peak, eq})
    <3>2. eq \in Int
      BY <3>1
    <3> HIDE DEF eq
    <3>3. pk \in Int
      BY <3>1, <3>2, LargerOf
    <3> HIDE DEF pk
    <3>4. pk - eq \in Int
      BY <3>2, <3>3
    <3>5. MaxOf({d.fall, pk - eq}) \in Int
      BY <3>1, <3>4, LargerOf
    <3> QED BY <3>2, <3>3, <3>5 DEF Falls, Fallen, eq, pk
  <2>4. G \in [(SUBSET (1..n)) \X Falls -> Falls]
    <3>1. \A sv \in (SUBSET (1..n)) \X Falls : sv[1] # {} => v[ch[sv[1]]] \in Int
      BY <2>2
    <3> QED BY <2>1, <2>3, <3>1
  <2>5. \A s \in SUBSET (1..n), d \in Falls : s # {} => G[<<s, d>>] = Fallen(d, v[Max(s)])
    BY <2>2
  <2> HIDE DEF G
  <2>6. Picks(ch, 1..n) /\ IsFiniteSet(1..n)
    <3>1. IsFiniteSet(1..n)
      BY FS_Interval
    <3> QED BY <2>2, <3>1 DEF Picks
  <2>7. PICK f : FoldsUp(f, none, ch, G, 1..n, Falls)
    BY <2>1, <2>4, <2>6, FoldExists
  <2>8. f \in [SUBSET (1..n) -> Falls]
    BY <2>7 DEF FoldsUp
  <2>9. \A s \in SUBSET (1..n) :
          f[s] = IF s = {} THEN none ELSE Fallen(f[s \ {Max(s)}], v[Max(s)])
    <3> TAKE s \in SUBSET (1..n)
    <3>1. CASE s = {}
      BY <2>7, <3>1 DEF FoldsUp
    <3>2. CASE s # {}
      <4>1. f[s] = G[<<s, f[s \ {Max(s)}]>>]
        BY <2>2, <2>7, <3>2 DEF FoldsUp
      <4>2. f[s \ {Max(s)}] \in Falls
        BY <2>8
      <4> QED BY <2>5, <3>2, <4>1, <4>2
    <3> QED BY <3>1, <3>2
  <2>10. f = Of(f)
    BY <2>8, <2>9
  <2> QED BY <2>10
<1>4. iter = Of(iter)
  <2> HIDE DEF Of
  <2> QED BY <1>3
<1>5. \A s \in SUBSET (1..n) :
        iter[s] = IF s = {} THEN none ELSE Fallen(iter[s \ {Max(s)}], v[Max(s)])
  <2> HIDE DEF iter
  <2> QED BY <1>4
<1> HIDE DEF iter, Of
<1>6. E \in [0..n -> Int] /\ E[0] = 0
  <2>1. \A k \in 0..n : 1..k \in SUBSET (1..n)
    OBVIOUS
  <2>2. \A k \in 0..n : Total(v, 1..k) \in Int
    BY <1>2, <2>1, TotalAdds
  <2>3. Total(v, {}) = 0 /\ 1..0 = {}
    BY <1>2, TotalAdds
  <2> QED BY <2>2, <2>3
<1>7. \A k \in Nat : k + 1 <= n =>
        /\ iter[1..(k + 1)] = Fallen(iter[1..k], v[k + 1])
        /\ E[k + 1] = E[k] + v[k + 1] /\ v[k + 1] \in Int
  <2> SUFFICES ASSUME NEW k \in Nat, k + 1 <= n
               PROVE  /\ iter[1..(k + 1)] = Fallen(iter[1..k], v[k + 1])
                      /\ E[k + 1] = E[k] + v[k + 1] /\ v[k + 1] \in Int
    OBVIOUS
  <2> DEFINE s == 1..(k + 1)
  <2>1. s \in SUBSET (1..n) /\ k + 1 \in s /\ \A y \in s : k + 1 >= y
    OBVIOUS
  <2>2. s \ {k + 1} = 1..k
    OBVIOUS
  <2>3. s \in SUBSET Int
    OBVIOUS
  <2>4. k \in 0..n /\ k + 1 \in 0..n /\ k + 1 \in 1..n
    OBVIOUS
  <2>5. E[k + 1] = Total(v, s) /\ E[k] = Total(v, 1..k)
    BY <2>4
  <2> HIDE DEF s
  <2>6. Max(s) = k + 1
    BY <2>1, <2>3, MaxIs DEF Max, MaxOf
  <2>7. iter[s] = Fallen(iter[1..k], v[k + 1])
    BY <1>5, <2>1, <2>2, <2>6
  <2>8. Without(k + 1, v, s)
    BY <1>2, <2>1, TotalAdds
  <2>9. E[k + 1] = v[k + 1] + E[k] /\ E[k] \in Int /\ v[k + 1] \in Int
    BY <2>2, <2>5, <2>8 DEF Without
  <2>10. E[k + 1] = E[k] + v[k + 1]
    BY <2>9
  <2> QED BY <2>7, <2>9, <2>10 DEF s
<1> DEFINE upto == {k \in Nat : k <= n => Tracks(iter[1..k], E, k)}
<1>8. 0 \in upto
  <2>1. 1..0 = {} /\ {} \in SUBSET (1..n)
    OBVIOUS
  <2>2. iter[1..0] = none
    BY <1>5, <2>1
  <2>3. Tracks(none, E, 0)
    <3>1. 0..0 = {0}
      OBVIOUS
    <3>2. none \in Falls
      BY DEF Falls
    <3> QED BY <1>6, <3>1, <3>2 DEF Tracks
  <2> QED BY <2>2, <2>3
<1>9. ASSUME NEW k \in upto PROVE k + 1 \in upto
  <2> SUFFICES ASSUME k + 1 <= n PROVE Tracks(iter[1..(k + 1)], E, k + 1)
    OBVIOUS
  <2>1. Tracks(iter[1..k], E, k)
    OBVIOUS
  <2>2. Tracks(Fallen(iter[1..k], v[k + 1]), E, k + 1)
    <3> HIDE DEF none
    <3> QED BY <1>6, <1>7, <2>1, FallStep
  <2> QED BY <1>7, <2>2
<1>10. upto = Nat
  <2>1. upto \in SUBSET Nat
    OBVIOUS
  <2> HIDE DEF upto
  <2> QED BY <1>8, <1>9, <2>1, CountingUp
<1>11. Tracks(iter[1..n], E, n)
  <2>1. n \in upto
    <3> HIDE DEF upto
    <3> QED BY <1>10
  <2>2. n <= n
    OBVIOUS
  <2> QED BY <2>1, <2>2
<1> QED BY <1>1, <1>6, <1>11 DEF Tracks, Falls

(* Results in the order of their times: at a moment the results so far are *)
(* the first ones of the list.                                             *)
Sorts(order, n, C, at) ==
    /\ n \in Nat /\ order \in [1..n -> C] /\ at \in [C -> Nat]
    /\ \A x \in C : \E k \in 1..n : order[k] = x
    /\ \A j, k \in 1..n : order[j] = order[k] => j = k
    /\ \A j, k \in 1..n : j < k => at[order[j]] <= at[order[k]]

Firsts(order, k) == {order[j] : j \in 1..k}

By(C, at, x) == {c \in C : at[c] <= x}

(* What is sorted is finite, and all of it is in the list.                 *)
LEMMA SortedIsFinite ==
    ASSUME NEW n, NEW order, NEW C, NEW at, Sorts(order, n, C, at)
    PROVE  IsFiniteSet(C) /\ Firsts(order, n) = C /\ \A k \in 0..n : Firsts(order, k) \in SUBSET C
<1>1. n \in Nat /\ order \in [1..n -> C] /\ \A x \in C : \E k \in 1..n : order[k] = x
  BY DEF Sorts
<1>2. IsFiniteSet(1..n)
  BY <1>1, FS_Interval
<1>3. order \in Surjection(1..n, C)
  BY <1>1 DEF Surjection
<1>4. IsFiniteSet(C)
  BY <1>2, <1>3, FS_Surjection
<1>5. \A k \in 0..n : 1..k \subseteq 1..n
  BY <1>1
<1> QED BY <1>1, <1>4, <1>5 DEF Firsts

Lists(v, net, order, n) == DOMAIN v = 1..n /\ \A k \in 1..n : v[k] = net[order[k]]

(* The first values of the list add up to the total of the first results.  *)
LEMMA TotalOfFirsts ==
    ASSUME NEW n, NEW order, NEW C, NEW at, Sorts(order, n, C, at),
           NEW net, IntsOn(net, C), NEW v, Lists(v, net, order, n)
    PROVE  /\ IntsOn(v, 1..n)
           /\ \A k \in 0..n : Total(v, 1..k) = Total(net, Firsts(order, k))
<1> DEFINE w == [s \in SUBSET (1..n) |-> Total(net, {order[j] : j \in s})]
<1>1. /\ n \in Nat /\ order \in [1..n -> C]
      /\ \A j, k \in 1..n : order[j] = order[k] => j = k
  BY DEF Sorts
<1>2. IntsOn(net, C) /\ \A k \in 1..n : v[k] = net[order[k]]
  BY DEF Lists
<1>3. IntsOn(v, 1..n)
  <2>1. IsFiniteSet(1..n)
    BY <1>1, FS_Interval
  <2> QED BY <1>1, <1>2, <2>1 DEF IntsOn
<1>4. SumsUp(w, v, 1..n)
  <2>1. w[{}] = 0
    <3>1. {order[j] : j \in {}} = {}
      OBVIOUS
    <3> QED BY <1>2, <3>1, TotalAdds
  <2>2. ASSUME NEW s \in SUBSET (1..n), NEW k \in s PROVE w[s] = v[k] + w[s \ {k}]
    <3> DEFINE S == {order[j] : j \in s}
    <3>1. S \in SUBSET C /\ order[k] \in S /\ v[k] = net[order[k]]
      BY <1>1, <1>2
    <3>2. {order[j] : j \in s \ {k}} = S \ {order[k]}
      BY <1>1
    <3>3. w[s] = Total(net, S) /\ w[s \ {k}] = Total(net, S \ {order[k]})
      BY <3>2
    <3> HIDE DEF S, w
    <3>4. Without(order[k], net, S)
      BY <1>2, <3>1, TotalAdds
    <3> QED BY <3>1, <3>3, <3>4 DEF Without
  <2> HIDE DEF w
  <2> QED BY <2>1, <2>2 DEF SumsUp
<1>5. \A s \in SUBSET (1..n) : w[s] = Total(v, s)
  <2> HIDE DEF w
  <2>1. PICK D : D = 1..n
    OBVIOUS
  <2>2. IntsOn(v, D) /\ SumsUp(w, v, D)
    BY <1>3, <1>4, <2>1
  <2>3. \A s \in SUBSET D : w[s] = Total(v, s)
    BY <2>2, TotalOnce
  <2> QED BY <2>1, <2>3
<1>6. \A k \in 0..n : 1..k \in SUBSET (1..n)
  BY <1>1
<1>7. \A k \in 0..n : Total(v, 1..k) = Total(net, Firsts(order, k))
  BY <1>5, <1>6 DEF Firsts
<1> QED BY <1>3, <1>7

(* What came in by a time, and by a later one, are first results.          *)
LEMMA FirstsByTime ==
    ASSUME NEW n, NEW order, NEW C, NEW at, Sorts(order, n, C, at),
           NEW a \in Nat, NEW b \in Nat, a <= b
    PROVE  \E i, j \in 0..n : /\ i <= j
                              /\ By(C, at, a) = Firsts(order, i)
                              /\ By(C, at, b) = Firsts(order, j)
<1> DEFINE K(x) == {k \in 1..n : at[order[k]] <= x}
           L(x) == MaxOf(K(x) \cup {0})
<1>1. /\ n \in Nat /\ order \in [1..n -> C] /\ at \in [C -> Nat]
      /\ \A c \in C : \E k \in 1..n : order[k] = c
      /\ \A j, k \in 1..n : j < k => at[order[j]] <= at[order[k]]
  BY DEF Sorts
<1>2. \A k \in 1..n : at[order[k]] \in Nat
  BY <1>1
<1>3. ASSUME NEW x \in Nat
      PROVE  /\ L(x) \in K(x) \cup {0} /\ L(x) \in 0..n /\ \A y \in K(x) : L(x) >= y
             /\ By(C, at, x) = Firsts(order, L(x))
  <2>1. IsFiniteSet(K(x) \cup {0})
    <3>1. IsFiniteSet(1..n)
      BY <1>1, FS_Interval
    <3>2. K(x) \in SUBSET (1..n)
      OBVIOUS
    <3> HIDE DEF K
    <3> QED BY <3>1, <3>2, FS_Subset, FS_AddElement
  <2>2. K(x) \cup {0} \in SUBSET Int /\ K(x) \cup {0} # {} /\ K(x) \subseteq 1..n
    OBVIOUS
  <2>3. L(x) \in K(x) \cup {0} /\ \A y \in K(x) \cup {0} : L(x) >= y
    <3> HIDE DEF K
    <3> QED BY <2>1, <2>2, HasMax
  <2>4. L(x) \in 0..n
    <3> HIDE DEF L
    <3> QED BY <1>1, <2>3
  <2>5. K(x) = 1..L(x)
    <3>1. ASSUME NEW k \in K(x) PROVE k \in 1..L(x)
      <4>1. L(x) >= k /\ k \in 1..n
        BY <2>3
      <4> HIDE DEF L, K
      <4> QED BY <1>1, <2>4, <4>1
    <3>2. ASSUME NEW k \in 1..L(x) PROVE k \in K(x)
      <4> DEFINE l == L(x)
      <4>1. l \in K(x) /\ k <= l /\ k \in 1..n
        <5> HIDE DEF L, K
        <5> QED BY <1>1, <2>3, <2>4
      <4> HIDE DEF L, l
      <4>2. at[order[l]] <= x /\ l \in 1..n
        BY <4>1
      <4>3. k = l \/ at[order[k]] <= at[order[l]]
        BY <1>1, <4>1, <4>2
      <4> QED BY <1>2, <4>1, <4>2, <4>3
    <3> HIDE DEF L, K
    <3> QED BY <3>1, <3>2
  <2>6. By(C, at, x) = {order[k] : k \in K(x)}
    BY <1>1 DEF By
  <2> HIDE DEF L, K
  <2> QED BY <2>3, <2>4, <2>5, <2>6 DEF Firsts
<1>4. K(a) \subseteq K(b)
  BY <1>2
<1>5. L(a) <= L(b)
  <2>1. L(b) \in Nat /\ L(a) \in K(a) \cup {0} /\ \A y \in K(b) : L(b) >= y
    <3> HIDE DEF L, K
    <3> QED BY <1>1, <1>3
  <2> HIDE DEF L
  <2>2. L(a) = 0 \/ L(b) >= L(a)
    <3> HIDE DEF K
    <3> QED BY <1>4, <2>1
  <2>3. L(a) \in Nat
    <3>1. L(a) \in 0..n
      <4> HIDE DEF K
      <4> QED BY <1>3
    <3> QED BY <1>1, <3>1
  <2> QED BY <2>1, <2>2, <2>3
<1> HIDE DEF L, K
<1> QED BY <1>3, <1>5

(* What is summed up of such results, against the sums at the moments they *)
(* came in.                                                                *)
SoFar(net, C, at, x) == Total(net, By(C, at, x))
Moments(C, at) == {at[c] : c \in C} \cup {0}
FallsBetween(net, C, at) ==
    {SoFar(net, C, at, x[1]) - SoFar(net, C, at, x[2]) :
        x \in {y \in Moments(C, at) \X Moments(C, at) : y[1] <= y[2]}}

(* The moments are finitely many.                                          *)
LEMMA MomentsAreFinite ==
    ASSUME NEW C, IsFiniteSet(C), NEW at \in [C -> Nat]
    PROVE  /\ IsFiniteSet(Moments(C, at)) /\ Moments(C, at) \in SUBSET Nat
           /\ 0 \in Moments(C, at)
<1>1. at \in Surjection(C, {at[c] : c \in C})
  BY DEF Surjection
<1>2. IsFiniteSet({at[c] : c \in C})
  BY <1>1, FS_Surjection
<1>3. IsFiniteSet(Moments(C, at))
  BY <1>2, FS_AddElement DEF Moments
<1> QED BY <1>3 DEF Moments

(* So are the falls between them.                                          *)
LEMMA FallsAreFinite ==
    ASSUME NEW C, IsFiniteSet(C), NEW at \in [C -> Nat],
           NEW net, \A c \in C : net[c] \in Int
    PROVE  LET T == FallsBetween(net, C, at)
           IN  /\ IsFiniteSet(T) /\ T \in SUBSET Int /\ T # {}
               /\ \A x, y \in Moments(C, at) : x <= y =>
                     SoFar(net, C, at, x) - SoFar(net, C, at, y) \in T
<1> DEFINE M == Moments(C, at)
           S == {y \in M \X M : y[1] <= y[2]}
           r == [x \in S |-> SoFar(net, C, at, x[1]) - SoFar(net, C, at, x[2])]
           T == FallsBetween(net, C, at)
<1>1. IsFiniteSet(M) /\ M \in SUBSET Nat /\ 0 \in M
  BY MomentsAreFinite
<1>2. T = {SoFar(net, C, at, x[1]) - SoFar(net, C, at, x[2]) : x \in S}
  BY DEF FallsBetween
<1> HIDE DEF M, T
<1>3. IsFiniteSet(S)
  <2>1. S \in SUBSET (M \X M)
    OBVIOUS
  <2> HIDE DEF S
  <2> QED BY <1>1, <2>1, FS_Product, FS_Subset
<1>4. IsFiniteSet(T)
  <2>1. r \in Surjection(S, T)
    BY <1>2 DEF Surjection
  <2> HIDE DEF r, S
  <2> QED BY <1>3, <2>1, FS_Surjection
<1>5. \A x : SoFar(net, C, at, x) \in Int
  <2> TAKE x
  <2>1. By(C, at, x) \in SUBSET C /\ IntsOn(net, C)
    BY DEF By, IntsOn
  <2> QED BY <2>1, TotalAdds DEF SoFar
<1>6. \A x, y \in M : x <= y => SoFar(net, C, at, x) - SoFar(net, C, at, y) \in T
  <2> SUFFICES ASSUME NEW x \in M, NEW y \in M, x <= y
               PROVE  SoFar(net, C, at, x) - SoFar(net, C, at, y) \in T
    OBVIOUS
  <2>1. <<x, y>> \in S
    OBVIOUS
  <2> QED BY <1>2, <2>1
<1>7. T \in SUBSET Int
  BY <1>2, <1>5
<1>8. T # {}
  BY <1>1, <1>6
<1> QED BY <1>4, <1>6, <1>7, <1>8 DEF M, T

(* When no two results share a moment, and none has moment 0, the first k  *)
(* results are those of the moment of the kth.                             *)
LEMMA FirstsApart ==
    ASSUME NEW n, NEW order, NEW C, NEW at, Sorts(order, n, C, at),
           Cardinality(Moments(C, at)) = Cardinality(C) + 1
    PROVE  \A i, j \in 0..n : i <= j =>
              \E a, b \in Moments(C, at) : /\ a <= b
                                           /\ By(C, at, a) = Firsts(order, i)
                                           /\ By(C, at, b) = Firsts(order, j)
<1> DEFINE g == [k \in 0..n |-> IF k = 0 THEN 0 ELSE at[order[k]]]
           M == Moments(C, at)
<1>1. /\ n \in Nat /\ order \in [1..n -> C] /\ at \in [C -> Nat]
      /\ \A c \in C : \E k \in 1..n : order[k] = c
      /\ \A j, k \in 1..n : order[j] = order[k] => j = k
      /\ \A j, k \in 1..n : j < k => at[order[j]] <= at[order[k]]
  BY DEF Sorts
<1>2. Cardinality(C) = n
  <2>1. IsFiniteSet(1..n) /\ Cardinality(1..n) = n
    <3>1. 1 \in Int /\ n \in Int
      BY <1>1
    <3>2. /\ IsFiniteSet(1..n)
          /\ Cardinality(1..n) = IF 1 > n THEN 0 ELSE n - 1 + 1
      BY <3>1, FS_Interval
    <3> QED BY <1>1, <3>2
  <2>2. order \in Surjection(1..n, C) /\ order \in Injection(1..n, C)
    BY <1>1 DEF Surjection, Injection, IsInjective
  <2>3. Cardinality(C) = Cardinality(1..n)
    BY <2>1, <2>2, FS_Surjection
  <2> QED BY <2>1, <2>3
<1>3. g \in [0..n -> M] /\ g[0] = 0 /\ \A k \in 1..n : g[k] = at[order[k]]
  BY <1>1 DEF Moments
<1>4. g \in Surjection(0..n, M)
  <2>1. ASSUME NEW x \in M PROVE \E k \in 0..n : g[k] = x
    <3>1. CASE x = 0
      BY <1>1, <1>3, <3>1
    <3>2. CASE x # 0
      <4>1. PICK c \in C : x = at[c]
        BY <3>2 DEF Moments
      <4>2. PICK k \in 1..n : order[k] = c
        BY <1>1
      <4>3. k \in 0..n
        BY <1>1
      <4> HIDE DEF g
      <4> QED BY <1>3, <4>1, <4>2, <4>3
    <3> QED BY <3>1, <3>2
  <2> HIDE DEF g
  <2> QED BY <1>3, <2>1 DEF Surjection
<1> HIDE DEF g
<1>5. IsFiniteSet(0..n) /\ Cardinality(0..n) = n + 1
  <2>1. 0 \in Int /\ n \in Int
    BY <1>1
  <2>2. /\ IsFiniteSet(0..n)
        /\ Cardinality(0..n) = IF 0 > n THEN 0 ELSE n - 0 + 1
    BY <2>1, FS_Interval
  <2> QED BY <1>1, <2>2
<1>6. \A j, k \in 0..n : g[j] = g[k] => j = k
  <2>1. Cardinality(M) = Cardinality(0..n)
    BY <1>2, <1>5
  <2>2. g \in Injection(0..n, M)
    BY <1>4, <1>5, <2>1, FS_Surjection
  <2> QED BY <2>2 DEF Injection, IsInjective
<1>7. M \in SUBSET Nat
  BY <1>1 DEF Moments
<1> HIDE DEF M
<1>8. \A j, k \in 0..n : j < k => g[j] < g[k]
  <2> SUFFICES ASSUME NEW j \in 0..n, NEW k \in 0..n, j < k PROVE g[j] < g[k]
    OBVIOUS
  <2>1. g[j] \in Nat /\ g[k] \in Nat /\ g[j] # g[k]
    <3>1. j # k
      BY <1>1
    <3> QED BY <1>3, <1>6, <1>7, <3>1
  <2>2. g[j] <= g[k]
    <3>1. CASE j = 0
      BY <1>3, <2>1, <3>1
    <3>2. CASE j # 0
      <4>1. j \in 1..n /\ k \in 1..n
        BY <1>1, <3>2
      <4> QED BY <1>1, <1>3, <4>1
    <3> QED BY <3>1, <3>2
  <2> QED BY <2>1, <2>2
<1>9. ASSUME NEW k \in 0..n PROVE By(C, at, g[k]) = Firsts(order, k)
  <2>1. g[k] \in Nat
    BY <1>3, <1>7
  <2>2. ASSUME NEW c \in C, at[c] <= g[k] PROVE c \in Firsts(order, k)
    <3>1. PICK j \in 1..n : order[j] = c
      BY <1>1
    <3>2. j \in 0..n /\ g[j] = at[c] /\ g[j] \in Nat
      BY <1>1, <1>3, <1>7, <3>1
    <3>3. ~(k < j)
      BY <1>8, <2>1, <2>2, <3>2
    <3>4. j \in 1..k
      BY <1>1, <3>3
    <3> QED BY <3>1, <3>4 DEF Firsts
  <2>3. ASSUME NEW c \in Firsts(order, k) PROVE c \in C /\ at[c] <= g[k]
    <3>1. PICK j \in 1..k : c = order[j]
      BY DEF Firsts
    <3>2. j \in 1..n /\ j \in 0..n /\ (j = k \/ j < k)
      BY <1>1
    <3>3. g[j] = at[c] /\ c \in C /\ g[j] \in Nat
      BY <1>1, <1>3, <1>7, <3>1, <3>2
    <3> QED BY <1>8, <2>1, <3>2, <3>3
  <2> QED BY <2>2, <2>3 DEF By
<1> SUFFICES ASSUME NEW i \in 0..n, NEW j \in 0..n, i <= j
             PROVE  \E a, b \in M : /\ a <= b
                                    /\ By(C, at, a) = Firsts(order, i)
                                    /\ By(C, at, b) = Firsts(order, j)
  BY DEF M
<1>10. g[i] \in M /\ g[j] \in M /\ g[i] \in Nat /\ g[j] \in Nat
  BY <1>3, <1>7
<1>11. g[i] <= g[j]
  <2>1. i = j \/ i < j
    BY <1>1
  <2>2. CASE i = j
    BY <1>10, <2>2
  <2>3. CASE i < j
    BY <1>8, <1>10, <2>3
  <2> QED BY <2>1, <2>2, <2>3
<1> QED BY <1>9, <1>10, <1>11

(* The sum and the drawdown of the list, told by the moments.              *)
LEMMA SummedUp ==
    ASSUME NEW n, NEW order, NEW C, NEW at, Sorts(order, n, C, at),
           NEW net, IntsOn(net, C), NEW v, Lists(v, net, order, n),
           NEW top, \A c \in C : at[c] <= top
    PROVE  LET worst == MaxOf(FallsBetween(net, C, at))
           IN  /\ SumFunction(v) = SoFar(net, C, at, top)
               /\ MaxDrawdown(v) >= worst
               /\ Cardinality(Moments(C, at)) = Cardinality(C) + 1 => MaxDrawdown(v) = worst
<1> DEFINE E == [k \in 0..n |-> Total(v, 1..k)]
           T == FallsBetween(net, C, at)
           M == Moments(C, at)
           sum(x) == SoFar(net, C, at, x)
<1>1. n \in Nat /\ at \in [C -> Nat] /\ IsFiniteSet(C) /\ Firsts(order, n) = C
  BY SortedIsFinite DEF Sorts
<1>2. /\ IntsOn(v, 1..n)
      /\ \A k \in 0..n : Total(v, 1..k) = Total(net, Firsts(order, k))
  BY TotalOfFirsts
<1>3. \A k \in 0..n : E[k] = Total(net, Firsts(order, k))
  BY <1>2
<1>4. SumFunction(v) = sum(top)
  <2>1. SumFunction(v) = Total(v, 1..n)
    BY <1>2, SumIsTotal DEF Lists
  <2>2. By(C, at, top) = C
    BY DEF By
  <2>3. n \in 0..n
    BY <1>1
  <2> QED BY <1>1, <1>2, <2>1, <2>2, <2>3 DEF SoFar
<1>5. /\ E \in [0..n -> Int] /\ MaxDrawdown(v) \in Int
      /\ \A i, j \in 0..n : i <= j => E[i] - E[j] <= MaxDrawdown(v)
      /\ \E i, j \in 0..n : i <= j /\ E[i] - E[j] = MaxDrawdown(v)
  <2>1. DOMAIN v = 1..n /\ \A k \in 1..n : v[k] \in Int
    BY <1>2 DEF IntsOn, Lists
  <2> QED BY <1>1, <2>1, DrawdownIsWorst
<1> HIDE DEF E
<1>6. /\ IsFiniteSet(T) /\ T \in SUBSET Int /\ T # {}
      /\ \A x, y \in M : x <= y => sum(x) - sum(y) \in T
  BY <1>1, FallsAreFinite DEF IntsOn
<1>7. MaxOf(T) \in T /\ \A y \in T : MaxOf(T) >= y
  <2> HIDE DEF T
  <2> QED BY <1>6, HasMax
<1>8. MaxDrawdown(v) >= MaxOf(T)
  <2>1. PICK x \in {y \in M \X M : y[1] <= y[2]} : MaxOf(T) = sum(x[1]) - sum(x[2])
    BY <1>7 DEF FallsBetween
  <2>2. x[1] \in Nat /\ x[2] \in Nat /\ x[1] <= x[2]
    <3>1. M \in SUBSET Nat
      BY <1>1, MomentsAreFinite
    <3> HIDE DEF M
    <3> QED BY <3>1
  <2>3. PICK i \in 0..n, j \in 0..n : /\ i <= j
                              /\ By(C, at, x[1]) = Firsts(order, i)
                              /\ By(C, at, x[2]) = Firsts(order, j)
    <3>1. PICK a \in Nat, b \in Nat : a = x[1] /\ b = x[2] /\ a <= b
      BY <2>2
    <3>2. \E i, j \in 0..n : /\ i <= j
                              /\ By(C, at, a) = Firsts(order, i)
                              /\ By(C, at, b) = Firsts(order, j)
      BY <3>1, FirstsByTime
    <3> QED BY <3>1, <3>2
  <2>4. sum(x[1]) = E[i] /\ sum(x[2]) = E[j]
    BY <1>3, <2>3 DEF SoFar
  <2>5. MaxOf(T) <= MaxDrawdown(v) /\ MaxOf(T) \in Int
    <3> HIDE DEF T
    <3> QED BY <1>5, <1>6, <1>7, <2>1, <2>3, <2>4
  <2> HIDE DEF T
  <2> QED BY <1>5, <2>5
<1>9. ASSUME Cardinality(M) = Cardinality(C) + 1 PROVE MaxDrawdown(v) = MaxOf(T)
  <2>1. PICK i \in 0..n, j \in 0..n : i <= j /\ E[i] - E[j] = MaxDrawdown(v)
    BY <1>5
  <2>2. PICK a \in M, b \in M : /\ a <= b
                                /\ By(C, at, a) = Firsts(order, i)
                                /\ By(C, at, b) = Firsts(order, j)
    BY <1>9, <2>1, FirstsApart
  <2>3. sum(a) = E[i] /\ sum(b) = E[j]
    BY <1>3, <2>2 DEF SoFar
  <2>4. MaxDrawdown(v) \in T
    <3> HIDE DEF T
    <3> QED BY <1>6, <2>1, <2>2, <2>3
  <2> HIDE DEF T
  <2>5. MaxOf(T) \in Int /\ MaxOf(T) >= MaxDrawdown(v)
    BY <1>6, <1>7, <2>4
  <2> QED BY <1>5, <1>8, <2>5
<1> QED BY <1>4, <1>8, <1>9

-----------------------------------------------------------------------------
(* The money of one trade.                                                 *)

(* The minutes that funding falls due in are as many as are charged.       *)
DueMinutes(from, to) == {m \in from..to : m % Interval = 0}

(* The snapshots between two minutes are the due ones among them.          *)
LEMMA SnapshotsCount ==
    ASSUME NEW from \in Nat, NEW to \in Nat
    PROVE  /\ IsFiniteSet(DueMinutes(from, to))
           /\ Cardinality(DueMinutes(from, to)) = Snapshots(from, to)
           /\ Snapshots(from, to) \in Nat
<1> DEFINE I == Interval
           c == IF from % I = 0 THEN from \div I ELSE from \div I + 1
           d == to \div I
           M == DueMinutes(from, to)
           f == [k \in c..d |-> k * I]
<1>1. I \in Nat /\ I > 0
  BY BacktestAssumption
<1> HIDE DEF I
<1>2. /\ from \div I \in Nat /\ d \in Nat /\ c \in Nat
      /\ I * (from \div I) <= from /\ from < I * (from \div I) + I
      /\ from % I = 0 <=> from = I * (from \div I)
      /\ I * d <= to /\ to < I * d + I
  <2>1. from \div I \in Nat /\ d \in Nat
    BY <1>1
  <2>2. I * (from \div I) <= from /\ from < I * (from \div I) + I
    BY <1>1
  <2>3. I * (to \div I) <= to /\ to < I * (to \div I) + I
    BY <1>1
  <2>4. from % I = 0 <=> from = I * (from \div I)
    BY <1>1
  <2>5. c \in Nat
    BY <2>1
  <2> QED BY <2>1, <2>2, <2>3, <2>4, <2>5
<1>3. Snapshots(from, to) = IF c * I > d * I THEN 0 ELSE (d * I - c * I) \div I + 1
  <2>1. (IF from % I = 0 THEN from ELSE (from \div I + 1) * I) = c * I
    BY <1>1, <1>2
  <2> QED BY <2>1 DEF Snapshots, I
<1> HIDE DEF c, d
<1>4. c * I > d * I <=> c > d
  BY <1>1, <1>2
<1>5. ASSUME c <= d PROVE (d * I - c * I) \div I = d - c
  <2>1. d * I - c * I = (d - c) * I /\ d - c \in Nat
    BY <1>1, <1>2, <1>5
  <2>2. ((d - c) * I) \div I = d - c
    BY <1>1, <2>1
  <2> QED BY <2>1, <2>2
<1>6. Snapshots(from, to) = IF c > d THEN 0 ELSE d - c + 1
  BY <1>1, <1>2, <1>3, <1>4, <1>5
<1>7. IsFiniteSet(c..d) /\ Cardinality(c..d) = Snapshots(from, to)
  <2>1. c \in Int /\ d \in Int
    BY <1>2
  <2>2. /\ IsFiniteSet(c..d)
        /\ Cardinality(c..d) = IF c > d THEN 0 ELSE d - c + 1
    BY <2>1, FS_Interval
  <2> QED BY <1>6, <2>2
<1>8. ASSUME NEW k \in c..d PROVE k * I \in M
  <2>1. k \in Nat /\ c <= k /\ k <= d
    BY <1>2
  <2>2. from <= c * I
    BY <1>1, <1>2 DEF c
  <2>3. c * I <= k * I /\ k * I <= d * I
    BY <1>1, <1>2, <2>1
  <2>4. d * I <= to
    <3>1. d * I = I * d /\ I * d \in Nat
      BY <1>1, <1>2
    <3> QED BY <1>2, <3>1
  <2>5. (k * I) % I = 0 /\ k * I \in Nat
    BY <1>1, <2>1
  <2>6. c * I \in Nat /\ d * I \in Nat
    BY <1>1, <1>2
  <2>7. k * I \in from..to
    BY <2>2, <2>3, <2>4, <2>5, <2>6
  <2> QED BY <2>5, <2>7 DEF DueMinutes, I
<1>9. ASSUME NEW m \in M PROVE \E k \in c..d : m = k * I
  <2>1. m \in Nat /\ from <= m /\ m <= to /\ m % I = 0
    BY DEF DueMinutes, I
  <2> DEFINE k == m \div I
  <2>2. k \in Nat /\ m = k * I
    BY <1>1, <2>1
  <2> HIDE DEF k
  <2>3. k <= d
    <3>1. k * I < (d + 1) * I
      BY <1>1, <1>2, <2>1, <2>2
    <3> QED BY <1>1, <1>2, <2>2, <3>1
  <2>4. c <= k
    <3>1. from \div I <= k
      <4>1. (from \div I) * I < (k + 1) * I
        BY <1>1, <1>2, <2>1, <2>2
      <4> QED BY <1>1, <1>2, <2>2, <4>1
    <3>2. CASE from % I = 0
      BY <3>1, <3>2 DEF c
    <3>3. CASE from % I # 0
      <4>1. from \div I # k
        BY <1>1, <1>2, <2>1, <2>2, <3>3
      <4> QED BY <1>2, <2>2, <3>1, <3>3, <4>1 DEF c
    <3> QED BY <3>2, <3>3
  <2>5. k \in c..d
    BY <1>2, <2>2, <2>3, <2>4
  <2> QED BY <2>2, <2>5
<1> HIDE DEF M
<1>10. f \in Surjection(c..d, M)
  BY <1>8, <1>9 DEF Surjection
<1>11. f \in Injection(c..d, M)
  <2>1. f \in [c..d -> M]
    BY <1>8
  <2>2. \A j, k \in c..d : f[j] = f[k] => j = k
    BY <1>1, <1>2
  <2> HIDE DEF f
  <2> QED BY <2>1, <2>2 DEF Injection, IsInjective
<1>12. IsFiniteSet(M) /\ Cardinality(M) = Cardinality(c..d)
  <2> HIDE DEF f
  <2> QED BY <1>7, <1>10, <1>11, FS_Surjection
<1>13. Snapshots(from, to) \in Nat
  BY <1>2, <1>6
<1> QED BY <1>7, <1>12, <1>13 DEF M

(* Of the minutes up to a later one, those after an earlier one.           *)
LEMMA SnapshotsAfter ==
    ASSUME NEW from \in Nat, NEW n \in Nat, NEW e \in Nat, n <= e,
           NEW B, B = {m \in Nat : n < m}
    PROVE  /\ Snapshots(from, n) \in Nat /\ Snapshots(from, e) \in Nat
           /\ Cardinality(DueMinutes(from, e) \cap B) = Snapshots(from, e) - Snapshots(from, n)
<1> DEFINE T == DueMinutes(from, e)
           L == DueMinutes(from, n)
           R == T \cap B
<1>1. /\ IsFiniteSet(T) /\ Cardinality(T) = Snapshots(from, e) /\ Snapshots(from, e) \in Nat
      /\ IsFiniteSet(L) /\ Cardinality(L) = Snapshots(from, n) /\ Snapshots(from, n) \in Nat
  BY SnapshotsCount
<1>2. T = L \cup R /\ L \cap R = {}
  BY DEF DueMinutes
<1>3. IsFiniteSet(R)
  BY <1>1, FS_Subset
<1> HIDE DEF T, L, R
<1>4. Cardinality(T) = Cardinality(L) + Cardinality(R) - Cardinality(L \cap R)
  BY <1>1, <1>2, <1>3, FS_Union
<1>5. Cardinality(L \cap R) = 0 /\ Cardinality(R) \in Nat
  BY <1>2, <1>3, FS_EmptySet, FS_CardinalityType
<1>6. Cardinality(R) = Snapshots(from, e) - Snapshots(from, n)
  BY <1>1, <1>4, <1>5
<1> QED BY <1>1, <1>6 DEF R, T

(* The money of a trade, told by its record: what the entry cost, what the *)
(* parts brought, what is left to sell, and the funding due by a minute if *)
(* nothing more is sold.  r is Rate(t.side), n the present.                *)
Spent(t) == Cash(t.side, Entering(t.side), t.raw_entry, Units, EntryFee)
Sold(t) ==
    SumFunction([k \in DOMAIN t.partial_exits |->
        Cash(t.side, Leaving(t.side), t.partial_exits[k].raw, PartialUnits, ExitFee)])
Rest(t) == Units - Len(t.partial_exits) * PartialUnits
Owed(r, p, t, e) ==
    SumFunction([m \in DueMinutes(p.at, e) |-> r * t.entry_price * Held(t, m)])

PartsOK(t, n) ==
    LET x == t.partial_exits
    IN  /\ IsList(x) /\ Len(x) \in Nat /\ DOMAIN x = 1..Len(x)
        /\ \A k \in 1..Len(x) : /\ x[k].raw \in Int /\ x[k].gross_pnl \in Int
                                /\ x[k].exit_at \in Nat /\ x[k].exit_at <= n

EntryOK(t) ==
    /\ t.side \in Sides /\ t.raw_entry \in Int
    /\ t.entry_price = FillPrice(Entering(t.side), t.raw_entry)

OpenBooked(r, p, t, n) ==
    /\ PartsOK(t, n) /\ EntryOK(t) /\ t.charges \in Int /\ t.funding_charges \in Int
    /\ PartialGross(t) - t.charges + t.funding_charges =
          Spent(t) + Sold(t) + Sign(t.side) * t.entry_price * 100 * Rest(t)
    /\ \A e \in Nat : n <= e =>
          Owed(r, p, t, e) = t.funding_charges + r * t.entry_price * Rest(t) * Snapshots(p.at, e)

ClosedBooked(r, p, t) ==
    /\ t.net_pnl \in Int
    /\ t.net_pnl = Spent(t) + Sold(t)
                     + Cash(t.side, Leaving(t.side), t.raw_exit, Rest(t), ExitFee)
                     - Owed(r, p, t, t.exit_at)

(* The constants a proof about money needs.                                *)
LEMMA MoneyConstants ==
    /\ Slippage \in Int /\ EntryFee \in Int /\ ExitFee \in Int /\ FixedFee \in Int
    /\ FundingRate \in Int /\ Units \in Int /\ PartialUnits \in Int
    /\ \A raw \in ExitPrices : raw \in Int
BY BacktestAssumption

(* A fill price is a number.                                               *)
LEMMA FillIsKnown ==
    ASSUME NEW action, NEW raw \in Int
    PROVE  FillPrice(action, raw) \in Int
BY MoneyConstants DEF FillPrice

(* A purchase pays its price and fee, a sale brings the one less the other.*)
CashIs(side, raw, qty, fee) ==
    /\ Sign(side) \in Int
    /\ Cash(side, Entering(side), raw, qty, fee) \in Int
    /\ Cash(side, Leaving(side), raw, qty, fee) \in Int
    /\ TradingFee(FillPrice(Entering(side), raw), qty, fee) \in Int
    /\ TradingFee(FillPrice(Leaving(side), raw), qty, fee) \in Int
    /\ Cash(side, Entering(side), raw, qty, fee) =
         - (Sign(side) * FillPrice(Entering(side), raw) * 100 * qty)
         - TradingFee(FillPrice(Entering(side), raw), qty, fee)
    /\ Cash(side, Leaving(side), raw, qty, fee) =
         Sign(side) * FillPrice(Leaving(side), raw) * 100 * qty
         - TradingFee(FillPrice(Leaving(side), raw), qty, fee)

(* What a fill moves is what its gross part and its fee say.               *)
LEMMA CashMoved ==
    ASSUME NEW side \in Sides, NEW raw \in Int, NEW qty \in Int, NEW fee \in Int
    PROVE  CashIs(side, raw, qty, fee)
<1> DEFINE a == FillPrice(Entering(side), raw)
           b == FillPrice(Leaving(side), raw)
<1>1. a \in Int /\ b \in Int
  BY FillIsKnown
<1> HIDE DEF a, b
<1>2. \A price \in Int : TradingFee(price, qty, fee) \in Int
  BY MoneyConstants DEF TradingFee
<1>3. CASE side = "Long"
  <2>1. Entering(side) = "Buy" /\ Leaving(side) = "Sell" /\ Sign(side) = 1
    BY <1>3 DEF Entering, Leaving, Sign
  <2>2. Cash(side, Entering(side), raw, qty, fee) = (-1) * a * qty * 100 - a * qty * fee - FixedFee
    BY <2>1 DEF Cash, a
  <2>3. Cash(side, Leaving(side), raw, qty, fee) = 1 * b * qty * 100 - b * qty * fee - FixedFee
    BY <2>1 DEF Cash, b
  <2>4. (-1) * a * qty * 100 - a * qty * fee - FixedFee
          = - (1 * a * 100 * qty) - (a * qty * fee + FixedFee)
    BY <1>1, MoneyConstants
  <2>5. 1 * b * qty * 100 - b * qty * fee - FixedFee
          = 1 * b * 100 * qty - (b * qty * fee + FixedFee)
    BY <1>1, MoneyConstants
  <2>6. (-1) * a * qty * 100 - a * qty * fee - FixedFee \in Int
        /\ 1 * b * qty * 100 - b * qty * fee - FixedFee \in Int
    BY <1>1, MoneyConstants
  <2>7. TradingFee(a, qty, fee) = a * qty * fee + FixedFee
        /\ TradingFee(b, qty, fee) = b * qty * fee + FixedFee
    BY DEF TradingFee
  <2>8. /\ Sign(side) \in Int
        /\ Cash(side, Entering(side), raw, qty, fee) \in Int
        /\ Cash(side, Leaving(side), raw, qty, fee) \in Int
    BY <2>1, <2>2, <2>3, <2>6
  <2>9. /\ Cash(side, Entering(side), raw, qty, fee) =
             - (Sign(side) * a * 100 * qty) - TradingFee(a, qty, fee)
        /\ Cash(side, Leaving(side), raw, qty, fee) =
             Sign(side) * b * 100 * qty - TradingFee(b, qty, fee)
    BY <2>1, <2>2, <2>3, <2>4, <2>5, <2>7, Zenon
  <2> QED BY <1>1, <1>2, <2>8, <2>9 DEF CashIs, a, b
<1>4. CASE side = "Short"
  <2>1. Entering(side) = "Sell" /\ Leaving(side) = "Buy" /\ Sign(side) = -1
    BY <1>4 DEF Entering, Leaving, Sign
  <2>2. Cash(side, Entering(side), raw, qty, fee) = 1 * a * qty * 100 - a * qty * fee - FixedFee
    BY <2>1 DEF Cash, a
  <2>3. Cash(side, Leaving(side), raw, qty, fee) = (-1) * b * qty * 100 - b * qty * fee - FixedFee
    BY <2>1 DEF Cash, b
  <2>4. 1 * a * qty * 100 - a * qty * fee - FixedFee
          = - ((-1) * a * 100 * qty) - (a * qty * fee + FixedFee)
    BY <1>1, MoneyConstants
  <2>5. (-1) * b * qty * 100 - b * qty * fee - FixedFee
          = (-1) * b * 100 * qty - (b * qty * fee + FixedFee)
    BY <1>1, MoneyConstants
  <2>6. 1 * a * qty * 100 - a * qty * fee - FixedFee \in Int
        /\ (-1) * b * qty * 100 - b * qty * fee - FixedFee \in Int
    BY <1>1, MoneyConstants
  <2>7. TradingFee(a, qty, fee) = a * qty * fee + FixedFee
        /\ TradingFee(b, qty, fee) = b * qty * fee + FixedFee
    BY DEF TradingFee
  <2>8. /\ Sign(side) \in Int
        /\ Cash(side, Entering(side), raw, qty, fee) \in Int
        /\ Cash(side, Leaving(side), raw, qty, fee) \in Int
    BY <2>1, <2>2, <2>3, <2>6
  <2>9. /\ Cash(side, Entering(side), raw, qty, fee) =
             - (Sign(side) * a * 100 * qty) - TradingFee(a, qty, fee)
        /\ Cash(side, Leaving(side), raw, qty, fee) =
             Sign(side) * b * 100 * qty - TradingFee(b, qty, fee)
    BY <2>1, <2>2, <2>3, <2>4, <2>5, <2>7, Zenon
  <2> QED BY <1>1, <1>2, <2>8, <2>9 DEF CashIs, a, b
<1> QED BY <1>3, <1>4 DEF Sides

(* What is held is known at every minute, and so is what it owes.          *)
LEMMA HeldIsKnown ==
    ASSUME NEW t, NEW n, PartsOK(t, n), NEW m
    PROVE  Held(t, m) \in Int
<1> DEFINE S == {k \in DOMAIN t.partial_exits : t.partial_exits[k].exit_at < m}
<1>1. S \in SUBSET (1..Len(t.partial_exits)) /\ IsFiniteSet(1..Len(t.partial_exits))
  BY FS_Interval DEF PartsOK
<1>2. Held(t, m) = Units - PartialUnits * Cardinality(S)
  BY DEF Held
<1> HIDE DEF S
<1>3. Cardinality(S) \in Nat
  BY <1>1, FS_Subset, FS_CardinalityType
<1> QED BY <1>2, <1>3, MoneyConstants

(* What is owed is a total over the due minutes.                           *)
LEMMA OwedIsTotal ==
    ASSUME NEW t, NEW n, PartsOK(t, n), NEW r \in Int, NEW p, p.at \in Nat, t.entry_price \in Int,
           NEW e \in Nat, NEW h, h = [m \in DueMinutes(p.at, e) |-> r * t.entry_price * Held(t, m)]
    PROVE  /\ IntsOn(h, DueMinutes(p.at, e)) /\ Owed(r, p, t, e) = Total(h, DueMinutes(p.at, e))
           /\ Owed(r, p, t, e) \in Int
<1> DEFINE T == DueMinutes(p.at, e)
<1>1. \A m \in T : h[m] \in Int
  <2> TAKE m \in T
  <2>1. h[m] = r * t.entry_price * Held(t, m) /\ Held(t, m) \in Int
    BY HeldIsKnown
  <2> QED BY <2>1
<1>2. IsFiniteSet(T) /\ DOMAIN h = T
  BY SnapshotsCount
<1>3. Owed(r, p, t, e) = SumFunction(h)
  BY DEF Owed
<1> HIDE DEF T
<1>4. IntsOn(h, T)
  BY <1>1, <1>2 DEF IntsOn
<1>5. SumFunction(h) = Total(h, T) /\ Total(h, T) \in Int
  BY <1>2, <1>4, SumIsTotal, TotalAdds
<1> QED BY <1>3, <1>4, <1>5 DEF T

(* The sum of equal values.                                                *)
LEMMA TotalEqual ==
    ASSUME NEW T, IsFiniteSet(T), NEW c \in Int, NEW k, \A x \in T : k[x] = c
    PROVE  Total(k, T) = c * Cardinality(T)
<1> DEFINE z == [x \in T |-> 0]
<1>1. IntsOn(z, T) /\ IsTimes(z, z, T, 0)
  BY DEF IntsOn, IsTimes
<1>2. Total(z, T) = 0 * Total(z, T) /\ Total(z, T) \in Int
  BY <1>1, TotalTimes, TotalAdds
<1>3. IsPlus(k, z, T, T, c)
  BY DEF IsPlus
<1> HIDE DEF z
<1>4. Total(k, T) = Total(z, T) + c * Cardinality(T \cap T)
  BY <1>1, <1>3, TotalPlus
<1>5. T \cap T = T /\ Cardinality(T) \in Nat
  BY FS_CardinalityType
<1>6. Total(z, T) = 0
  BY <1>2
<1>7. Total(k, T) = 0 + c * Cardinality(T)
  BY <1>4, <1>5, <1>6
<1> QED BY <1>5, <1>7

(* A list of values one longer sums up to one value more.                  *)
LEMMA SumAppended ==
    ASSUME NEW K \in Nat, NEW h, DOMAIN h = 1..K, \A i \in 1..K : h[i] \in Int,
           NEW k, DOMAIN k = 1..(K + 1), \A i \in 1..K : k[i] = h[i], k[K + 1] \in Int
    PROVE  SumFunction(k) = SumFunction(h) + k[K + 1] /\ SumFunction(h) \in Int
<1> DEFINE T == 1..K
           U == 1..(K + 1)
<1>1. IsFiniteSet(T) /\ IsFiniteSet(U)
  BY FS_Interval
<1>2. U = T \cup {K + 1} /\ K + 1 \notin T
  OBVIOUS
<1>3. \A i \in U : k[i] \in Int
  BY <1>2
<1>4. DOMAIN h = T /\ DOMAIN k = U /\ \A i \in T : k[i] = h[i]
  OBVIOUS
<1>5. \A i \in T : h[i] \in Int
  OBVIOUS
<1> HIDE DEF T, U
<1>6. IntsOn(h, T) /\ IntsOn(k, U) /\ IntsOn(k, T)
  BY <1>1, <1>2, <1>3, <1>5 DEF IntsOn
<1>7. SumFunction(h) = Total(h, T) /\ SumFunction(k) = Total(k, U)
  BY <1>4, <1>6, SumIsTotal
<1>8. Total(k, T \cup {K + 1}) = Total(k, T) + k[K + 1] /\ Total(k, T) \in Int
  BY <1>2, <1>6, TotalGrows
<1>9. Total(k, T) = Total(h, T)
  BY <1>4, <1>6, TotalSame
<1> QED BY <1>2, <1>7, <1>8, <1>9

(* A list one longer.                                                      *)
LongerBy(y, x, e) ==
    /\ IsList(y) /\ Len(y) = Len(x) + 1 /\ Len(y) \in Nat /\ DOMAIN y = 1..(Len(x) + 1)
    /\ \A k \in 1..Len(x) : y[k] = x[k]
    /\ y[Len(x) + 1] = e

(* Appending gives such a list.                                            *)
LEMMA AppendedAt ==
    ASSUME NEW x, IsList(x), Len(x) \in Nat, DOMAIN x = 1..Len(x), NEW e, NEW y, y = Append(x, e)
    PROVE  LongerBy(y, x, e)
<1> DEFINE S == {x[k] : k \in DOMAIN x}
<1>1. x \in Seq(S \cup {e}) /\ e \in S \cup {e}
  <2>1. x \in Seq(S)
    BY DEF IsList
  <2> HIDE DEF S
  <2> QED BY <2>1, SeqMonotonic
<1> HIDE DEF S
<1>2. /\ y \in Seq(S \cup {e}) /\ Len(y) = Len(x) + 1
      /\ \A i \in 1..Len(x) : y[i] = x[i]
      /\ y[Len(x) + 1] = e
  BY <1>1, AppendProperties
<1>3. DOMAIN y = 1..Len(y)
  BY <1>2, LenProperties
<1>4. IsList(y)
  BY ListGrows
<1> QED BY <1>2, <1>3, <1>4 DEF LongerBy

(* An entry.                                                               *)
LEMMA EntryIsBooked ==
    ASSUME NEW t, EntryOK(t), t.charges = TradingFee(t.entry_price, Units, EntryFee),
           t.funding_charges = 0, t.partial_exits = <<>>,
           NEW p, p.at \in Nat, NEW r \in Int, NEW n \in Nat
    PROVE  OpenBooked(r, p, t, n)
<1>1. Len(t.partial_exits) = 0 /\ DOMAIN t.partial_exits = 1..0 /\ IsList(t.partial_exits)
  BY EmptySeq DEF IsList
<1>2. PartsOK(t, n)
  BY <1>1 DEF PartsOK
<1>3. 1..0 = {} /\ IsFiniteSet({})
  BY FS_EmptySet
<1>4. \A h : DOMAIN h = {} => SumFunction(h) = 0
  <2> SUFFICES ASSUME NEW h, DOMAIN h = {} PROVE SumFunction(h) = 0
    OBVIOUS
  <2>1. IntsOn(h, {})
    BY <1>3 DEF IntsOn
  <2> QED BY <2>1, SumIsTotal, TotalAdds
<1>5. PartialGross(t) = 0 /\ Sold(t) = 0
  BY <1>1, <1>3, <1>4 DEF PartialGross, Sold
<1>6. Rest(t) = Units /\ Units \in Int
  BY <1>1, MoneyConstants DEF Rest
<1>7. /\ t.side \in Sides /\ t.raw_entry \in Int /\ t.entry_price \in Int
      /\ t.entry_price = FillPrice(Entering(t.side), t.raw_entry)
  BY FillIsKnown DEF EntryOK
<1>8. /\ Spent(t) = - (Sign(t.side) * t.entry_price * 100 * Units) - t.charges
      /\ t.charges \in Int /\ Sign(t.side) \in Int
  <2>1. Units \in Int /\ EntryFee \in Int
    BY MoneyConstants
  <2>2. /\ Spent(t) = - (Sign(t.side) * t.entry_price * 100 * Units)
                      - TradingFee(t.entry_price, Units, EntryFee)
        /\ TradingFee(t.entry_price, Units, EntryFee) \in Int /\ Sign(t.side) \in Int
    <3>1. CashIs(t.side, t.raw_entry, Units, EntryFee)
      BY <1>7, <2>1, CashMoved
    <3> QED BY <1>7, <3>1 DEF CashIs, Spent
  <2> QED BY <2>2
<1>9. PartialGross(t) - t.charges + t.funding_charges =
          Spent(t) + Sold(t) + Sign(t.side) * t.entry_price * 100 * Rest(t)
  <2>1. Sign(t.side) * t.entry_price * 100 * Units \in Int
    BY <1>6, <1>7, <1>8
  <2>2. 0 - t.charges + 0
          = (- (Sign(t.side) * t.entry_price * 100 * Units) - t.charges) + 0
            + Sign(t.side) * t.entry_price * 100 * Units
    BY <1>8, <2>1
  <2> QED BY <1>5, <1>6, <1>8, <2>2
<1>10. ASSUME NEW e \in Nat
       PROVE  Owed(r, p, t, e) = t.funding_charges
                                   + r * t.entry_price * Rest(t) * Snapshots(p.at, e)
  <2> DEFINE T == DueMinutes(p.at, e)
             c == r * t.entry_price * Units
  <2>1. PICK h : h = [m \in T |-> r * t.entry_price * Held(t, m)]
    OBVIOUS
  <2>2. Owed(r, p, t, e) = Total(h, T)
    BY <1>2, <1>7, <2>1, OwedIsTotal
  <2>3. \A m : Held(t, m) = Units
    <3> TAKE m
    <3>1. {k \in DOMAIN t.partial_exits : t.partial_exits[k].exit_at < m} = {}
      BY <1>1, <1>3
    <3> QED BY <1>6, <3>1, FS_EmptySet, MoneyConstants DEF Held
  <2>4. \A m \in T : h[m] = c
    BY <2>1, <2>3
  <2>5. c \in Int
    BY <1>6, <1>7
  <2>6. IsFiniteSet(T) /\ Cardinality(T) = Snapshots(p.at, e) /\ Snapshots(p.at, e) \in Nat
    BY SnapshotsCount
  <2> HIDE DEF T, c
  <2>7. Total(h, T) = c * Snapshots(p.at, e)
    BY <2>4, <2>5, <2>6, TotalEqual
  <2>8. 0 + c * Snapshots(p.at, e) = c * Snapshots(p.at, e)
    BY <2>5, <2>6
  <2> QED BY <1>6, <2>2, <2>7, <2>8 DEF c
<1>11. t.funding_charges \in Int
  OBVIOUS
<1> QED BY <1>2, <1>8, <1>9, <1>10, <1>11 DEF OpenBooked

(* Time goes by.                                                           *)
LEMMA BookedLater ==
    ASSUME NEW r, NEW p, NEW t, NEW n \in Nat, OpenBooked(r, p, t, n), NEW l \in Nat, n <= l
    PROVE  OpenBooked(r, p, t, l)
<1>1. PartsOK(t, l)
  BY DEF OpenBooked, PartsOK
<1>2. \A e \in Nat : l <= e => n <= e
  OBVIOUS
<1> QED BY <1>1, <1>2 DEF OpenBooked

(* What a part and an exit do to the record of a trade.                    *)
SellsPart(u, t, p, r, n, raw) ==
    LET price == FillPrice(Leaving(t.side), raw)
        cost  == r * (t.entry_price * PartialUnits * Snapshots(p.at, n))
    IN  /\ u.side = t.side /\ u.raw_entry = t.raw_entry /\ u.entry_price = t.entry_price
        /\ u.funding_charges = t.funding_charges + cost
        /\ u.charges = t.charges + TradingFee(price, PartialUnits, ExitFee) + cost
        /\ \E part :
              /\ part.raw = raw /\ part.exit_at = n
              /\ part.gross_pnl = Gross(t.side, t.entry_price, price, PartialUnits)
              /\ u.partial_exits = Append(t.partial_exits, part)

SellsRest(u, t, p, r, n, raw) ==
    LET price == FillPrice(Leaving(t.side), raw)
        cost  == r * (t.entry_price * Rest(t) * Snapshots(p.at, n))
        all   == t.charges + TradingFee(price, Rest(t), ExitFee) + cost
        gross == PartialGross(t) + Gross(t.side, t.entry_price, price, Rest(t))
    IN  /\ u.side = t.side /\ u.raw_entry = t.raw_entry /\ u.entry_price = t.entry_price
        /\ u.partial_exits = t.partial_exits /\ u.raw_exit = raw /\ u.exit_at = n
        /\ u.net_pnl = gross - all

(* The sums of a record whose parts are known.                             *)
LEMMA PartsAreKnown ==
    ASSUME NEW t, NEW n, PartsOK(t, n), t.side \in Sides
    PROVE  PartialGross(t) \in Int /\ Sold(t) \in Int /\ Rest(t) \in Int
<1> DEFINE K == Len(t.partial_exits)
           g == [k \in DOMAIN t.partial_exits |-> t.partial_exits[k].gross_pnl]
           c == [k \in DOMAIN t.partial_exits |->
                   Cash(t.side, Leaving(t.side), t.partial_exits[k].raw, PartialUnits, ExitFee)]
<1>1. /\ K \in Nat /\ DOMAIN t.partial_exits = 1..K
      /\ \A k \in 1..K : t.partial_exits[k].gross_pnl \in Int /\ t.partial_exits[k].raw \in Int
  BY DEF PartsOK
<1>2. \A k \in 1..K :
        Cash(t.side, Leaving(t.side), t.partial_exits[k].raw, PartialUnits, ExitFee) \in Int
  <2> TAKE k \in 1..K
  <2>1. PartialUnits \in Int /\ ExitFee \in Int
    BY MoneyConstants
  <2>2. CashIs(t.side, t.partial_exits[k].raw, PartialUnits, ExitFee)
    BY <1>1, <2>1, CashMoved
  <2> QED BY <2>2 DEF CashIs
<1>3. IsFiniteSet(1..K)
  BY <1>1, FS_Interval
<1>4. DOMAIN g = 1..K /\ IntsOn(g, 1..K) /\ DOMAIN c = 1..K /\ IntsOn(c, 1..K)
  BY <1>1, <1>2, <1>3 DEF IntsOn
<1>5. PartialGross(t) = SumFunction(g) /\ Sold(t) = SumFunction(c)
  BY DEF PartialGross, Sold
<1> HIDE DEF g, c
<1>6. PartialGross(t) = Total(g, 1..K) /\ Sold(t) = Total(c, 1..K)
  BY <1>4, <1>5, SumIsTotal
<1>7. PartialGross(t) \in Int /\ Sold(t) \in Int
  BY <1>4, <1>6, TotalAdds
<1>8. Rest(t) \in Int
  BY <1>1, MoneyConstants DEF Rest
<1> QED BY <1>7, <1>8

(* The arithmetic of a part, of an exit and of the funding of a part.      *)
LEMMA PartArithmetic ==
    ASSUME NEW g \in Int, NEW ch \in Int, NEW fu \in Int, NEW spent \in Int, NEW sold \in Int,
           NEW s \in Int, NEW ep \in Int, NEW xp \in Int, NEW q \in Int, NEW rest \in Int,
           NEW fee \in Int, NEW cost \in Int,
           g - ch + fu = spent + sold + s * ep * 100 * rest
    PROVE  (g + s * (xp - ep) * q * 100) - (ch + fee + cost) + (fu + cost)
             = spent + (sold + (s * xp * 100 * q - fee)) + s * ep * 100 * (rest - q)
OBVIOUS

LEMMA ExitArithmetic ==
    ASSUME NEW g \in Int, NEW ch \in Int, NEW fu \in Int, NEW spent \in Int, NEW sold \in Int,
           NEW s \in Int, NEW ep \in Int, NEW xp \in Int, NEW rest \in Int,
           NEW fee \in Int, NEW cost \in Int,
           g - ch + fu = spent + sold + s * ep * 100 * rest
    PROVE  (g + s * (xp - ep) * rest * 100) - (ch + fee + cost)
             = spent + sold + (s * xp * 100 * rest - fee) - (fu + cost)
OBVIOUS

LEMMA FundingArithmetic ==
    ASSUME NEW fu \in Int, NEW r \in Int, NEW ep \in Int, NEW q \in Int, NEW rest \in Int,
           NEW before \in Int, NEW upto \in Int, NEW owed \in Int,
           owed = fu + r * ep * rest * upto
    PROVE  owed + (-(r * ep * q)) * (upto - before)
             = (fu + r * (ep * q * before)) + r * ep * (rest - q) * upto
OBVIOUS

(* What is held after a part.                                              *)
LEMMA HeldAfter ==
    ASSUME NEW t, NEW n \in Nat, PartsOK(t, n), NEW u, NEW part, part.exit_at = n,
           u.partial_exits = Append(t.partial_exits, part), NEW m \in Nat
    PROVE  Held(u, m) = Held(t, m) - (IF n < m THEN PartialUnits ELSE 0)
<1> DEFINE x == t.partial_exits
           y == u.partial_exits
           S == {k \in DOMAIN x : x[k].exit_at < m}
           U == {k \in DOMAIN y : y[k].exit_at < m}
<1>1. /\ IsList(x) /\ Len(x) \in Nat /\ DOMAIN x = 1..Len(x)
  BY DEF PartsOK
<1>2. /\ DOMAIN y = 1..(Len(x) + 1) /\ \A k \in 1..Len(x) : y[k] = x[k]
      /\ y[Len(x) + 1] = part
  <2> HIDE DEF x, y
  <2>1. y = Append(x, part)
    BY DEF x, y
  <2>2. LongerBy(y, x, part)
    BY <1>1, <2>1, AppendedAt
  <2> QED BY <2>2 DEF LongerBy
<1>3. IsFiniteSet(S) /\ Cardinality(S) \in Nat
  <2>1. S \in SUBSET (1..Len(x))
    BY <1>1
  <2> HIDE DEF S, x
  <2>2. IsFiniteSet(1..Len(x))
    BY <1>1, FS_Interval
  <2> QED BY <2>1, <2>2, FS_Subset, FS_CardinalityType
<1>4. Held(t, m) = Units - PartialUnits * Cardinality(S)
      /\ Held(u, m) = Units - PartialUnits * Cardinality(U)
  BY DEF Held
<1>5. 1..(Len(x) + 1) = (1..Len(x)) \cup {Len(x) + 1} /\ Len(x) + 1 \notin 1..Len(x)
  BY <1>1
<1>6. CASE n < m
  <2>1. U = S \cup {Len(x) + 1} /\ Len(x) + 1 \notin S
    BY <1>1, <1>2, <1>5, <1>6
  <2> HIDE DEF S, U
  <2>2. Cardinality(U) = Cardinality(S) + 1
    BY <1>3, <2>1, FS_AddElement
  <2>3. PartialUnits * (Cardinality(S) + 1) = PartialUnits * Cardinality(S) + PartialUnits
        /\ PartialUnits * Cardinality(S) \in Int
    BY <1>3, MoneyConstants
  <2> QED BY <1>4, <1>6, <2>2, <2>3, MoneyConstants
<1>7. CASE ~(n < m)
  <2>1. U = S
    BY <1>1, <1>2, <1>5, <1>7
  <2> HIDE DEF S, U
  <2>2. PartialUnits * Cardinality(S) \in Int
    BY <1>3, MoneyConstants
  <2> QED BY <1>4, <1>7, <2>1, <2>2, MoneyConstants
<1> QED BY <1>6, <1>7

(* A part is booked.                                                       *)
LEMMA PartIsBooked ==
    ASSUME NEW t, NEW p, p.at \in Nat, NEW n \in Nat, NEW r \in Int, OpenBooked(r, p, t, n),
           NEW raw \in Int, NEW u, SellsPart(u, t, p, r, n, raw)
    PROVE  OpenBooked(r, p, u, n)
<1> DEFINE x == t.partial_exits
           K == Len(x)
           y == u.partial_exits
           s == Sign(t.side)
           ep == t.entry_price
           price == FillPrice(Leaving(t.side), raw)
           fee == TradingFee(price, PartialUnits, ExitFee)
           snap == Snapshots(p.at, n)
           cost == r * (ep * PartialUnits * snap)
<1>1. /\ PartsOK(t, n) /\ EntryOK(t) /\ t.charges \in Int /\ t.funding_charges \in Int
      /\ t.side \in Sides /\ t.raw_entry \in Int /\ ep = FillPrice(Entering(t.side), t.raw_entry)
      /\ IsList(x) /\ K \in Nat /\ DOMAIN x = 1..K
      /\ \A k \in 1..K : /\ x[k].raw \in Int /\ x[k].gross_pnl \in Int
                         /\ x[k].exit_at \in Nat /\ x[k].exit_at <= n
  BY DEF OpenBooked, PartsOK, EntryOK
<1>2. PICK part :
              /\ part.raw = raw /\ part.exit_at = n
              /\ part.gross_pnl = Gross(t.side, ep, price, PartialUnits)
              /\ y = Append(x, part)
  BY Zenon DEF SellsPart
<1>3. /\ u.side = t.side /\ u.raw_entry = t.raw_entry /\ u.entry_price = ep
      /\ u.funding_charges = t.funding_charges + cost
      /\ u.charges = t.charges + fee + cost
  BY Zenon DEF SellsPart
<1>4. ep \in Int /\ price \in Int /\ s \in Int /\ fee \in Int /\ snap \in Nat
      /\ CashIs(t.side, raw, PartialUnits, ExitFee) /\ PartialUnits \in Int
  <2>1. PartialUnits \in Int /\ ExitFee \in Int
    BY MoneyConstants
  <2>2. CashIs(t.side, raw, PartialUnits, ExitFee)
    BY <1>1, <2>1, CashMoved
  <2>3. ep \in Int /\ price \in Int
    BY <1>1, FillIsKnown
  <2>4. snap \in Nat
    BY SnapshotsCount
  <2> QED BY <2>1, <2>2, <2>3, <2>4 DEF CashIs
<1> HIDE DEF x, y, s, ep, price, fee, snap
<1>5. cost \in Int
  BY <1>4
<1> HIDE DEF cost
<1>6. part.gross_pnl = s * (price - ep) * PartialUnits * 100 /\ part.gross_pnl \in Int
  <2>1. part.gross_pnl = s * (price - ep) * PartialUnits * 100
    BY <1>2 DEF Gross, s
  <2> QED BY <1>4, <2>1
<1>7. /\ IsList(y) /\ Len(y) = K + 1 /\ Len(y) \in Nat /\ DOMAIN y = 1..(K + 1)
      /\ \A k \in 1..K : y[k] = x[k]
      /\ y[K + 1] = part
  <2>1. IsList(x) /\ Len(x) \in Nat /\ DOMAIN x = 1..Len(x)
    BY <1>1
  <2>2. y = Append(x, part)
    BY <1>2
  <2>3. LongerBy(y, x, part)
    <3> HIDE DEF K
    <3> QED BY <2>1, <2>2, AppendedAt
  <2> QED BY <2>3 DEF LongerBy
<1> HIDE DEF K
<1>8. \A k \in 1..(K + 1) : k \in 1..K \/ k = K + 1
  BY <1>1
<1>9. PartsOK(u, n)
  <2>1. \A k \in 1..(K + 1) : /\ y[k].raw \in Int /\ y[k].gross_pnl \in Int
                              /\ y[k].exit_at \in Nat /\ y[k].exit_at <= n
    <3> TAKE k \in 1..(K + 1)
    <3>1. CASE k \in 1..K
      BY <1>1, <1>7, <3>1
    <3>2. CASE k = K + 1
      BY <1>2, <1>6, <1>7, <3>2
    <3> QED BY <1>8, <3>1, <3>2
  <2> QED BY <1>7, <2>1 DEF PartsOK, y
<1>10. EntryOK(u)
  BY <1>1, <1>3 DEF EntryOK
<1>11. Rest(u) = Rest(t) - PartialUnits /\ Rest(t) \in Int
  <2>1. Rest(u) = Units - (K + 1) * PartialUnits /\ Rest(t) = Units - K * PartialUnits
    BY <1>7 DEF Rest, K, x, y
  <2>2. (K + 1) * PartialUnits = K * PartialUnits + PartialUnits /\ K * PartialUnits \in Int
    BY <1>1, <1>4
  <2> QED BY <1>4, <2>1, <2>2, MoneyConstants
<1>12. PartialGross(u) = PartialGross(t) + part.gross_pnl /\ PartialGross(t) \in Int
  <2> DEFINE g == [k \in DOMAIN x |-> x[k].gross_pnl]
             h == [k \in DOMAIN y |-> y[k].gross_pnl]
  <2>1. DOMAIN g = 1..K /\ \A k \in 1..K : g[k] \in Int
    BY <1>1
  <2>2. DOMAIN h = 1..(K + 1) /\ (\A k \in 1..K : h[k] = g[k]) /\ h[K + 1] = part.gross_pnl
    <3>1. \A k \in 1..K : k \in 1..(K + 1)
      BY <1>1
    <3>2. K + 1 \in 1..(K + 1)
      BY <1>1
    <3> QED BY <1>1, <1>7, <3>1, <3>2
  <2>3. PartialGross(u) = SumFunction(h) /\ PartialGross(t) = SumFunction(g)
    BY DEF PartialGross, x, y
  <2> HIDE DEF g, h
  <2>4. K \in Nat /\ h[K + 1] \in Int
    BY <1>1, <1>6, <2>2
  <2>5. SumFunction(h) = SumFunction(g) + h[K + 1] /\ SumFunction(g) \in Int
    BY <2>1, <2>2, <2>4, SumAppended
  <2> QED BY <2>2, <2>3, <2>5
<1> DEFINE brought == Cash(t.side, Leaving(t.side), raw, PartialUnits, ExitFee)
<1>13. brought = s * price * 100 * PartialUnits - fee /\ brought \in Int
  BY <1>4 DEF CashIs, s, price, fee
<1>14. Sold(u) = Sold(t) + brought /\ Sold(t) \in Int
  <2> DEFINE c(z) == Cash(t.side, Leaving(t.side), z.raw, PartialUnits, ExitFee)
             g == [k \in DOMAIN x |-> c(x[k])]
             h == [k \in DOMAIN y |-> c(y[k])]
  <2>1. \A k \in 1..K : c(x[k]) \in Int
    <3> TAKE k \in 1..K
    <3>1. PartialUnits \in Int /\ ExitFee \in Int /\ x[k].raw \in Int
      BY <1>1, MoneyConstants
    <3>2. CashIs(t.side, x[k].raw, PartialUnits, ExitFee)
      BY <1>1, <3>1, CashMoved
    <3> QED BY <3>2 DEF CashIs
  <2>2. c(part) = brought
    BY <1>2
  <2>3. Sold(u) = SumFunction(h) /\ Sold(t) = SumFunction(g)
    BY <1>3 DEF Sold, x, y
  <2> HIDE DEF c, brought
  <2>4. DOMAIN g = 1..K /\ \A k \in 1..K : g[k] \in Int
    BY <1>1, <2>1
  <2>5. DOMAIN h = 1..(K + 1) /\ (\A k \in 1..K : h[k] = g[k]) /\ h[K + 1] = brought
    <3>1. \A k \in 1..K : k \in 1..(K + 1)
      BY <1>1
    <3>2. K + 1 \in 1..(K + 1)
      BY <1>1
    <3> QED BY <1>1, <1>7, <2>2, <3>1, <3>2
  <2> HIDE DEF g, h
  <2>6. K \in Nat /\ h[K + 1] \in Int
    BY <1>1, <1>13, <2>5
  <2>7. SumFunction(h) = SumFunction(g) + h[K + 1] /\ SumFunction(g) \in Int
    BY <2>4, <2>5, <2>6, SumAppended
  <2> QED BY <2>3, <2>5, <2>7
<1> HIDE DEF brought
<1>15. Spent(u) = Spent(t) /\ Spent(t) \in Int
  <2>1. Units \in Int /\ EntryFee \in Int
    BY MoneyConstants
  <2>2. CashIs(t.side, t.raw_entry, Units, EntryFee)
    BY <1>1, <2>1, CashMoved
  <2> QED BY <1>3, <2>2 DEF CashIs, Spent
<1>16. PartialGross(u) - u.charges + u.funding_charges =
          Spent(u) + Sold(u) + Sign(u.side) * u.entry_price * 100 * Rest(u)
  <2>1. PartialGross(t) - t.charges + t.funding_charges =
          Spent(t) + Sold(t) + s * ep * 100 * Rest(t)
    BY DEF OpenBooked, s, ep
  <2>2. (PartialGross(t) + s * (price - ep) * PartialUnits * 100)
          - (t.charges + fee + cost) + (t.funding_charges + cost)
        = Spent(t) + (Sold(t) + (s * price * 100 * PartialUnits - fee))
            + s * ep * 100 * (Rest(t) - PartialUnits)
    <3>1. PICK g, ch, fu, spent, sold, rest :
              /\ g = PartialGross(t) /\ ch = t.charges /\ fu = t.funding_charges
              /\ spent = Spent(t) /\ sold = Sold(t) /\ rest = Rest(t)
      OBVIOUS
    <3>2. /\ g \in Int /\ ch \in Int /\ fu \in Int /\ spent \in Int /\ sold \in Int /\ rest \in Int
          /\ s \in Int /\ ep \in Int /\ price \in Int /\ fee \in Int /\ cost \in Int
          /\ PartialUnits \in Int
      BY <1>1, <1>4, <1>5, <1>11, <1>12, <1>14, <1>15, <3>1
    <3>3. g - ch + fu = spent + sold + s * ep * 100 * rest
      BY <2>1, <3>1
    <3>4. (g + s * (price - ep) * PartialUnits * 100) - (ch + fee + cost) + (fu + cost)
            = spent + (sold + (s * price * 100 * PartialUnits - fee))
                + s * ep * 100 * (rest - PartialUnits)
      BY <3>2, <3>3, PartArithmetic
    <3> QED BY <3>1, <3>4
  <2>3. Sign(u.side) = s /\ u.entry_price = ep
    BY <1>3 DEF s
  <2> QED BY <1>3, <1>6, <1>11, <1>12, <1>13, <1>14, <1>15, <2>2, <2>3
<1>17. ASSUME NEW e \in Nat, n <= e
       PROVE  Owed(r, p, u, e) = u.funding_charges
                                   + r * u.entry_price * Rest(u) * Snapshots(p.at, e)
  <2> DEFINE T == DueMinutes(p.at, e)
             B == {m \in Nat : n < m}
             c == -(r * ep * PartialUnits)
  <2>1. PICK h : h = [m \in T |-> r * ep * Held(t, m)]
    OBVIOUS
  <2>2. PICK k : k = [m \in T |-> r * ep * Held(u, m)]
    OBVIOUS
  <2>3. /\ IntsOn(h, T) /\ Owed(r, p, t, e) = Total(h, T) /\ Owed(r, p, t, e) \in Int
    BY <1>1, <1>4, <2>1, OwedIsTotal DEF ep
  <2>4. Owed(r, p, u, e) = Total(k, T)
    BY <1>3, <1>4, <1>9, <2>2, OwedIsTotal
  <2>5. c \in Int
    BY <1>4
  <2>6. IsPlus(k, h, T, B, c)
    <3> SUFFICES ASSUME NEW m \in T PROVE k[m] = h[m] + (IF m \in B THEN c ELSE 0)
      BY DEF IsPlus
    <3>1. m \in Nat
      BY DEF DueMinutes
    <3>2. Held(u, m) = Held(t, m) - (IF n < m THEN PartialUnits ELSE 0)
      <4>1. part.exit_at = n /\ u.partial_exits = Append(t.partial_exits, part)
        BY <1>2 DEF x, y
      <4>2. PartsOK(t, n)
        BY <1>1
      <4> QED BY <3>1, <4>1, <4>2, HeldAfter
    <3>3. Held(t, m) \in Int
      BY <1>1, HeldIsKnown
    <3>4. k[m] = r * ep * Held(u, m) /\ h[m] = r * ep * Held(t, m)
      BY <2>1, <2>2
    <3>5. CASE n < m
      <4>1. r * ep * (Held(t, m) - PartialUnits) = r * ep * Held(t, m) + c
        BY <1>4, <3>3
      <4> QED BY <3>1, <3>2, <3>4, <3>5, <4>1
    <3>6. CASE ~(n < m)
      <4>1. r * ep * (Held(t, m) - 0) = r * ep * Held(t, m) + 0
        BY <1>4, <3>3
      <4> QED BY <3>1, <3>2, <3>4, <3>6, <4>1
    <3> QED BY <3>5, <3>6
  <2>7. Total(k, T) = Total(h, T) + c * Cardinality(T \cap B)
    <3> HIDE DEF T, B, c
    <3> QED BY <2>3, <2>5, <2>6, TotalPlus
  <2>8. /\ Snapshots(p.at, e) \in Nat
        /\ Cardinality(T \cap B) = Snapshots(p.at, e) - snap
    BY <1>17, SnapshotsAfter DEF snap
  <2>9. Owed(r, p, t, e) = t.funding_charges + r * ep * Rest(t) * Snapshots(p.at, e)
    BY <1>17 DEF OpenBooked, ep
  <2>10. Owed(r, p, t, e) + (-(r * ep * PartialUnits)) * (Snapshots(p.at, e) - snap)
          = (t.funding_charges + r * (ep * PartialUnits * snap))
              + r * ep * (Rest(t) - PartialUnits) * Snapshots(p.at, e)
    <3>1. PICK fu, rest, upto, owed :
              /\ fu = t.funding_charges /\ rest = Rest(t)
              /\ upto = Snapshots(p.at, e) /\ owed = Owed(r, p, t, e)
      OBVIOUS
    <3>2. /\ fu \in Int /\ rest \in Int /\ upto \in Int /\ owed \in Int /\ snap \in Int
          /\ ep \in Int /\ PartialUnits \in Int
      BY <1>1, <1>4, <1>11, <2>3, <2>8, <3>1
    <3>3. owed = fu + r * ep * rest * upto
      BY <2>9, <3>1
    <3>4. owed + (-(r * ep * PartialUnits)) * (upto - snap)
            = (fu + r * (ep * PartialUnits * snap)) + r * ep * (rest - PartialUnits) * upto
      BY <3>2, <3>3, FundingArithmetic
    <3> QED BY <3>1, <3>4
  <2>11. Owed(r, p, u, e) = Owed(r, p, t, e) + c * (Snapshots(p.at, e) - snap)
    <3> HIDE DEF T, B, c
    <3> QED BY <2>3, <2>4, <2>7, <2>8
  <2>12. u.funding_charges = t.funding_charges + r * (ep * PartialUnits * snap)
         /\ u.entry_price = ep /\ Rest(u) = Rest(t) - PartialUnits
    BY <1>3, <1>11 DEF cost
  <2>13. u.funding_charges + r * u.entry_price * Rest(u) * Snapshots(p.at, e)
           = (t.funding_charges + r * (ep * PartialUnits * snap))
               + r * ep * (Rest(t) - PartialUnits) * Snapshots(p.at, e)
    BY <2>12, Zenon
  <2>14. Owed(r, p, u, e)
           = Owed(r, p, t, e) + (-(r * ep * PartialUnits)) * (Snapshots(p.at, e) - snap)
    BY <2>11, Zenon DEF c
  <2> HIDE DEF T, B, c
  <2> QED BY <2>10, <2>13, <2>14, Zenon
<1>18. u.charges \in Int /\ u.funding_charges \in Int
  <2>1. PICK ch, fu : ch = t.charges /\ fu = t.funding_charges
    OBVIOUS
  <2>2. ch \in Int /\ fu \in Int /\ fee \in Int /\ cost \in Int
    BY <1>1, <1>4, <1>5, <2>1
  <2>3. u.charges = ch + fee + cost /\ u.funding_charges = fu + cost
    BY <1>3, <2>1
  <2> QED BY <2>2, <2>3
<1> QED BY <1>9, <1>10, <1>16, <1>17, <1>18 DEF OpenBooked

(* An exit is booked.                                                      *)
LEMMA ExitIsBooked ==
    ASSUME NEW t, NEW p, p.at \in Nat, NEW n \in Nat, NEW r \in Int, OpenBooked(r, p, t, n),
           NEW raw \in Int, NEW u, SellsRest(u, t, p, r, n, raw)
    PROVE  ClosedBooked(r, p, u)
<1> DEFINE s == Sign(t.side)
           ep == t.entry_price
           price == FillPrice(Leaving(t.side), raw)
           fee == TradingFee(price, Rest(t), ExitFee)
           snap == Snapshots(p.at, n)
           cost == r * (ep * Rest(t) * snap)
           g == PartialGross(t)
           brought == Cash(t.side, Leaving(t.side), raw, Rest(t), ExitFee)
<1>1. /\ PartsOK(t, n) /\ t.charges \in Int /\ t.funding_charges \in Int
      /\ t.side \in Sides /\ t.raw_entry \in Int /\ ep = FillPrice(Entering(t.side), t.raw_entry)
  BY DEF OpenBooked, EntryOK
<1>2. /\ u.side = t.side /\ u.raw_entry = t.raw_entry /\ u.entry_price = ep
      /\ u.partial_exits = t.partial_exits /\ u.raw_exit = raw /\ u.exit_at = n
      /\ u.net_pnl = (g + Gross(t.side, ep, price, Rest(t))) - (t.charges + fee + cost)
  BY DEF SellsRest
<1>3. g \in Int /\ Sold(t) \in Int /\ Rest(t) \in Int
  BY <1>1, PartsAreKnown
<1>4. /\ ep \in Int /\ price \in Int /\ s \in Int /\ fee \in Int /\ snap \in Int
      /\ brought \in Int /\ brought = s * price * 100 * Rest(t) - fee
  <2>1. Rest(t) \in Int /\ ExitFee \in Int
    BY <1>3, MoneyConstants
  <2>2. CashIs(t.side, raw, Rest(t), ExitFee)
    BY <1>1, <2>1, CashMoved
  <2>3. ep \in Int /\ price \in Int
    BY <1>1, FillIsKnown
  <2>4. snap \in Int
    <3>1. snap \in Nat
      BY SnapshotsCount
    <3> QED BY <3>1
  <2> QED BY <2>2, <2>3, <2>4 DEF CashIs
<1>5. Spent(t) \in Int
  <2>1. Units \in Int /\ EntryFee \in Int
    BY MoneyConstants
  <2>2. CashIs(t.side, t.raw_entry, Units, EntryFee)
    BY <1>1, <2>1, CashMoved
  <2> QED BY <2>2 DEF CashIs, Spent
<1>6. Gross(t.side, ep, price, Rest(t)) = s * (price - ep) * Rest(t) * 100
  BY DEF Gross
<1>7. g - t.charges + t.funding_charges = Spent(t) + Sold(t) + s * ep * 100 * Rest(t)
  BY DEF OpenBooked
<1>8. Owed(r, p, t, n) = t.funding_charges + r * ep * Rest(t) * snap
  BY DEF OpenBooked
<1> HIDE DEF s, ep, price, fee, snap, g, brought
<1>9. cost \in Int /\ cost = r * ep * Rest(t) * snap
  <2>1. PICK rest : rest = Rest(t)
    OBVIOUS
  <2>2. rest \in Int
    BY <1>3, <2>1
  <2>3. r * (ep * rest * snap) \in Int /\ r * (ep * rest * snap) = r * ep * rest * snap
    BY <1>4, <2>2
  <2> QED BY <2>1, <2>3
<1> HIDE DEF cost
<1>10. PICK rest, ch, fu, spent, sold :
              /\ rest = Rest(t) /\ ch = t.charges /\ fu = t.funding_charges
              /\ spent = Spent(t) /\ sold = Sold(t)
  OBVIOUS
<1>11. /\ rest \in Int /\ ch \in Int /\ fu \in Int /\ spent \in Int /\ sold \in Int
       /\ s \in Int /\ ep \in Int /\ price \in Int /\ fee \in Int /\ cost \in Int /\ g \in Int
  BY <1>1, <1>3, <1>4, <1>5, <1>9, <1>10
<1>12. g - ch + fu = spent + sold + s * ep * 100 * rest
  BY <1>7, <1>10
<1>13. (g + s * (price - ep) * rest * 100) - (ch + fee + cost)
          = spent + sold + (s * price * 100 * rest - fee) - (fu + cost)
  BY <1>11, <1>12, ExitArithmetic
<1>14. u.net_pnl = (g + s * (price - ep) * rest * 100) - (ch + fee + cost)
  BY <1>2, <1>6, <1>10
<1>15. u.net_pnl \in Int
  BY <1>11, <1>14
<1>16. /\ Spent(u) = spent /\ Sold(u) = sold /\ Rest(u) = rest
       /\ Owed(r, p, u, n) = fu + cost
  <2>1. Spent(u) = spent
    BY <1>2, <1>10 DEF Spent
  <2>2. Sold(u) = sold
    BY <1>2, <1>10 DEF Sold
  <2>3. Rest(u) = rest
    BY <1>2, <1>10 DEF Rest
  <2>4. \A m : Held(u, m) = Held(t, m)
    BY <1>2 DEF Held
  <2>5. Owed(r, p, u, n) = Owed(r, p, t, n)
    BY <1>2, <2>4 DEF Owed, ep
  <2> QED BY <1>8, <1>9, <1>10, <2>1, <2>2, <2>3, <2>5
<1>17. Cash(u.side, Leaving(u.side), u.raw_exit, Rest(u), ExitFee) = s * price * 100 * rest - fee
  BY <1>2, <1>4, <1>10, <1>16 DEF brought
<1>18. u.net_pnl = Spent(u) + Sold(u)
                     + Cash(u.side, Leaving(u.side), u.raw_exit, Rest(u), ExitFee)
                     - Owed(r, p, u, u.exit_at)
  <2>1. u.net_pnl = spent + sold + (s * price * 100 * rest - fee) - (fu + cost)
    BY <1>13, <1>14
  <2>2. u.exit_at = n
    BY <1>2
  <2> QED BY <2>1, <2>2, <1>16, <1>17, Zenon
<1> QED BY <1>15, <1>18 DEF ClosedBooked

(* The funding of a step is the rate's share of what it counts.            *)
LEMMA RateIsKnown ==
    ASSUME mode \in Modes, NEW side \in Sides
    PROVE  Rate(side) \in Int
<1>1. FundingRate \in Int /\ Modes \subseteq {"disabled", "absolute", "signed"}
  BY BacktestAssumption
<1>2. Abs(FundingRate) \in Int
  BY <1>1 DEF Abs
<1>3. FundingRate * Sign(side) \in Int
  BY <1>1 DEF Sign
<1>4. mode = "disabled" \/ mode = "absolute" \/ mode = "signed"
  BY <1>1
<1> QED BY <1>2, <1>3, <1>4 DEF Rate

LEMMA FundingIs ==
    ASSUME mode \in Modes, NEW side \in Sides, NEW price \in Int, NEW qty \in Int,
           NEW from \in Nat, NEW to \in Nat
    PROVE  Funding(side, price, qty, from, to) = Rate(side) * (price * qty * Snapshots(from, to))
<1>1. FundingRate \in Int /\ Modes \subseteq {"disabled", "absolute", "signed"}
  BY BacktestAssumption
<1>2. PICK a, b, c : a = Abs(FundingRate) /\ b = FundingRate * Sign(side)
                     /\ c = price * qty * Snapshots(from, to)
  OBVIOUS
<1>3. a \in Int /\ b \in Int
  BY <1>1, <1>2 DEF Abs, Sign
<1>4. c \in Int
  <2>1. Snapshots(from, to) \in Nat
    BY SnapshotsCount
  <2> QED BY <1>2, <2>1
<1>5. CASE mode = "disabled"
  <2>1. Funding(side, price, qty, from, to) = 0 /\ Rate(side) = 0
    BY <1>5 DEF Funding, Rate
  <2>2. 0 * c = 0
    BY <1>4
  <2> QED BY <1>2, <2>1, <2>2
<1>6. CASE mode = "absolute"
  <2>1. Funding(side, price, qty, from, to) = c * a /\ Rate(side) = a
    BY <1>2, <1>6 DEF Funding, Rate
  <2>2. c * a = a * c
    BY <1>3, <1>4
  <2> QED BY <1>2, <2>1, <2>2
<1>7. CASE mode = "signed"
  <2>1. Funding(side, price, qty, from, to) = c * FundingRate * Sign(side) /\ Rate(side) = b
    BY <1>2, <1>7 DEF Funding, Rate
  <2>2. Sign(side) \in Int
    BY DEF Sign
  <2>3. c * FundingRate * Sign(side) = FundingRate * Sign(side) * c
    BY <1>1, <1>4, <2>2
  <2> QED BY <1>2, <2>1, <2>3
<1> QED BY <1>1, <1>5, <1>6, <1>7

-----------------------------------------------------------------------------
(* The money of every trade is booked.                                     *)
MoneyOK(p) ==
    \A r, t, n : r = Rate(trades[p].side) /\ t = trades[p] /\ n = now /\ t # NoTrade =>
        /\ t.status = "OPEN" => OpenBooked(r, p, t, n)
        /\ t.status = "CLOSED" => ClosedBooked(r, p, t)

(* A handler runs at a bar, and so at a minute that is stored.             *)
HasClose(i) == \E m \in DOMAIN history[i] : m < now
PricesOK == \A k \in DOMAIN queue : HasClose(queue[k][2])

MoneyInv == mode \in Modes /\ PricesOK /\ \A p \in PosIds : MoneyOK(p)

(* Nothing has been traded.                                                *)
LEMMA MoneyStarts ==
    ASSUME Init
    PROVE  MoneyInv
<1>1. mode \in Modes /\ queue = <<>> /\ trades = [p \in PosIds |-> NoTrade]
  BY DEF Init
<1>2. PricesOK
  BY <1>1 DEF PricesOK
<1>3. \A p \in PosIds : MoneyOK(p)
  BY <1>1 DEF MoneyOK
<1> QED BY <1>1, <1>2, <1>3 DEF MoneyInv

(* The close a handler enters at is a stored one.                          *)
LEMMA CloseIsKnown ==
    ASSUME FeedInv, NEW i \in Instruments, HasClose(i)
    PROVE  CloseOf(i) \in Int
<1> DEFINE S == {m \in DOMAIN history[i] : m < now}
<1>1. history \in Histories
  BY DEF FeedInv, ReplayOK
<1>2. S \in SUBSET DOMAIN history[i] /\ S # {}
  BY DEF HasClose
<1>3. \A m \in DOMAIN history[i] : history[i][m] \in Int
  BY <1>1, BacktestAssumption
<1>4. CloseOf(i) = history[i][MaxOf(S)]
  BY DEF CloseOf
<1> HIDE DEF S
<1>5. S \in SUBSET Int /\ IsFiniteSet(S)
  <2>1. S \in SUBSET Nat /\ IsFiniteSet(S)
    BY <1>1, <1>2, Stored
  <2> QED BY <2>1
<1>6. MaxOf(S) \in S
  BY <1>2, <1>5, HasMax
<1> QED BY <1>2, <1>3, <1>4, <1>6

(* What the record of a new trade says is what it cost.                    *)
LEMMA EnterBooks ==
    ASSUME FeedInv, BookInv, MoneyInv, NEW s \in Ssus, NEW i \in Instruments, Enter(s, i)
    PROVE  \E p \in PosIds :
             /\ \A q \in PosIds \ {p} : trades'[q] = trades[q]
             /\ \A r \in Int : OpenBooked(r, p, trades'[p], now)
             /\ trades'[p].status = "OPEN"
<1>1. PICK side, p, raw, price :
        /\ side \in Sides
        /\ p = [ssu |-> s, instrument |-> i, at |-> now] /\ raw = CloseOf(i)
        /\ price = FillPrice(Entering(side), raw)
        /\ trades' = [trades EXCEPT ![p] =
                    [side |-> side, status |-> "OPEN", remaining_qty |-> Units,
                     raw_entry |-> raw, entry_price |-> price,
                     raw_exit |-> 0, exit_at |-> 0,
                     charges |-> TradingFee(price, Units, EntryFee),
                     funding_charges |-> 0, gross_pnl |-> 0, net_pnl |-> 0,
                     partial_exits |-> <<>>]]
  BY Zenon DEF Enter
<1>2. queue # <<>> /\ Head(queue) = <<s, i>>
  BY DEF Enter, Runs
<1>3. Head(queue) = queue[1] /\ 1 \in DOMAIN queue
  BY <1>2, QueueMovesOn DEF BookInv
<1>4. HasClose(i)
  <2>1. HasClose(queue[1][2])
    BY <1>3 DEF MoneyInv, PricesOK
  <2>2. queue[1][2] = i
    BY <1>2, <1>3
  <2> QED BY <2>1, <2>2
<1>5. raw \in Int
  BY <1>1, <1>4, CloseIsKnown
<1>6. now \in Times /\ now \in Nat
  BY <1>3, FeedConstants DEF BookInv, QueueOK
<1>7. p \in PosIds /\ p.at \in Nat
  BY <1>1, <1>6 DEF PosIds
<1>8. DOMAIN trades = PosIds
  BY DEF BookInv, BookTypes
<1>9. PICK t : t = trades'[p]
  OBVIOUS
<1>10. /\ t.side = side /\ t.status = "OPEN" /\ t.raw_entry = raw /\ t.entry_price = price
       /\ t.charges = TradingFee(price, Units, EntryFee)
       /\ t.funding_charges = 0 /\ t.partial_exits = <<>>
  BY <1>1, <1>7, <1>8, <1>9
<1>11. EntryOK(t)
  BY <1>1, <1>5, <1>10 DEF EntryOK
<1>12. ASSUME NEW r \in Int PROVE OpenBooked(r, p, t, now)
  <2>1. t.charges = TradingFee(t.entry_price, Units, EntryFee)
    BY <1>10
  <2> QED BY <1>6, <1>7, <1>10, <1>11, <2>1, EntryIsBooked
<1>13. \A q \in PosIds \ {p} : trades'[q] = trades[q]
  BY <1>1, <1>8
<1> QED BY <1>7, <1>9, <1>10, <1>12, <1>13

(* What a part leaves is booked.                                           *)
LEMMA PartialBooks ==
    ASSUME FeedInv, BookInv, MoneyInv, NEW s \in Ssus, NEW i \in Instruments, Partial(s, i)
    PROVE  \E p \in PosIds :
             /\ \A q \in PosIds \ {p} : trades'[q] = trades[q]
             /\ OpenBooked(Rate(trades'[p].side), p, trades'[p], now)
             /\ trades'[p].status = "OPEN"
<1>1. PICK p \in Managed(s, i) : \E q \in Target(s, i, positions[p].side, p) :
        \E level, raw :
             /\ raw \in ExitPrices
             /\ trades' = [trades EXCEPT ![q] = Parted(@, q, level, raw)]
  BY Zenon DEF Partial
<1>2. /\ p \in PosIds /\ Target(s, i, positions[p].side, p) = {p}
      /\ IsTrade(trades[p]) /\ trades[p] # NoTrade /\ trades[p].status = "OPEN"
  BY TargetIsManaged
<1>3. DOMAIN trades = PosIds
  BY DEF BookInv, BookTypes
<1>4. PICK level, raw :
        /\ raw \in ExitPrices
        /\ trades' = [trades EXCEPT ![p] = Parted(trades[p], p, level, raw)]
  BY <1>1, <1>2
<1>5. PICK t, u, r, n : t = trades[p] /\ u = trades'[p] /\ r = Rate(t.side) /\ n = now
  OBVIOUS
<1>6. OpenBooked(r, p, t, n)
  BY <1>2, <1>5 DEF MoneyInv, MoneyOK
<1>7. /\ PartsOK(t, n) /\ t.side \in Sides /\ t.raw_entry \in Int
      /\ t.entry_price = FillPrice(Entering(t.side), t.raw_entry)
  BY <1>6 DEF OpenBooked, EntryOK
<1>8. r \in Int
  BY <1>5, <1>7, RateIsKnown DEF MoneyInv
<1>9. n \in Nat /\ p.at \in Nat
  <2>1. now \in Nat
    <3>1. now \in 0..MaxTime /\ MaxTime \in Nat
      BY FeedConstants DEF FeedInv, ReplayOK
    <3> QED BY <3>1
  <2>2. p.at \in Times /\ Times \subseteq Nat
    BY <1>2, FeedConstants DEF PosIds
  <2> QED BY <1>5, <2>1, <2>2
<1>10. raw \in Int /\ PartialUnits \in Int /\ t.entry_price \in Int
  <2>1. raw \in Int /\ PartialUnits \in Int
    BY <1>4, MoneyConstants
  <2> QED BY <1>7, <2>1, FillIsKnown
<1> DEFINE price == FillPrice(Leaving(t.side), raw)
           cost == r * (t.entry_price * PartialUnits * Snapshots(p.at, n))
           part == [level |-> level, raw |-> raw, exit_at |-> n,
                    gross_pnl |-> Gross(t.side, t.entry_price, price, PartialUnits)]
<1>11. Funding(t.side, t.entry_price, PartialUnits, p.at, n) = cost
  <2>1. PICK side, ep, qty, from :
          side = t.side /\ ep = t.entry_price /\ qty = PartialUnits /\ from = p.at
    OBVIOUS
  <2>2. mode \in Modes /\ side \in Sides /\ ep \in Int /\ qty \in Int /\ from \in Nat /\ n \in Nat
    BY <1>7, <1>9, <1>10, <2>1 DEF MoneyInv
  <2>3. Funding(side, ep, qty, from, n) = Rate(side) * (ep * qty * Snapshots(from, n))
    BY <2>2, FundingIs
  <2> QED BY <1>5, <2>1, <2>3
<1>12. u = [t EXCEPT !.remaining_qty = @ - PartialUnits, !.funding_charges = @ + cost,
                  !.charges = @ + TradingFee(price, PartialUnits, ExitFee) + cost,
                  !.partial_exits = Append(@, part)]
  <2>1. u = Parted(t, p, level, raw)
    BY <1>2, <1>3, <1>4, <1>5
  <2> QED BY <1>5, <1>11, <2>1, Zenon DEF Parted
<1>13. DOMAIN t = {"side", "status", "remaining_qty", "raw_entry", "entry_price", "raw_exit",
                   "exit_at", "charges", "funding_charges", "gross_pnl", "net_pnl",
                   "partial_exits"}
  BY <1>2, <1>5 DEF IsTrade
<1> HIDE DEF cost, part
<1>14. /\ u.side = t.side /\ u.raw_entry = t.raw_entry /\ u.entry_price = t.entry_price
       /\ u.status = t.status
       /\ u.funding_charges = t.funding_charges + cost
       /\ u.charges = t.charges + TradingFee(price, PartialUnits, ExitFee) + cost
       /\ u.partial_exits = Append(t.partial_exits, part)
  BY <1>12, <1>13
<1>15. part.raw = raw /\ part.exit_at = n
       /\ part.gross_pnl = Gross(t.side, t.entry_price, price, PartialUnits)
  BY DEF part
<1>16. SellsPart(u, t, p, r, n, raw)
  BY <1>14, <1>15, Zenon DEF SellsPart, cost
<1>17. OpenBooked(r, p, u, n)
  BY <1>6, <1>8, <1>9, <1>10, <1>16, PartIsBooked
<1>18. \A q \in PosIds \ {p} : trades'[q] = trades[q]
  BY <1>3, <1>4
<1> QED BY <1>2, <1>5, <1>14, <1>17, <1>18

(* What an exit leaves is booked.                                          *)
LEMMA CloseBooks ==
    ASSUME FeedInv, BookInv, MoneyInv, NEW s \in Ssus, NEW i \in Instruments, Close(s, i)
    PROVE  \E p \in PosIds :
             /\ \A q \in PosIds \ {p} : trades'[q] = trades[q]
             /\ ClosedBooked(Rate(trades'[p].side), p, trades'[p])
             /\ trades'[p].status = "CLOSED"
<1>1. PICK p \in Managed(s, i), raw \in ExitPrices :
        \E q \in Target(s, i, positions[p].side, p) :
             trades' = [trades EXCEPT ![q] = Settled(@, q, raw)]
  BY Zenon DEF Close
<1>2. /\ p \in PosIds /\ Target(s, i, positions[p].side, p) = {p}
      /\ IsTrade(trades[p]) /\ trades[p] # NoTrade /\ trades[p].status = "OPEN"
  BY TargetIsManaged
<1>3. DOMAIN trades = PosIds
  BY DEF BookInv, BookTypes
<1>4. trades' = [trades EXCEPT ![p] = Settled(trades[p], p, raw)]
  BY <1>1, <1>2
<1>5. PICK t, u, r, n : t = trades[p] /\ u = trades'[p] /\ r = Rate(t.side) /\ n = now
  OBVIOUS
<1>6. OpenBooked(r, p, t, n)
  BY <1>2, <1>5 DEF MoneyInv, MoneyOK
<1>7. /\ PartsOK(t, n) /\ t.side \in Sides /\ t.raw_entry \in Int
      /\ t.entry_price = FillPrice(Entering(t.side), t.raw_entry)
  BY <1>6 DEF OpenBooked, EntryOK
<1>8. r \in Int
  BY <1>5, <1>7, RateIsKnown DEF MoneyInv
<1>9. n \in Nat /\ p.at \in Nat
  <2>1. now \in Nat
    <3>1. now \in 0..MaxTime /\ MaxTime \in Nat
      BY FeedConstants DEF FeedInv, ReplayOK
    <3> QED BY <3>1
  <2>2. p.at \in Times /\ Times \subseteq Nat
    BY <1>2, FeedConstants DEF PosIds
  <2> QED BY <1>5, <2>1, <2>2
<1>10. raw \in Int /\ t.entry_price \in Int /\ Rest(t) \in Int
  BY <1>7, MoneyConstants, FillIsKnown, PartsAreKnown
<1>11. t.remaining_qty = Rest(t)
  <2>1. t.remaining_qty = IF t.status = "CLOSED" THEN 0
                                  ELSE Units - Len(t.partial_exits) * PartialUnits
    BY <1>2, <1>5, AgreementInParts DEF BookInv, TradeAgrees
  <2> QED BY <1>2, <1>5, <2>1 DEF Rest
<1> DEFINE price == FillPrice(Leaving(t.side), raw)
           cost == r * (t.entry_price * Rest(t) * Snapshots(p.at, n))
           all == t.charges + TradingFee(price, Rest(t), ExitFee) + cost
           gross == PartialGross(t) + Gross(t.side, t.entry_price, price, Rest(t))
<1>12. Funding(t.side, t.entry_price, t.remaining_qty, p.at, n) = cost
  <2>1. PICK side, ep, qty, from :
          side = t.side /\ ep = t.entry_price /\ qty = t.remaining_qty /\ from = p.at
    OBVIOUS
  <2>2. mode \in Modes /\ side \in Sides /\ ep \in Int /\ qty \in Int /\ from \in Nat /\ n \in Nat
    BY <1>7, <1>9, <1>10, <1>11, <2>1 DEF MoneyInv
  <2>3. Funding(side, ep, qty, from, n) = Rate(side) * (ep * qty * Snapshots(from, n))
    BY <2>2, FundingIs
  <2> QED BY <1>5, <1>11, <2>1, <2>3
<1>13. u = [t EXCEPT !.status = "CLOSED", !.raw_exit = raw, !.exit_at = n,
                  !.funding_charges = @ + cost, !.charges = all,
                  !.gross_pnl = gross, !.net_pnl = gross - all, !.remaining_qty = 0]
  <2>1. u = Settled(t, p, raw)
    BY <1>2, <1>3, <1>4, <1>5
  <2> QED BY <1>5, <1>11, <1>12, <2>1, Zenon DEF Settled
<1>14. DOMAIN t = {"side", "status", "remaining_qty", "raw_entry", "entry_price", "raw_exit",
                   "exit_at", "charges", "funding_charges", "gross_pnl", "net_pnl",
                   "partial_exits"}
  BY <1>2, <1>5 DEF IsTrade
<1> HIDE DEF cost, all, gross
<1>15. /\ u.side = t.side /\ u.raw_entry = t.raw_entry /\ u.entry_price = t.entry_price
       /\ u.status = "CLOSED" /\ u.raw_exit = raw /\ u.exit_at = n
       /\ u.partial_exits = t.partial_exits /\ u.net_pnl = gross - all
  BY <1>13, <1>14
<1>16. SellsRest(u, t, p, r, n, raw)
  BY <1>15, Zenon DEF SellsRest, cost, all, gross
<1>17. ClosedBooked(r, p, u)
  BY <1>6, <1>8, <1>9, <1>10, <1>16, ExitIsBooked
<1>18. \A q \in PosIds \ {p} : trades'[q] = trades[q]
  BY <1>3, <1>4
<1> QED BY <1>2, <1>5, <1>15, <1>17, <1>18

(* The handlers of a new group run at bars, whose minutes are stored.      *)
LEMMA GroupHasPrices ==
    ASSUME FeedInv, NextGroup
    PROVE  PricesOK'
<1>1. PICK n \in 1..Len(replay) :
        /\ \A k \in 1..n : replay[k].end = now'
        /\ queue' = Handlers(GroupOf(n))
  BY GroupTaken
<1>2. PICK seq : seq = queue'
  OBVIOUS
<1>3. \A k \in DOMAIN seq : \E b \in GroupOf(n) : b.instrument = seq[k][2]
  BY <1>1, <1>2, HandlersInOrder
<1>4. history' = history /\ history \in Histories
  BY DEF NextGroup, FeedInv, ReplayOK
<1>5. Len(replay) \in Nat /\ \A k \in 1..Len(replay) : replay[k] \in Bars
  BY LenProperties, ElementOfSeq DEF FeedInv, ReplayOK
<1>6. ASSUME NEW k \in DOMAIN seq
      PROVE  \E m \in DOMAIN history[seq[k][2]] : m < now'
  <2>1. PICK b \in GroupOf(n) : b.instrument = seq[k][2]
    BY <1>3
  <2>2. PICK j \in 1..n : b = replay[j]
    BY <2>1 DEF GroupOf
  <2>3. b \in Bars /\ b.end = now'
    <3>1. j \in 1..Len(replay)
      BY <1>5
    <3> QED BY <1>1, <1>5, <2>2, <3>1
  <2>4. PICK i, f, M : i = b.instrument /\ f = b.factor /\ M = LoadBetween(i)
    OBVIOUS
  <2>5. i \in Instruments /\ f \in Nat \ {0} /\ now' \in ReplayEnds(i, f)
    BY <1>4, <2>3, <2>4, BarsAreFinite, FeedConstants
  <2>6. M \in SUBSET DOMAIN history[i]
    BY <2>4 DEF LoadBetween
  <2>7. M \in SUBSET Nat /\ IsFiniteSet(M)
    BY <1>4, <2>5, <2>6, Stored
  <2>8. now' \in Aggregate(M, f)
    BY <2>4, <2>5 DEF ReplayEnds
  <2>9. \E m \in M : m < now'
    <3>1. PICK e : e = now'
      OBVIOUS
    <3>2. e \in Aggregate(M, f)
      BY <2>8, <3>1
    <3>3. \E m \in M : m < e
      BY <2>5, <2>7, <3>2, Aggregated
    <3> QED BY <3>1, <3>3
  <2> QED BY <2>1, <2>4, <2>6, <2>9
<1> QED BY <1>2, <1>4, <1>6 DEF PricesOK, HasClose

(* The book that an action leaves.                                         *)
LEMMA MoneyStays ==
    ASSUME MoneyInv, BookInv, UNCHANGED <<mode, now>>, NEW p \in PosIds,
           \A q \in PosIds \ {p} : trades'[q] = trades[q],
           \/ trades'[p].status = "OPEN" /\ OpenBooked(Rate(trades'[p].side), p, trades'[p], now)
           \/ trades'[p].status = "CLOSED" /\ ClosedBooked(Rate(trades'[p].side), p, trades'[p])
    PROVE  mode' \in Modes /\ \A q \in PosIds : MoneyOK(q)'
<1>1. mode' = mode /\ now' = now
  OBVIOUS
<1>2. \A x : Rate(x)' = Rate(x)
  BY <1>1 DEF Rate
<1>3. ASSUME NEW q \in PosIds, q # p PROVE MoneyOK(q)'
  <2>1. trades'[q] = trades[q]
    BY <1>3
  <2>2. Rate(trades[q].side)' = Rate(trades[q].side)
    BY <1>1, <2>1 DEF Rate
  <2>3. MoneyOK(q)
    BY DEF MoneyInv
  <2> QED BY <1>1, <2>1, <2>2, <2>3 DEF MoneyOK
<1>4. MoneyOK(p)'
  <2>1. Rate(trades[p].side)' = Rate(trades'[p].side)
    BY <1>1 DEF Rate
  <2> QED BY <1>1, <2>1 DEF MoneyOK
<1> QED BY <1>1, <1>3, <1>4 DEF MoneyInv

(* Nothing else adds to the queue.                                         *)
LEMMA PricesStay ==
    ASSUME MoneyInv, UNCHANGED feed, queue' = queue
    PROVE  PricesOK'
BY DEF MoneyInv, PricesOK, HasClose, feed

LEMMA PricesMoveOn ==
    ASSUME MoneyInv, BookInv, UNCHANGED feed, queue # <<>>, queue' = Tail(queue)
    PROVE  PricesOK'
<1>1. \A k \in DOMAIN queue' : k + 1 \in DOMAIN queue /\ queue'[k] = queue[k + 1]
  BY QueueMovesOn DEF BookInv
<1>2. history' = history /\ now' = now
  BY DEF feed
<1> QED BY <1>1, <1>2 DEF MoneyInv, PricesOK, HasClose

(* Where the trades stay, what they booked stays true as time goes by.     *)
LEMMA TradesStay ==
    ASSUME MoneyInv, mode' = mode, trades' = trades, now \in Nat, now' \in Nat, now <= now'
    PROVE  \A p \in PosIds : MoneyOK(p)'
<1> SUFFICES ASSUME NEW p \in PosIds PROVE MoneyOK(p)'
  OBVIOUS
<1>1. Rate(trades[p].side)' = Rate(trades[p].side)
  BY DEF Rate
<1>2. PICK r, t, n, l : r = Rate(trades[p].side) /\ t = trades[p] /\ n = now /\ l = now'
  OBVIOUS
<1>3. t # NoTrade => /\ t.status = "OPEN" => OpenBooked(r, p, t, n)
                     /\ t.status = "CLOSED" => ClosedBooked(r, p, t)
  BY <1>2 DEF MoneyInv, MoneyOK
<1>4. OpenBooked(r, p, t, n) => OpenBooked(r, p, t, l)
  BY <1>2, BookedLater
<1> QED BY <1>1, <1>2, <1>3, <1>4 DEF MoneyOK

(* Every step keeps the money booked.                                      *)
LEMMA MoneySteps ==
    ASSUME FeedInv, BookInv, MoneyInv, [Next]_vars
    PROVE  MoneyInv'
<1>1. now \in Nat
  <2>1. now \in 0..MaxTime /\ MaxTime \in Nat
    BY FeedConstants DEF FeedInv, ReplayOK
  <2> QED BY <2>1
<1>2. CASE NextGroup
  <2>1. now' \in Times /\ now < now'
    BY <1>2, GroupTaken
  <2>2. now' \in Nat
    BY <2>1, FeedConstants
  <2>3. mode' = mode /\ trades' = trades
    BY <1>2 DEF NextGroup
  <2>4. \A p \in PosIds : MoneyOK(p)'
    BY <1>1, <2>1, <2>2, <2>3, TradesStay
  <2>5. PricesOK'
    BY <1>2, GroupHasPrices
  <2> QED BY <2>3, <2>4, <2>5 DEF MoneyInv
<1>3. CASE Pass
  <2>1. UNCHANGED feed /\ trades' = trades /\ queue # <<>> /\ queue' = Tail(queue)
    BY <1>3 DEF Pass
  <2>2. mode' = mode /\ now' = now
    BY <2>1 DEF feed
  <2>3. \A p \in PosIds : MoneyOK(p)'
    BY <1>1, <2>1, <2>2, TradesStay
  <2>4. PricesOK'
    BY <2>1, PricesMoveOn
  <2> QED BY <2>2, <2>3, <2>4 DEF MoneyInv
<1>4. CASE Done \/ UNCHANGED vars
  <2>1. UNCHANGED feed /\ trades' = trades /\ queue' = queue
    BY <1>4 DEF Done, vars
  <2>2. mode' = mode /\ now' = now
    BY <2>1 DEF feed
  <2>3. \A p \in PosIds : MoneyOK(p)'
    BY <1>1, <2>1, <2>2, TradesStay
  <2>4. PricesOK'
    BY <2>1, PricesStay
  <2> QED BY <2>2, <2>3, <2>4 DEF MoneyInv
<1>5. ASSUME NEW s \in Ssus, NEW i \in Instruments, Partial(s, i)
      PROVE  MoneyInv'
  <2>1. UNCHANGED feed /\ queue' = queue /\ UNCHANGED <<mode, now>>
    BY <1>5 DEF Partial, feed
  <2>2. PICK p \in PosIds :
             /\ \A q \in PosIds \ {p} : trades'[q] = trades[q]
             /\ OpenBooked(Rate(trades'[p].side), p, trades'[p], now)
             /\ trades'[p].status = "OPEN"
    BY <1>5, PartialBooks
  <2>3. mode' \in Modes /\ \A q \in PosIds : MoneyOK(q)'
    BY <2>1, <2>2, MoneyStays
  <2>4. PricesOK'
    BY <2>1, PricesStay
  <2> QED BY <2>3, <2>4 DEF MoneyInv
<1>6. ASSUME NEW s \in Ssus, NEW i \in Instruments, Close(s, i)
      PROVE  MoneyInv'
  <2>1. UNCHANGED feed /\ queue' = queue /\ UNCHANGED <<mode, now>>
    BY <1>6 DEF Close, feed
  <2>2. PICK p \in PosIds :
             /\ \A q \in PosIds \ {p} : trades'[q] = trades[q]
             /\ ClosedBooked(Rate(trades'[p].side), p, trades'[p])
             /\ trades'[p].status = "CLOSED"
    BY <1>6, CloseBooks
  <2>3. mode' \in Modes /\ \A q \in PosIds : MoneyOK(q)'
    BY <2>1, <2>2, MoneyStays
  <2>4. PricesOK'
    BY <2>1, PricesStay
  <2> QED BY <2>3, <2>4 DEF MoneyInv
<1>7. ASSUME NEW s \in Ssus, NEW i \in Instruments, Enter(s, i)
      PROVE  MoneyInv'
  <2>1. UNCHANGED feed /\ queue # <<>> /\ queue' = Tail(queue) /\ UNCHANGED <<mode, now>>
    BY <1>7 DEF Enter, Runs, feed
  <2>2. PICK p \in PosIds :
             /\ \A q \in PosIds \ {p} : trades'[q] = trades[q]
             /\ \A r \in Int : OpenBooked(r, p, trades'[p], now)
             /\ trades'[p].status = "OPEN"
    BY <1>7, EnterBooks
  <2>3. OpenBooked(Rate(trades'[p].side), p, trades'[p], now)
    <3>1. OpenBooked(0, p, trades'[p], now)
      BY <2>2
    <3>2. trades'[p].side \in Sides
      BY <3>1 DEF OpenBooked, EntryOK
    <3>3. Rate(trades'[p].side) \in Int
      BY <3>2, RateIsKnown DEF MoneyInv
    <3> QED BY <2>2, <3>3
  <2>4. mode' \in Modes /\ \A q \in PosIds : MoneyOK(q)'
    BY <2>1, <2>2, <2>3, MoneyStays
  <2>5. PricesOK'
    BY <2>1, PricesMoveOn
  <2> QED BY <2>4, <2>5 DEF MoneyInv
<1> QED BY <1>2, <1>3, <1>4, <1>5, <1>6, <1>7 DEF Next

(* Together: the bars, the book and its money.                             *)
LEMMA MoneyInvariant == Spec => [](FeedInv /\ BookInv /\ MoneyInv)
<1>1. Init => FeedInv /\ BookInv /\ MoneyInv
  BY FeedStarts, BookStarts, MoneyStarts
<1>2. FeedInv /\ BookInv /\ MoneyInv /\ [Next]_vars => (FeedInv /\ BookInv /\ MoneyInv)'
  BY FeedSteps, BookSteps, MoneySteps
<1> QED BY <1>1, <1>2, PTL DEF Spec

-----------------------------------------------------------------------------
(* The summary of a report.                                                *)

(* A closed trade was left within the times of the backtest, and its net   *)
(* P&L is the cash it moved.                                               *)
LEMMA ClosedIsCash ==
    ASSUME BookInv, MoneyInv, NEW s \in Ssus, NEW p \in ClosedOf(s)
    PROVE  /\ p \in PosIds /\ p.ssu = s
           /\ trades[p].exit_at \in Nat /\ trades[p].exit_at <= MaxTime
           /\ trades[p].net_pnl \in Int /\ trades[p].net_pnl = CashOf(p, trades[p])
<1>1. p \in PosIds /\ p.ssu = s /\ trades[p] # NoTrade /\ trades[p].status = "CLOSED"
  BY DEF ClosedOf
<1>2. positions[p] # NoRow /\ trades[p].exit_at = positions[p].exit_at
  BY <1>1, AgreementInParts DEF BookInv, TradeAgrees
<1>3. positions[p] \in Rows
  BY <1>1, <1>2 DEF BookInv, BookTypes
<1>4. trades[p].exit_at \in Nat /\ trades[p].exit_at <= MaxTime
  BY <1>2, <1>3, BookConstants DEF Rows
<1>5. PICK r, t : r = Rate(t.side) /\ t = trades[p]
  OBVIOUS
<1>6. ClosedBooked(r, p, t)
  BY <1>1, <1>5 DEF MoneyInv, MoneyOK
<1>7. FundingPaid(p, t) = Owed(r, p, t, t.exit_at)
  BY <1>5 DEF FundingPaid, Owed, DueMinutes
<1>8. t.net_pnl \in Int /\ t.net_pnl = CashOf(p, t)
  BY <1>6, <1>7 DEF ClosedBooked, CashOf, Spent, Sold, Rest
<1> QED BY <1>1, <1>4, <1>5, <1>8

(* The closed trades of an SSU, in the order of their exits.               *)
LEMMA ExitsInOrder ==
    ASSUME BookInv, MoneyInv, NEW s \in Ssus,
           NEW C, C = ClosedOf(s), NEW order, order = Sorted(ClosedOf(s), ExitOrder),
           NEW at, at = [p \in C |-> trades[p].exit_at]
    PROVE  /\ DOMAIN order = 1..Cardinality(C)
           /\ Sorts(order, Cardinality(C), C, at)
<1> DEFINE n == Cardinality(C)
           Before(p, q) ==
              \/ at[p] < at[q]
              \/ at[p] = at[q] /\ p.instrument < q.instrument
              \/ at[p] = at[q] /\ p.instrument = q.instrument /\ p.at < q.at
           R == {x \in C \X C : Before(x[1], x[2])}
<1>1. C \in SUBSET PosIds /\ IsFiniteSet(C)
  <2>1. C \in SUBSET PosIds
    BY DEF ClosedOf
  <2> QED BY <2>1, PosIdsAreFinite
<1>2. \A p \in C : /\ at[p] \in Nat /\ p.instrument \in Int /\ p.at \in Int
                   /\ p = [ssu |-> s, instrument |-> p.instrument, at |-> p.at]
  <2> TAKE p \in C
  <2>1. p \in PosIds /\ p.ssu = s /\ at[p] \in Nat
    BY ClosedIsCash
  <2>2. Instruments \subseteq Int /\ Times \subseteq Int
    BY BacktestAssumption, FeedConstants
  <2>3. p.instrument \in Int /\ p.at \in Int
    BY <2>1, <2>2 DEF PosIds
  <2>4. p = [ssu |-> p.ssu, instrument |-> p.instrument, at |-> p.at]
    BY <2>1 DEF PosIds
  <2> QED BY <2>1, <2>3, <2>4
<1>3. \A p, q \in C : ExitOrder(p, q) <=> Before(p, q)
  BY DEF ExitOrder
<1>4. order = [k \in 1..n |-> CHOOSE x \in C : Cardinality({y \in C : Before(y, x)}) = k - 1]
  <2>1. \A x \in C : {y \in C : ExitOrder(y, x)} = {y \in C : Before(y, x)}
    BY <1>3
  <2>2. order = [k \in 1..n |-> CHOOSE x \in C : Cardinality({y \in C : ExitOrder(y, x)}) = k - 1]
    <3>1. Sorted(C, ExitOrder) = [k \in 1..Cardinality(C) |->
              CHOOSE x \in C : Cardinality({y \in C : ExitOrder(y, x)}) = k - 1]
      BY DEF Sorted
    <3> QED BY <3>1
  <2> HIDE DEF Before, n
  <2>3. \A k : (CHOOSE x \in C : Cardinality({y \in C : ExitOrder(y, x)}) = k - 1)
                 = (CHOOSE x \in C : Cardinality({y \in C : Before(y, x)}) = k - 1)
    BY <2>1
  <2> QED BY <2>2, <2>3
<1>5. \A a, b \in C : <<a, b>> \in R <=> Before(a, b)
  OBVIOUS
<1> HIDE DEF R
<1>6. IsOrder(R, C)
  <2>1. \A x \in C : <<x, x>> \notin R
    BY <1>2, <1>5
  <2>2. \A x, y, z \in C : <<x, y>> \in R /\ <<y, z>> \in R => <<x, z>> \in R
    BY <1>2, <1>5
  <2>3. \A x, y \in C : x.instrument = y.instrument /\ x.at = y.at => x = y
    <3> TAKE x, y \in C
    <3> HAVE x.instrument = y.instrument /\ x.at = y.at
    <3>1. x = [ssu |-> s, instrument |-> x.instrument, at |-> x.at]
          /\ y = [ssu |-> s, instrument |-> y.instrument, at |-> y.at]
      BY <1>2
    <3> QED BY <3>1
  <2>4. \A x, y \in C : x = y \/ <<x, y>> \in R \/ <<y, x>> \in R
    <3> TAKE x, y \in C
    <3>1. /\ x.instrument \in Int /\ y.instrument \in Int /\ x.at \in Int /\ y.at \in Int
          /\ at[x] \in Int /\ at[y] \in Int
      BY <1>2
    <3>2. Before(x, y) \/ Before(y, x) \/ (x.instrument = y.instrument /\ x.at = y.at)
      BY <3>1
    <3> HIDE DEF Before
    <3> QED BY <1>5, <2>3, <3>2
  <2> QED BY <2>1, <2>2, <2>4 DEF IsOrder
<1>7. \A x, y \in C : <<x, y>> \in R => at[x] <= at[y]
  BY <1>2, <1>5
<1> HIDE DEF Before
<1>8. n \in Nat
  BY <1>1, FS_CardinalityType
<1>9. \A x \in C : Rank(x, R, C) = Cardinality({y \in C : Before(y, x)})
  <2> TAKE x \in C
  <2>1. {y \in C : <<y, x>> \in R} = {y \in C : Before(y, x)}
    BY <1>5
  <2> QED BY <2>1 DEF Rank
<1>10. ByRank(order, R, C)
  <2> SUFFICES ASSUME NEW k \in 1..n, NEW z \in C, Rank(z, R, C) = k - 1
               PROVE  order[k] \in C /\ Rank(order[k], R, C) = k - 1
    BY DEF ByRank
  <2>1. order[k] = CHOOSE x \in C : Cardinality({y \in C : Before(y, x)}) = k - 1
    BY <1>4
  <2>2. Cardinality({y \in C : Before(y, z)}) = k - 1
    BY <1>9
  <2>3. order[k] \in C /\ Cardinality({y \in C : Before(y, order[k])}) = k - 1
    BY <2>1, <2>2
  <2> QED BY <1>9, <2>3
<1>11. InOrder(order, R, C)
  BY <1>1, <1>6, <1>10, RankedInOrder
<1>12. DOMAIN order = 1..n /\ order \in [1..n -> C]
  BY <1>4, <1>11 DEF InOrder
<1>13. \A j, k \in 1..n : order[j] = order[k] => j = k
  <2> SUFFICES ASSUME NEW j \in 1..n, NEW k \in 1..n, j # k PROVE order[j] # order[k]
    OBVIOUS
  <2>1. j < k \/ k < j
    <3> HIDE DEF n
    <3> QED BY <1>8
  <2> QED BY <1>6, <1>11, <2>1 DEF IsOrder, InOrder
<1>14. at \in [C -> Nat]
  BY <1>2
<1>15. \A j, k \in 1..n : j < k => at[order[j]] <= at[order[k]]
  BY <1>7, <1>11 DEF InOrder
<1>16. \A x \in C : \E k \in 1..n : order[k] = x
  BY <1>11 DEF InOrder
<1> QED BY <1>8, <1>12, <1>13, <1>14, <1>15, <1>16 DEF Sorts

(* The summary of the report is made of the cash of the trades.            *)
LEMMA SummaryIsCash ==
    ASSUME BookInv, MoneyInv
    PROVE  NetIsCash
<1> SUFFICES ASSUME NEW s \in Ssus
             PROVE  LET exits == {trades[p].exit_at : p \in ClosedOf(s)} \cup {0}
                        worst == MaxOf({RealisedBy(s, x[1]) - RealisedBy(s, x[2]) :
                              x \in {y \in exits \X exits : y[1] <= y[2]}})
                    IN  /\ \A p \in ClosedOf(s) : trades[p].net_pnl = CashOf(p, trades[p])
                        /\ SummaryOf(s).net_pnl = RealisedBy(s, MaxTime)
                        /\ SummaryOf(s).max_drawdown >= worst
                        /\ Cardinality(exits) = Cardinality(ClosedOf(s)) + 1 =>
                              SummaryOf(s).max_drawdown = worst
  BY Zenon DEF NetIsCash
<1>1. PICK C, order, at, net, v, n :
        /\ C = ClosedOf(s) /\ order = Sorted(ClosedOf(s), ExitOrder)
        /\ at = [p \in C |-> trades[p].exit_at] /\ net = [p \in C |-> trades[p].net_pnl]
        /\ v = NetValues(s) /\ n = Cardinality(C)
  OBVIOUS
<1>2. DOMAIN order = 1..n /\ Sorts(order, n, C, at)
  BY <1>1, ExitsInOrder
<1>3. IsFiniteSet(C) /\ order \in [1..n -> C]
  BY <1>2, SortedIsFinite DEF Sorts
<1>4. \A p \in C : trades[p].net_pnl \in Int
  BY <1>1, ClosedIsCash
<1>5. IntsOn(net, C)
  BY <1>1, <1>3, <1>4 DEF IntsOn
<1>6. Lists(v, net, order, n)
  BY <1>1, <1>2, <1>3 DEF Lists, NetValues
<1>7. \A c \in C : at[c] <= MaxTime
  BY <1>1, ClosedIsCash
<1>8. /\ SumFunction(v) = SoFar(net, C, at, MaxTime)
      /\ MaxDrawdown(v) >= MaxOf(FallsBetween(net, C, at))
      /\ Cardinality(Moments(C, at)) = Cardinality(C) + 1 =>
            MaxDrawdown(v) = MaxOf(FallsBetween(net, C, at))
  BY <1>2, <1>5, <1>6, <1>7, SummedUp
<1>9. \A x : RealisedBy(s, x) = SoFar(net, C, at, x)
  <2> TAKE x
  <2> DEFINE B == By(C, at, x)
  <2>1. PICK h : h = [p \in B |-> trades[p].net_pnl]
    OBVIOUS
  <2>2. B = {q \in ClosedOf(s) : trades[q].exit_at <= x}
    BY <1>1 DEF By
  <2>3. RealisedBy(s, x) = SumFunction(h)
    BY <2>1, <2>2 DEF RealisedBy
  <2>4. B \in SUBSET C
    BY DEF By
  <2> HIDE DEF B
  <2>5. IntsOn(net, B) /\ DOMAIN h = B /\ \A p \in B : h[p] = net[p]
    BY <1>1, <1>5, <2>1, <2>4, FS_Subset DEF IntsOn
  <2>6. IntsOn(h, B)
    BY <2>5 DEF IntsOn
  <2>7. SumFunction(h) = Total(h, B) /\ Total(h, B) = Total(net, B)
    BY <2>5, <2>6, SumIsTotal, TotalSame
  <2> QED BY <2>3, <2>7 DEF SoFar, B
<1>10. {trades[p].exit_at : p \in ClosedOf(s)} \cup {0} = Moments(C, at)
  BY <1>1 DEF Moments
<1>11. FallsBetween(net, C, at) =
          {RealisedBy(s, x[1]) - RealisedBy(s, x[2]) :
              x \in {y \in Moments(C, at) \X Moments(C, at) : y[1] <= y[2]}}
  BY <1>9 DEF FallsBetween
<1>12. SummaryOf(s).net_pnl = SumFunction(v) /\ SummaryOf(s).max_drawdown = MaxDrawdown(v)
  BY <1>1 DEF SummaryOf
<1>13. \A p \in ClosedOf(s) : trades[p].net_pnl = CashOf(p, trades[p])
  BY ClosedIsCash
<1> HIDE DEF Finished
<1> QED BY <1>1, <1>8, <1>9, <1>10, <1>11, <1>12, <1>13

(* In the report the net P&L of a closed trade is the cash its fills moved *)
(* less the funding of what was held, and an SSU's summary adds those up,  *)
(* its drawdown being no less than the worst fall of the realised P&L      *)
(* (close_position, SummaryMetrics::from_trades).                          *)
THEOREM NetAlwaysCash == Spec => []NetIsCash
<1>1. FeedInv /\ BookInv /\ MoneyInv => NetIsCash
  BY SummaryIsCash
<1> QED BY <1>1, MoneyInvariant, PTL
=============================================================================
