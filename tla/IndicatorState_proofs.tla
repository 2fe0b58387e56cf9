----------------------- MODULE IndicatorState_proofs ----------------------
(***************************************************************************)
(* What the indicator state guarantees for every length of its windows,    *)
(* every sequence of bars and whatever the formulas compute: the windows,  *)
(* queues and pivots agree with the bars they summarise, the line stays on *)
(* the trend's side of the close, and entries alternate.  And, at the end, *)
(* what the engine guarantees of the bars it forms for it.                 *)
(***************************************************************************)
EXTENDS IndicatorState, FormedBars, FiniteSetTheorems, SequenceTheorems, WellFoundedInduction, TLAPS

-----------------------------------------------------------------------------
(* Sets of numbers.                                                        *)

(* Max and Min are defined by CHOOSE: a finite set that is not empty has   *)
(* such an element.                                                        *)
LEMMA HasMax ==
    ASSUME NEW T \in SUBSET Int, IsFiniteSet(T), T # {}
    PROVE  Max(T) \in T /\ \A y \in T : Max(T) >= y
<1> DEFINE above(x) == {y \in T : y > x}
           family == {above(x) : x \in T}
           R == StrictSubsetOrdering(T)
<1>1. IsWellFoundedOn(R, FiniteSubsetsOf(T))
  BY FS_StrictSubsetOrderingWellFounded
<1>2. family \subseteq FiniteSubsetsOf(T) /\ family # {}
  <2>1. ASSUME NEW x \in T PROVE above(x) \in FiniteSubsetsOf(T)
    <3>1. above(x) \in SUBSET T
      OBVIOUS
    <3> QED BY <3>1, FS_Subset DEF FiniteSubsetsOf
  <2> QED BY <2>1
<1> HIDE DEF R
<1>3. PICK S \in family : \A U \in family : ~(<<U, S>> \in R)
  <2> HIDE DEF family
  <2> QED BY <1>1, <1>2, WFMin
<1>4. PICK x \in T : S = above(x)
  OBVIOUS
<1>5. \A y \in T : x >= y
  <2> SUFFICES ASSUME NEW y \in T, y > x PROVE FALSE
    OBVIOUS
  <2>1. above(y) \subseteq above(x) /\ y \in above(x) /\ y \notin above(y)
    <3>1. ~(y > y) /\ \A z \in T : z > y => z > x
      OBVIOUS
    <3> QED BY <3>1, Zenon
  <2>2. <<above(y), above(x)>> \in R
    BY <2>1 DEF R, StrictSubsetOrdering
  <2> QED BY <2>2, <1>3, <1>4
<1> QED BY <1>5 DEF Max

LEMMA HasMin ==
    ASSUME NEW T \in SUBSET Int, IsFiniteSet(T), T # {}
    PROVE  Min(T) \in T /\ \A y \in T : Min(T) <= y
<1> DEFINE below(x) == {y \in T : y < x}
           family == {below(x) : x \in T}
           R == StrictSubsetOrdering(T)
<1>1. IsWellFoundedOn(R, FiniteSubsetsOf(T))
  BY FS_StrictSubsetOrderingWellFounded
<1>2. family \subseteq FiniteSubsetsOf(T) /\ family # {}
  <2>1. ASSUME NEW x \in T PROVE below(x) \in FiniteSubsetsOf(T)
    <3>1. below(x) \in SUBSET T
      OBVIOUS
    <3> QED BY <3>1, FS_Subset DEF FiniteSubsetsOf
  <2> QED BY <2>1
<1> HIDE DEF R
<1>3. PICK S \in family : \A U \in family : ~(<<U, S>> \in R)
  <2> HIDE DEF family
  <2> QED BY <1>1, <1>2, WFMin
<1>4. PICK x \in T : S = below(x)
  OBVIOUS
<1>5. \A y \in T : x <= y
  <2> SUFFICES ASSUME NEW y \in T, y < x PROVE FALSE
    OBVIOUS
  <2>1. below(y) \subseteq below(x) /\ y \in below(x) /\ y \notin below(y)
    <3>1. ~(y < y) /\ \A z \in T : z < y => z < x
      OBVIOUS
    <3> QED BY <3>1, Zenon
  <2>2. <<below(y), below(x)>> \in R
    BY <2>1 DEF R, StrictSubsetOrdering
  <2> QED BY <2>2, <1>3, <1>4
<1> QED BY <1>5 DEF Min

(* A set of indexes of a sequence, with one more number, has both.          *)
LEMMA IndexBounds ==
    ASSUME NEW T, NEW n \in Nat, T \subseteq 1..n, NEW x \in Int
    PROVE  /\ IsFiniteSet(T \cup {x}) /\ T \cup {x} \in SUBSET Int /\ T \cup {x} # {}
           /\ Max(T \cup {x}) \in T \cup {x} /\ \A y \in T \cup {x} : Max(T \cup {x}) >= y
           /\ Min(T \cup {x}) \in T \cup {x} /\ \A y \in T \cup {x} : Min(T \cup {x}) <= y
<1> DEFINE U == T \cup {x}
<1>1. IsFiniteSet(1..n)
  BY FS_Interval
<1>2. IsFiniteSet(T)
  BY <1>1, FS_Subset
<1>3. IsFiniteSet(U)
  BY <1>2, FS_AddElement
<1>4. U \in SUBSET Int /\ U # {}
  OBVIOUS
<1> HIDE DEF U
<1>5. Max(U) \in U /\ \A y \in U : Max(U) >= y
  BY <1>3, <1>4, HasMax
<1>6. Min(U) \in U /\ \A y \in U : Min(U) <= y
  BY <1>3, <1>4, HasMin
<1> QED BY <1>3, <1>4, <1>5, <1>6 DEF U

LEMMA TwoBounds ==
    ASSUME NEW x \in Int, NEW y \in Int
    PROVE  /\ Max({x, y}) = (IF x >= y THEN x ELSE y)
           /\ Min({x, y}) = (IF x <= y THEN x ELSE y)
<1> DEFINE U == {x, y}
<1>1. IsFiniteSet(U)
  <2>1. IsFiniteSet({x})
    BY FS_Singleton
  <2>2. U = {x} \cup {y}
    OBVIOUS
  <2> QED BY <2>1, <2>2, FS_AddElement
<1>2. U \in SUBSET Int /\ U # {}
  OBVIOUS
<1> HIDE DEF U
<1>3. Max(U) \in U /\ (\A z \in U : Max(U) >= z) /\ Min(U) \in U /\ \A z \in U : Min(U) <= z
  BY <1>1, <1>2, HasMax, HasMin
<1> QED BY <1>3 DEF U

-----------------------------------------------------------------------------
(* The monotonic queues.                                                   *)

Modes == {"Max", "Min"}

(* The queue summarises the values f of the positions from a up to, not    *)
(* including, b: its entries are some of them, later ones strictly less    *)
(* extreme, and every position is covered by an entry at or after it that  *)
(* is at least as extreme.                                                 *)
Tracks(mode, q, f, a, b) ==
    /\ q \in Seq(Entries)
    /\ \A k \in 1..Len(q) : /\ a <= q[k].seq /\ q[k].seq < b
                            /\ q[k].value = f[q[k].seq]
    /\ \A j, k \in 1..Len(q) : j < k =>
           q[j].seq < q[k].seq /\ ~Removes(mode, q[j].value, q[k].value)
    /\ \A s \in Nat : a <= s /\ s < b =>
           \E k \in 1..Len(q) : s <= q[k].seq /\ Removes(mode, f[s], q[k].value)

LEMMA RemovesOrder ==
    ASSUME NEW mode \in Modes, NEW x \in Int, NEW y \in Int, NEW z \in Int
    PROVE  /\ Removes(mode, x, x)
           /\ Removes(mode, x, y) /\ Removes(mode, y, z) => Removes(mode, x, z)
           /\ Removes(mode, x, y) \/ Removes(mode, y, x)
           /\ Removes(mode, x, y) /\ Removes(mode, y, x) => x = y
BY DEF Removes, Modes

(* push: the entries left are those before the last that the new one does  *)
(* not remove.                                                             *)
LEMMA PushShape ==
    ASSUME NEW mode \in Modes, NEW q \in Seq(Entries), NEW e \in Entries
    PROVE  \E m \in 0..Len(q) :
               /\ Push(mode, q, e) \in Seq(Entries)
               /\ Len(Push(mode, q, e)) = m + 1
               /\ \A k \in 1..m : Push(mode, q, e)[k] = q[k]
               /\ Push(mode, q, e)[m + 1] = e
               /\ m > 0 => ~Removes(mode, q[m].value, e.value)
               /\ \A k \in 1..Len(q) : k > m => Removes(mode, q[k].value, e.value)
<1> DEFINE kept == {k \in DOMAIN q : ~Removes(mode, q[k].value, e.value)}
           m == Max(kept \cup {0})
           r == SubSeq(q, 1, m)
<1>1. Len(q) \in Nat /\ DOMAIN q = 1..Len(q)
  BY LenProperties
<1>2. kept \subseteq 1..Len(q)
  BY <1>1
<1>3. m \in kept \cup {0} /\ \A y \in kept \cup {0} : m >= y
  <2> HIDE DEF kept
  <2>1. 0 \in Int
    OBVIOUS
  <2> QED BY <1>1, <1>2, <2>1, IndexBounds
<1> HIDE DEF m
<1>4. m \in 0..Len(q) /\ (m > 0 => m \in kept)
  BY <1>1, <1>2, <1>3
<1>5. \A i \in 1..m : q[i] \in Entries
  BY <1>4, <1>1, ElementOfSeq
<1>6. r \in Seq(Entries) /\ Len(r) = m /\ \A i \in 1..m : r[i] = q[i]
  <2>1. /\ SubSeq(q, 1, m) \in Seq(Entries)
        /\ Len(SubSeq(q, 1, m)) = IF 1 <= m THEN m - 1 + 1 ELSE 0
        /\ \A i \in 1..(m - 1 + 1) : SubSeq(q, 1, m)[i] = q[1 + i - 1]
    BY <1>4, <1>5, <1>1, SubSeqProperties
  <2>2. m - 1 + 1 = m /\ \A i \in 1..m : 1 + i - 1 = i
    BY <1>4, <1>1
  <2> QED BY <2>1, <2>2, <1>4, <1>1
<1>7. Push(mode, q, e) = Append(r, e)
  BY DEF Push, m
<1> HIDE DEF r
<1>8. /\ Append(r, e) \in Seq(Entries) /\ Len(Append(r, e)) = m + 1
      /\ (\A k \in 1..m : Append(r, e)[k] = r[k]) /\ Append(r, e)[m + 1] = e
  BY <1>6, AppendProperties
<1>9. \A k \in 1..Len(q) : k > m => Removes(mode, q[k].value, e.value)
  <2> SUFFICES ASSUME NEW k \in 1..Len(q), k > m, ~Removes(mode, q[k].value, e.value)
               PROVE  FALSE
    OBVIOUS
  <2>1. k \in kept
    BY <1>1
  <2> HIDE DEF kept
  <2> QED BY <2>1, <1>3, <1>4, <1>1
<1> QED BY <1>4, <1>6, <1>7, <1>8, <1>9

LEMMA PushTracks ==
    ASSUME NEW mode \in Modes, NEW q, NEW f, NEW g, NEW a \in Nat, NEW b \in Nat, a <= b,
           NEW v \in Int,
           Tracks(mode, q, f, a, b),
           \A s \in Nat : a <= s /\ s < b => f[s] \in Int /\ g[s] = f[s],
           g[b] = v
    PROVE  Tracks(mode, Push(mode, q, [seq |-> b, value |-> v]), g, a, b + 1)
<1> DEFINE e == [seq |-> b, value |-> v]
           p == Push(mode, q, e)
<1>1. q \in Seq(Entries) /\ e \in Entries
  BY DEF Tracks, Entries
<1>2. PICK m \in 0..Len(q) :
          /\ p \in Seq(Entries) /\ Len(p) = m + 1
          /\ (\A k \in 1..m : p[k] = q[k]) /\ p[m + 1] = e
          /\ m > 0 => ~Removes(mode, q[m].value, v)
          /\ \A k \in 1..Len(q) : k > m => Removes(mode, q[k].value, v)
  <2>1. e.value = v
    OBVIOUS
  <2> HIDE DEF e
  <2>2. \E m \in 0..Len(q) :
          /\ p \in Seq(Entries) /\ Len(p) = m + 1
          /\ (\A k \in 1..m : p[k] = q[k]) /\ p[m + 1] = e
          /\ m > 0 => ~Removes(mode, q[m].value, e.value)
          /\ \A k \in 1..Len(q) : k > m => Removes(mode, q[k].value, e.value)
    BY <1>1, PushShape
  <2> QED BY <2>1, <2>2
<1> HIDE DEF p
<1>3. Len(q) \in Nat /\ m \in Nat /\ m <= Len(q)
  BY <1>1, LenProperties
<1>4. \A k \in 1..Len(q) : q[k].seq \in Nat /\ q[k].value \in Int
  <2> TAKE k \in 1..Len(q)
  <2>1. q[k] \in Entries
    BY <1>1, ElementOfSeq
  <2> QED BY <2>1 DEF Entries
<1>5. \A k \in 1..Len(q) : /\ a <= q[k].seq /\ q[k].seq < b
                            /\ q[k].value = f[q[k].seq]
  BY DEF Tracks
<1>6. \A j, k \in 1..Len(q) : j < k =>
          q[j].seq < q[k].seq /\ ~Removes(mode, q[j].value, q[k].value)
  BY DEF Tracks
<1>7. \A k \in 1..m : ~Removes(mode, q[k].value, v)
  <2> TAKE k \in 1..m
  <2>1. CASE k = m
    BY <2>1, <1>2
  <2>2. CASE k < m
    <3>1. ~Removes(mode, q[k].value, q[m].value) /\ ~Removes(mode, q[m].value, v)
      BY <2>2, <1>2, <1>3, <1>6
    <3>2. q[k].value \in Int /\ q[m].value \in Int
      BY <1>3, <1>4
    <3> QED BY <3>1, <3>2, RemovesOrder
  <2> QED BY <2>1, <2>2, <1>3
<1>8. \A k \in 1..(m + 1) : /\ a <= p[k].seq /\ p[k].seq < b + 1
                            /\ p[k].value = g[p[k].seq]
  <2> TAKE k \in 1..(m + 1)
  <2>1. CASE k = m + 1
    BY <2>1, <1>2
  <2>2. CASE k \in 1..m
    <3>1. p[k] = q[k] /\ k \in 1..Len(q)
      BY <2>2, <1>2, <1>3
    <3> QED BY <3>1, <1>4, <1>5
  <2> QED BY <2>1, <2>2, <1>3
<1>9. \A j, k \in 1..(m + 1) : j < k =>
          p[j].seq < p[k].seq /\ ~Removes(mode, p[j].value, p[k].value)
  <2> TAKE j, k \in 1..(m + 1)
  <2> HAVE j < k
  <2>1. j \in 1..m /\ p[j] = q[j] /\ j \in 1..Len(q)
    BY <1>2, <1>3
  <2>2. CASE k = m + 1
    BY <2>1, <2>2, <1>2, <1>5, <1>7
  <2>3. CASE k \in 1..m
    <3>1. p[k] = q[k] /\ k \in 1..Len(q)
      BY <2>3, <1>2, <1>3
    <3> QED BY <2>1, <3>1, <1>6
  <2> QED BY <2>2, <2>3, <1>3
<1>10. ASSUME NEW s \in Nat, a <= s, s < b + 1
       PROVE  \E k \in 1..(m + 1) : s <= p[k].seq /\ Removes(mode, g[s], p[k].value)
  <2>1. CASE s = b
    BY <2>1, <1>2, <1>3, RemovesOrder
  <2>2. CASE s < b
    <3>1. PICK k \in 1..Len(q) : s <= q[k].seq /\ Removes(mode, f[s], q[k].value)
      BY <2>2, <1>10 DEF Tracks
    <3>2. f[s] \in Int /\ g[s] = f[s]
      BY <2>2, <1>10
    <3>3. CASE k <= m
      BY <3>1, <3>2, <3>3, <1>2, <1>3
    <3>4. CASE k > m
      <4>1. Removes(mode, q[k].value, v)
        BY <3>4, <1>2
      <4>2. Removes(mode, g[s], v)
        BY <3>1, <3>2, <4>1, <1>4, RemovesOrder
      <4> QED BY <4>2, <2>2, <1>2, <1>3
    <3> QED BY <3>3, <3>4, <1>3
  <2> QED BY <2>1, <2>2, <1>10
<1>11. Tracks(mode, p, g, a, b + 1)
  BY <1>2, <1>8, <1>9, <1>10 DEF Tracks
<1> QED BY <1>11 DEF p

LEMMA ExpireShape ==
    ASSUME NEW q \in Seq(Entries), NEW c \in Int
    PROVE  \E m \in 0..Len(q) :
               /\ ExpireBefore(q, c) \in Seq(Entries)
               /\ Len(ExpireBefore(q, c)) = Len(q) - m
               /\ \A k \in 1..(Len(q) - m) : ExpireBefore(q, c)[k] = q[k + m]
               /\ m < Len(q) => q[m + 1].seq >= c
               /\ \A k \in 1..m : ~(q[k].seq >= c)
<1> DEFINE n == Len(q)
           kept == {k \in DOMAIN q : q[k].seq >= c}
           m == Min(kept \cup {n + 1})
           r == SubSeq(q, m, n)
<1>1. n \in Nat /\ DOMAIN q = 1..n
  BY LenProperties
<1> HIDE DEF n
<1>2. kept \subseteq 1..n
  BY <1>1
<1>3. m \in kept \cup {n + 1} /\ \A y \in kept \cup {n + 1} : m <= y
  <2> HIDE DEF kept
  <2>1. n + 1 \in Int
    BY <1>1
  <2> QED BY <1>1, <1>2, <2>1, IndexBounds
<1> HIDE DEF m
<1>4. m \in 1..(n + 1) /\ (m <= n => m \in kept)
  BY <1>1, <1>2, <1>3
<1>5. \A i \in m..n : q[i] \in Entries
  BY <1>4, <1>1, ElementOfSeq DEF n
<1>6. /\ r \in Seq(Entries)
      /\ Len(r) = (IF m <= n THEN n - m + 1 ELSE 0)
      /\ \A i \in 1..(n - m + 1) : r[i] = q[m + i - 1]
  BY <1>4, <1>5, <1>1, SubSeqProperties
<1>7. ExpireBefore(q, c) = r
  BY DEF ExpireBefore, m, n
<1> HIDE DEF r
<1>8. \A k \in 1..(m - 1) : ~(q[k].seq >= c)
  <2> SUFFICES ASSUME NEW k \in 1..(m - 1), q[k].seq >= c
               PROVE  FALSE
    OBVIOUS
  <2>1. k \in kept
    BY <1>1, <1>4
  <2> HIDE DEF kept
  <2> QED BY <2>1, <1>3, <1>4, <1>1
<1>9. m - 1 \in 0..n /\ Len(r) = n - (m - 1)
  BY <1>1, <1>4, <1>6
<1>10. \A k \in 1..(n - (m - 1)) : r[k] = q[k + (m - 1)]
  <2> TAKE k \in 1..(n - (m - 1))
  <2>1. k \in 1..(n - m + 1) /\ m + k - 1 = k + (m - 1)
    BY <1>1, <1>4
  <2> QED BY <2>1, <1>6
<1>11. m - 1 < n => q[(m - 1) + 1].seq >= c
  <2> HAVE m - 1 < n
  <2>1. m <= n /\ (m - 1) + 1 = m
    BY <1>1, <1>4
  <2> QED BY <2>1, <1>4
<1> QED BY <1>6, <1>7, <1>8, <1>9, <1>10, <1>11 DEF n

LEMMA ExpireTracks ==
    ASSUME NEW mode \in Modes, NEW q, NEW f, NEW a \in Nat, NEW b \in Nat,
           NEW c \in Nat, a <= c,
           Tracks(mode, q, f, a, b)
    PROVE  Tracks(mode, ExpireBefore(q, c), f, c, b)
<1> DEFINE p == ExpireBefore(q, c)
<1>1. q \in Seq(Entries) /\ Len(q) \in Nat
  BY LenProperties DEF Tracks
<1>2. PICK m \in 0..Len(q) :
          /\ p \in Seq(Entries) /\ Len(p) = Len(q) - m
          /\ \A k \in 1..(Len(q) - m) : p[k] = q[k + m]
          /\ m < Len(q) => q[m + 1].seq >= c
          /\ \A k \in 1..m : ~(q[k].seq >= c)
  <2>1. c \in Int
    OBVIOUS
  <2> QED BY <1>1, <2>1, ExpireShape
<1> HIDE DEF p
<1>3. \A k \in 1..Len(q) : q[k].seq \in Nat
  <2> TAKE k \in 1..Len(q)
  <2>1. q[k] \in Entries
    BY <1>1, ElementOfSeq
  <2> QED BY <2>1 DEF Entries
<1>4. /\ \A k \in 1..Len(q) : /\ a <= q[k].seq /\ q[k].seq < b
                               /\ q[k].value = f[q[k].seq]
      /\ \A j, k \in 1..Len(q) : j < k =>
             q[j].seq < q[k].seq /\ ~Removes(mode, q[j].value, q[k].value)
  BY DEF Tracks
<1>5. \A k \in 1..Len(p) : p[k] = q[k + m] /\ k + m \in 1..Len(q) /\ k + m > m
  BY <1>1, <1>2
<1>6. \A k \in 1..Len(p) : c <= p[k].seq /\ p[k].seq < b /\ p[k].value = f[p[k].seq]
  <2> TAKE k \in 1..Len(p)
  <2>1. p[k] = q[k + m] /\ k + m \in 1..Len(q) /\ k + m > m
    BY <1>5
  <2>2. m < Len(q) /\ m + 1 \in 1..Len(q)
    BY <2>1, <1>1
  <2>3. q[m + 1].seq >= c /\ q[m + 1].seq <= q[k + m].seq
    <3>1. CASE k = 1
      BY <3>1, <2>2, <1>2, <1>3, <1>1
    <3>2. CASE k > 1
      <4>1. m + 1 < k + m
        BY <1>2, <2>1, <3>2
      <4>2. q[m + 1].seq < q[k + m].seq
        BY <1>4, <2>1, <2>2, <4>1
      <4> QED BY <1>2, <1>3, <2>1, <2>2, <4>2
    <3> QED BY <3>1, <3>2, <1>1, <1>2
  <2> QED BY <2>1, <2>2, <2>3, <1>3, <1>4
<1>7. \A j, k \in 1..Len(p) : j < k =>
          p[j].seq < p[k].seq /\ ~Removes(mode, p[j].value, p[k].value)
  <2> TAKE j, k \in 1..Len(p)
  <2> HAVE j < k
  <2>1. j + m < k + m
    BY <1>1, <1>2
  <2> QED BY <2>1, <1>4, <1>5
<1>8. ASSUME NEW s \in Nat, c <= s, s < b
      PROVE  \E k \in 1..Len(p) : s <= p[k].seq /\ Removes(mode, f[s], p[k].value)
  <2>1. a <= s
    BY <1>8
  <2>2. PICK k \in 1..Len(q) : s <= q[k].seq /\ Removes(mode, f[s], q[k].value)
    BY <2>1, <1>8 DEF Tracks
  <2>3. q[k].seq >= c
    BY <2>2, <1>8, <1>3
  <2>4. k > m
    BY <2>3, <1>2, <1>1
  <2>5. k - m \in 1..Len(p) /\ k - m + m = k
    BY <2>4, <1>1, <1>2
  <2>6. p[k - m] = q[k]
    BY <2>5, <1>5
  <2> QED BY <2>2, <2>5, <2>6
<1>9. Tracks(mode, p, f, c, b)
  BY <1>2, <1>6, <1>7, <1>8 DEF Tracks
<1> QED BY <1>9 DEF p

(* The front of a queue is the most extreme value of its positions.        *)
LEMMA FrontIsExtreme ==
    ASSUME NEW mode \in Modes, NEW q, NEW f, NEW a \in Nat, NEW b \in Nat,
           a < b, Tracks(mode, q, f, a, b),
           \A s \in Nat : a <= s /\ s < b => f[s] \in Int
    PROVE  /\ q # <<>> /\ Head(q).value \in Int
           /\ \E s \in Nat : a <= s /\ s < b /\ Head(q).value = f[s]
           /\ \A s \in Nat : a <= s /\ s < b => Removes(mode, f[s], Head(q).value)
<1>1. q \in Seq(Entries) /\ Len(q) \in Nat
  BY LenProperties DEF Tracks
<1>2. PICK k0 \in 1..Len(q) : TRUE
  BY DEF Tracks
<1>3. q # <<>> /\ Head(q) = q[1] /\ 1 \in 1..Len(q)
  BY <1>1, <1>2, EmptySeq
<1>4. \A k \in 1..Len(q) : q[k].seq \in Nat /\ q[k].value \in Int
  <2> TAKE k \in 1..Len(q)
  <2>1. q[k] \in Entries
    BY <1>1, ElementOfSeq
  <2> QED BY <2>1 DEF Entries
<1>5. a <= q[1].seq /\ q[1].seq < b /\ q[1].value = f[q[1].seq]
  BY <1>3 DEF Tracks
<1>6. ASSUME NEW s \in Nat, a <= s, s < b
      PROVE  Removes(mode, f[s], q[1].value)
  <2>1. PICK k \in 1..Len(q) : s <= q[k].seq /\ Removes(mode, f[s], q[k].value)
    BY <1>6 DEF Tracks
  <2>2. CASE k = 1
    BY <2>1, <2>2
  <2>3. CASE k > 1
    <3>1. ~Removes(mode, q[1].value, q[k].value)
      BY <2>3, <1>3 DEF Tracks
    <3>2. f[s] \in Int
      BY <1>6
    <3> QED BY <3>1, <3>2, <2>1, <1>3, <1>4, RemovesOrder
  <2> QED BY <2>2, <2>3, <1>1
<1> QED BY <1>3, <1>4, <1>5, <1>6

-----------------------------------------------------------------------------
(* The queues of highs and lows, and the windows that slide.               *)

HighsOf(bs) == [s \in Nat |-> bs[s + 1].high]
LowsOf(bs) == [s \in Nat |-> bs[s + 1].low]

TracksBars(queues, bs, a, b) ==
    /\ queues = [high |-> queues.high, low |-> queues.low]
    /\ Tracks("Max", queues.high, HighsOf(bs), a, b)
    /\ Tracks("Min", queues.low, LowsOf(bs), a, b)

(* Bars are made of numbers.                                               *)
LEMMA BarNumbers ==
    ASSUME NEW bs \in Seq(Bars)
    PROVE  /\ Len(bs) \in Nat
           /\ \A k \in 1..Len(bs) :
                  /\ bs[k] \in Bars
                  /\ bs[k].high \in Int /\ bs[k].low \in Int /\ bs[k].close \in Int
<1>1. Prices \subseteq Int
  BY IndicatorAssumption
<1>2. \A bar \in Bars : bar.high \in Int /\ bar.low \in Int /\ bar.close \in Int
  BY <1>1 DEF Bars
<1> QED BY <1>2, LenProperties, ElementOfSeq

LEMMA EmptyTracks ==
    ASSUME NEW bs
    PROVE  TracksBars(NoQueues, bs, 0, 0)
<1>1. <<>> \in Seq(Entries) /\ Len(<<>>) = 0
  BY EmptySeq
<1>2. \A mode \in Modes : \A f : Tracks(mode, <<>>, f, 0, 0)
  BY <1>1 DEF Tracks
<1> QED BY <1>2 DEF TracksBars, NoQueues, Modes

LEMMA PushBarTracks ==
    ASSUME NEW bs \in Seq(Bars), NEW cs \in Seq(Bars), NEW queues, NEW r,
           NEW a \in Nat, NEW b \in Nat, a <= b,
           TracksBars(queues, bs, a, b),
           b <= Len(bs), b < Len(cs), \A k \in 1..b : cs[k] = bs[k],
           r.high = cs[b + 1].high, r.low = cs[b + 1].low
    PROVE  TracksBars(PushBar(queues, b, r), cs, a, b + 1)
<1>1. /\ Len(bs) \in Nat /\ Len(cs) \in Nat
      /\ \A k \in 1..Len(bs) : bs[k].high \in Int /\ bs[k].low \in Int
      /\ \A k \in 1..Len(cs) : cs[k].high \in Int /\ cs[k].low \in Int
  BY BarNumbers
<1>2. r.high \in Int /\ r.low \in Int
  BY <1>1
<1>3. ASSUME NEW s \in Nat, a <= s, s < b
      PROVE  /\ HighsOf(bs)[s] \in Int /\ HighsOf(cs)[s] = HighsOf(bs)[s]
             /\ LowsOf(bs)[s] \in Int /\ LowsOf(cs)[s] = LowsOf(bs)[s]
  <2>1. s + 1 \in 1..b /\ s + 1 \in 1..Len(bs)
    BY <1>1, <1>3
  <2>2. cs[s + 1] = bs[s + 1]
    BY <2>1
  <2> QED BY <2>1, <2>2, <1>1 DEF HighsOf, LowsOf
<1>4. HighsOf(cs)[b] = r.high /\ LowsOf(cs)[b] = r.low
  BY DEF HighsOf, LowsOf
<1>5. Tracks("Max", Push("Max", queues.high, [seq |-> b, value |-> r.high]),
             HighsOf(cs), a, b + 1)
  <2>1. Tracks("Max", queues.high, HighsOf(bs), a, b) /\ "Max" \in Modes
    BY DEF TracksBars, Modes
  <2> QED BY <2>1, <1>2, <1>3, <1>4, PushTracks
<1>6. Tracks("Min", Push("Min", queues.low, [seq |-> b, value |-> r.low]),
             LowsOf(cs), a, b + 1)
  <2>1. Tracks("Min", queues.low, LowsOf(bs), a, b) /\ "Min" \in Modes
    BY DEF TracksBars, Modes
  <2> QED BY <2>1, <1>2, <1>3, <1>4, PushTracks
<1> QED BY <1>5, <1>6 DEF TracksBars, PushBar

LEMMA SameBarsTrack ==
    ASSUME NEW bs \in Seq(Bars), NEW cs, NEW queues,
           NEW a \in Nat, NEW b \in Nat, b <= Len(bs),
           TracksBars(queues, bs, a, b), \A k \in 1..b : cs[k] = bs[k]
    PROVE  TracksBars(queues, cs, a, b)
<1>1. ASSUME NEW s \in Nat, s < b
      PROVE  HighsOf(cs)[s] = HighsOf(bs)[s] /\ LowsOf(cs)[s] = LowsOf(bs)[s]
  <2>1. s + 1 \in 1..b
    BY <1>1
  <2> QED BY <2>1 DEF HighsOf, LowsOf
<1>2. ASSUME NEW mode, NEW q, NEW f, NEW g, Tracks(mode, q, f, a, b),
             \A s \in Nat : s < b => g[s] = f[s]
      PROVE  Tracks(mode, q, g, a, b)
  <2>1. q \in Seq(Entries)
    BY <1>2 DEF Tracks
  <2>2. \A k \in 1..Len(q) : q[k].seq \in Nat
    <3> TAKE k \in 1..Len(q)
    <3>1. q[k] \in Entries
      BY <2>1, ElementOfSeq
    <3> QED BY <3>1 DEF Entries
  <2> QED BY <1>2, <2>2 DEF Tracks
<1> QED BY <1>1, <1>2 DEF TracksBars

LEMMA ExpireBarsTracks ==
    ASSUME NEW bs, NEW queues, NEW a \in Nat, NEW b \in Nat, NEW c \in Nat, a <= c,
           TracksBars(queues, bs, a, b)
    PROVE  TracksBars(ExpireBars(queues, c), bs, c, b)
<1>1. "Max" \in Modes /\ "Min" \in Modes
  BY DEF Modes
<1>2. Tracks("Max", ExpireBefore(queues.high, c), HighsOf(bs), c, b)
  BY <1>1, ExpireTracks DEF TracksBars
<1>3. Tracks("Min", ExpireBefore(queues.low, c), LowsOf(bs), c, b)
  BY <1>1, ExpireTracks DEF TracksBars
<1> QED BY <1>2, <1>3 DEF TracksBars, ExpireBars

LEMMA TracksType ==
    ASSUME NEW queues, NEW bs, NEW a, NEW b, TracksBars(queues, bs, a, b)
    PROVE  queues \in Queues
BY DEF TracksBars, Tracks, Queues

(* The fronts are the highest high and the lowest low of the positions.    *)
LEMMA FrontsAreExtreme ==
    ASSUME NEW bs \in Seq(Bars), NEW queues, NEW a \in Nat, NEW b \in Nat,
           a < b, b <= Len(bs), TracksBars(queues, bs, a, b)
    PROVE  /\ queues.high # <<>> /\ queues.low # <<>>
           /\ Head(queues.high).value \in Int /\ Head(queues.low).value \in Int
           /\ \E k \in (a + 1)..b : Head(queues.high).value = bs[k].high
           /\ \E k \in (a + 1)..b : Head(queues.low).value = bs[k].low
           /\ \A k \in (a + 1)..b : bs[k].high <= Head(queues.high).value
           /\ \A k \in (a + 1)..b : bs[k].low >= Head(queues.low).value
<1>1. /\ Len(bs) \in Nat
      /\ \A k \in 1..Len(bs) : bs[k].high \in Int /\ bs[k].low \in Int
  BY BarNumbers
<1>2. \A s \in Nat : HighsOf(bs)[s] = bs[s + 1].high /\ LowsOf(bs)[s] = bs[s + 1].low
  BY DEF HighsOf, LowsOf
<1>3. \A s \in Nat : a <= s /\ s < b => HighsOf(bs)[s] \in Int /\ LowsOf(bs)[s] \in Int
  <2> TAKE s \in Nat
  <2> HAVE a <= s /\ s < b
  <2>1. s + 1 \in 1..Len(bs)
    BY <1>1
  <2> QED BY <2>1, <1>1, <1>2
<1>4. "Max" \in Modes /\ "Min" \in Modes
  BY DEF Modes
<1>5. /\ queues.high # <<>> /\ Head(queues.high).value \in Int
      /\ \E s \in Nat : a <= s /\ s < b /\ Head(queues.high).value = HighsOf(bs)[s]
      /\ \A s \in Nat : a <= s /\ s < b =>
             Removes("Max", HighsOf(bs)[s], Head(queues.high).value)
  <2>1. Tracks("Max", queues.high, HighsOf(bs), a, b)
    BY DEF TracksBars
  <2> QED BY <2>1, <1>3, <1>4, FrontIsExtreme
<1>6. /\ queues.low # <<>> /\ Head(queues.low).value \in Int
      /\ \E s \in Nat : a <= s /\ s < b /\ Head(queues.low).value = LowsOf(bs)[s]
      /\ \A s \in Nat : a <= s /\ s < b =>
             Removes("Min", LowsOf(bs)[s], Head(queues.low).value)
  <2>1. Tracks("Min", queues.low, LowsOf(bs), a, b)
    BY DEF TracksBars
  <2> QED BY <2>1, <1>3, <1>4, FrontIsExtreme
<1>7. \E k \in (a + 1)..b : Head(queues.high).value = bs[k].high
  <2>1. PICK s \in Nat : a <= s /\ s < b /\ Head(queues.high).value = HighsOf(bs)[s]
    BY <1>5
  <2>2. s + 1 \in (a + 1)..b
    BY <2>1
  <2> QED BY <2>1, <2>2, <1>2
<1>8. \E k \in (a + 1)..b : Head(queues.low).value = bs[k].low
  <2>1. PICK s \in Nat : a <= s /\ s < b /\ Head(queues.low).value = LowsOf(bs)[s]
    BY <1>6
  <2>2. s + 1 \in (a + 1)..b
    BY <2>1
  <2> QED BY <2>1, <2>2, <1>2
<1>9. ASSUME NEW k \in (a + 1)..b
      PROVE  bs[k].high <= Head(queues.high).value /\ bs[k].low >= Head(queues.low).value
  <2>1. k - 1 \in Nat /\ a <= k - 1 /\ k - 1 < b /\ (k - 1) + 1 = k
    OBVIOUS
  <2>2. HighsOf(bs)[k - 1] = bs[k].high /\ LowsOf(bs)[k - 1] = bs[k].low
    BY <2>1, <1>2
  <2>3. /\ Removes("Max", bs[k].high, Head(queues.high).value)
        /\ Removes("Min", bs[k].low, Head(queues.low).value)
    BY <2>1, <2>2, <1>5, <1>6
  <2> QED BY <2>3 DEF Removes
<1> QED BY <1>5, <1>6, <1>7, <1>8, <1>9

(* The window holds the last values of the first n of f, at most cap.      *)
Holds(s, f, n, cap) ==
    /\ Len(s) = (IF n < cap THEN n ELSE cap)
    /\ \A i \in 1..Len(s) : s[i] = f[n - Len(s) + i]

LEMMA SlideHolds ==
    ASSUME NEW S, NEW s \in Seq(S), NEW x \in S, NEW f, NEW g,
           NEW n \in Nat, NEW cap \in Nat \ {0},
           Holds(s, f, n, cap), \A k \in 1..n : g[k] = f[k], g[n + 1] = x
    PROVE  /\ Slide(s, x, cap) \in Seq(S)
           /\ Holds(Slide(s, x, cap), g, n + 1, cap)
<1> DEFINE t == Append(s, x)
<1>1. Len(s) \in Nat
  BY LenProperties
<1>2. /\ t \in Seq(S) /\ t # <<>> /\ Len(t) = Len(s) + 1
      /\ (\A i \in 1..Len(s) : t[i] = s[i]) /\ t[Len(s) + 1] = x
  BY AppendProperties
<1> HIDE DEF t
<1>3. Len(s) = (IF n < cap THEN n ELSE cap) /\ \A i \in 1..Len(s) : s[i] = f[n - Len(s) + i]
  BY DEF Holds
<1>4. \A i \in 1..Len(t) : t[i] = g[n - Len(s) + i]
  <2> TAKE i \in 1..Len(t)
  <2>1. CASE i = Len(s) + 1
    <3>1. n - Len(s) + i = n + 1
      BY <2>1, <1>1
    <3> QED BY <2>1, <3>1, <1>2
  <2>2. CASE i \in 1..Len(s)
    <3>1. n - Len(s) + i \in 1..n
      BY <2>2, <1>3
    <3> QED BY <2>2, <3>1, <1>2, <1>3
  <2> QED BY <2>1, <2>2, <1>1, <1>2
<1>5. CASE n < cap
  <2>1. Slide(s, x, cap) = t
    BY <1>1, <1>2, <1>3, <1>5 DEF Slide, t
  <2>2. Holds(t, g, n + 1, cap)
    <3>1. Len(t) = n + 1 /\ Len(t) = (IF n + 1 < cap THEN n + 1 ELSE cap)
      BY <1>2, <1>3, <1>5
    <3>2. \A i \in 1..Len(t) : n - Len(s) + i = n + 1 - Len(t) + i
      BY <1>1, <1>2
    <3> QED BY <3>1, <3>2, <1>4 DEF Holds
  <2> QED BY <2>1, <2>2, <1>2, <1>5
<1>6. CASE n >= cap
  <2>1. Slide(s, x, cap) = Tail(t)
    BY <1>1, <1>2, <1>3, <1>6 DEF Slide, t
  <2>2. /\ Tail(t) \in Seq(S) /\ Len(Tail(t)) = Len(t) - 1
        /\ \A i \in 1..Len(Tail(t)) : Tail(t)[i] = t[i + 1]
    BY <1>2, HeadTailProperties
  <2>3. Holds(Tail(t), g, n + 1, cap)
    <3>1. Len(Tail(t)) = cap /\ Len(s) = cap
      BY <1>2, <1>3, <1>6, <2>2
    <3> DEFINE u == Tail(t)
    <3>2. \A i \in 1..Len(u) : u[i] = t[i + 1]
      BY <2>2
    <3>3. Len(u) = cap
      BY <3>1
    <3> HIDE DEF u
    <3>4. ASSUME NEW i \in 1..Len(u)
          PROVE  u[i] = g[n + 1 - Len(u) + i]
      <4>1. i + 1 \in 1..Len(t) /\ n - Len(s) + (i + 1) = n + 1 - Len(u) + i
        BY <3>1, <3>3, <1>2
      <4>2. u[i] = t[i + 1] /\ t[i + 1] = g[n - Len(s) + (i + 1)]
        BY <4>1, <3>2, <1>4
      <4> QED BY <4>1, <4>2
    <3>5. Holds(u, g, n + 1, cap)
      <4>1. Len(u) = (IF n + 1 < cap THEN n + 1 ELSE cap)
        BY <3>3, <1>6
      <4>2. \A i \in 1..Len(u) : u[i] = g[n + 1 - Len(u) + i]
        BY <3>4
      <4> QED BY <4>1, <4>2 DEF Holds
    <3> QED BY <3>5 DEF u
  <2> QED BY <2>1, <2>2, <2>3
<1> QED BY <1>5, <1>6

(* What the window drops when it slides.                                   *)
LEMMA SlideDrops ==
    ASSUME NEW S, NEW s \in Seq(S), NEW f, NEW n \in Nat, NEW cap \in Nat \ {0},
           Holds(s, f, n, cap)
    PROVE  Dropped(s, cap) <=> n >= cap
<1>1. Len(s) \in Nat /\ Len(s) = (IF n < cap THEN n ELSE cap)
  BY LenProperties DEF Holds
<1> QED BY <1>1 DEF Dropped

LEMMA SlideOldest ==
    ASSUME NEW S, NEW s \in Seq(S), NEW f, NEW n \in Nat, NEW cap \in Nat \ {0},
           Holds(s, f, n, cap), n >= cap
    PROVE  Head(s) = f[n - cap + 1]
<1>1. 1 \in 1..Len(s) /\ Len(s) = cap
  BY LenProperties DEF Holds
<1>2. s # <<>> /\ Head(s) = s[1]
  BY <1>1, EmptySeq
<1> QED BY <1>1, <1>2 DEF Holds

-----------------------------------------------------------------------------
(* The inductive invariant: how each part of the state summarises the bars *)
(* processed so far.                                                       *)

Floor(n) == IF n < 0 THEN 0 ELSE n

ClosesOf(bs) == [k \in Nat |-> bs[k].close]
MovesOf(bs) == [k \in Nat |-> bs[k + 1].close - bs[k].close]
StepsOf(bs) == [k \in Nat |-> Abs(bs[k + 1].close - bs[k].close)]
WindowOf(bs) == [k \in Nat |-> [seq |-> k - 1, high |-> bs[k].high, low |-> bs[k].low]]

BarsInv ==
    /\ bars \in Seq(Bars) /\ processed = N /\ lastEnd \in 0..MaxTime
    /\ lastClose = (IF N = 0 THEN None ELSE bars[N].close)

StructureInv ==
    /\ structure = [next |-> N, queues |-> structure.queues]
    /\ TracksBars(structure.queues, bars, Floor(N - StructLen), N)

(* The path of the closes is at least as long as any distance on it.       *)
PathInv ==
    /\ walked \in Seq(Nat) /\ Len(walked) = N
    /\ \A k \in 1..N : k < N =>
           walked[k + 1] = walked[k] + Abs(bars[k + 1].close - bars[k].close)
    /\ \A j, k \in 1..N : j <= k =>
           Abs(bars[k].close - bars[j].close) <= walked[k] - walked[j]

EfficiencyInv ==
    /\ er = [closes |-> er.closes, diffs |-> er.diffs, volatility |-> er.volatility]
    /\ er.closes \in Seq(Int) /\ er.diffs \in Seq(Nat)
    /\ Holds(er.closes, ClosesOf(bars), N, ErLen + 1)
    /\ Holds(er.diffs, StepsOf(bars), Floor(N - 1), ErLen)
    /\ er.volatility = (IF N = 0 THEN 0 ELSE walked[N] - walked[N - Len(er.diffs)])

MomentumInv ==
    /\ momentum = [closes |-> momentum.closes, diffs |-> momentum.diffs,
                   positive |-> Cardinality(Rising(MomLen)),
                   negative |-> Cardinality(Falling(MomLen))]
    /\ momentum.closes \in Seq(Int) /\ momentum.diffs \in Seq(Int)
    /\ Holds(momentum.closes, ClosesOf(bars), N, MomLen + 1)
    /\ Holds(momentum.diffs, MovesOf(bars), Floor(N - 1), MomLen)

PivotsInv ==
    /\ pivots = [next |-> N, window |-> pivots.window,
                 left |-> pivots.left, right |-> pivots.right]
    /\ pivots.window \in Seq(PivotBars)
    /\ Holds(pivots.window, WindowOf(bars), N, 2 * PivotLen + 1)
    /\ TracksBars(pivots.left, bars, Floor(N - 1 - 2 * PivotLen), Floor(N - PivotLen - 1))
    /\ TracksBars(pivots.right, bars, IF N > 2 * PivotLen THEN N - PivotLen ELSE 0, N)

(* The last bar but PivotLen waits for the next bar when it is a pivot;    *)
(* the latest of the earlier ones is in use.                               *)
LatestHigh(n) == IF PivotHighs(n) = {} THEN None ELSE bars[Max(PivotHighs(n))].high
LatestLow(n) == IF PivotLows(n) = {} THEN None ELSE bars[Max(PivotLows(n))].low

PendingInv ==
    /\ pending = [high |-> IF N - PivotLen \in PivotHighs(N)
                           THEN bars[N - PivotLen].high ELSE None,
                  low  |-> IF N - PivotLen \in PivotLows(N)
                           THEN bars[N - PivotLen].low ELSE None]
    /\ lastPivot = [high |-> LatestHigh(N - 1), low |-> LatestLow(N - 1)]

BandsInv ==
    /\ trend \in {1, -1} /\ trendStart \in Nat
    /\ N = 0 => lower = None /\ upper = None /\ trend = 1
    /\ N > 0 => lower \in Int /\ upper \in Int
    /\ CloseSource /\ N > 0 => /\ trend = 1 => lower <= bars[N].close
                               /\ trend = -1 => upper >= bars[N].close

(* From the first live entry on every flip is an entry.                    *)
EntryInv ==
    /\ live \in BOOLEAN /\ entered \in {None, "long", "short"}
    /\ entered # None => /\ live /\ processed >= MinWarmup
                         /\ entered = (IF trend = 1 THEN "long" ELSE "short")

PointInv ==
    point # None =>
        /\ N > 0
        /\ point = [entry     |-> point.entry,
                    line      |-> IF trend = 1 THEN lower ELSE upper,
                    er        |-> EfficiencyRatio(er),
                    moves     |-> MovesWithWindow(momentum),
                    struct    |-> [high |-> Head(structure.queues.high).value,
                                   low  |-> Head(structure.queues.low).value],
                    lastPivot |-> lastPivot]
        /\ point.entry \in {None, "long", "short"}
        /\ point.entry # None => processed >= MinWarmup

Inv ==
    /\ BarsInv /\ StructureInv /\ PathInv /\ EfficiencyInv /\ MomentumInv
    /\ PivotsInv /\ PendingInv /\ BandsInv /\ EntryInv /\ PointInv

Lens ==
    /\ AtrLen \in Nat \ {0} /\ ErLen \in Nat \ {0} /\ MomLen \in Nat \ {0}
    /\ StructLen \in Nat \ {0} /\ PivotLen \in Nat \ {0} /\ MinWarmup \in Nat
    /\ MaxTime \in Nat /\ CharFlipMinAge \in Nat

LEMMA Lengths == Lens
BY IndicatorAssumption DEF Lens

LEMMA InitInv == Init => Inv
<1> SUFFICES ASSUME Init PROVE Inv
  OBVIOUS
<1> USE Lengths DEF Lens
<1>1. <<>> \in Seq(Bars) /\ <<>> \in Seq(Int) /\ <<>> \in Seq(Nat)
      /\ <<>> \in Seq(PivotBars) /\ Len(<<>>) = 0
  BY EmptySeq
<1>2. bars = <<>> /\ N = 0
  BY <1>1 DEF Init, N
<1>3. TracksBars(NoQueues, bars, 0, 0)
  BY EmptyTracks
<1>4. ASSUME NEW f, NEW cap \in Nat \ {0} PROVE Holds(<<>>, f, 0, cap)
  BY <1>1 DEF Holds
<1>5. \A len : Rising(len) = {} /\ Falling(len) = {}
  BY <1>2 DEF Rising, Falling, Last
<1>6. Cardinality({}) = 0
  BY FS_EmptySet
<1>7. BarsInv
  BY <1>1, <1>2 DEF Init, BarsInv
<1>8. StructureInv
  BY <1>2, <1>3 DEF Init, StructureInv, Floor
<1>9. PathInv
  BY <1>1, <1>2 DEF Init, PathInv
<1>10. EfficiencyInv
  <2>1. ErLen + 1 \in Nat \ {0} /\ Floor(N - 1) = 0
    BY <1>2 DEF Floor
  <2>2. Holds(<<>>, ClosesOf(bars), 0, ErLen + 1) /\ Holds(<<>>, StepsOf(bars), 0, ErLen)
    BY <2>1, <1>4
  <2> QED BY <2>1, <2>2, <1>1, <1>2 DEF Init, EfficiencyInv
<1>11. MomentumInv
  <2>1. MomLen + 1 \in Nat \ {0} /\ Floor(N - 1) = 0
    BY <1>2 DEF Floor
  <2>2. Holds(<<>>, ClosesOf(bars), 0, MomLen + 1) /\ Holds(<<>>, MovesOf(bars), 0, MomLen)
    BY <2>1, <1>4
  <2> QED BY <2>1, <2>2, <1>1, <1>2, <1>5, <1>6 DEF Init, MomentumInv
<1>12. PivotsInv
  <2>1. /\ 2 * PivotLen + 1 \in Nat \ {0} /\ Floor(N - 1 - 2 * PivotLen) = 0
        /\ Floor(N - PivotLen - 1) = 0 /\ ~(N > 2 * PivotLen)
    BY <1>2 DEF Floor
  <2>2. Holds(<<>>, WindowOf(bars), 0, 2 * PivotLen + 1)
    BY <2>1, <1>4
  <2> QED BY <2>1, <2>2, <1>1, <1>2, <1>3 DEF Init, PivotsInv
<1>13. PendingInv
  <2>1. /\ PivotHighs(N) = {} /\ PivotLows(N) = {}
        /\ PivotHighs(N - 1) = {} /\ PivotLows(N - 1) = {}
    BY <1>2 DEF PivotHighs, PivotLows
  <2> QED BY <2>1 DEF Init, PendingInv, LatestHigh, LatestLow
<1>14. BandsInv
  BY <1>2 DEF Init, BandsInv
<1>15. EntryInv
  BY DEF Init, EntryInv
<1>16. PointInv
  BY DEF Init, PointInv
<1> QED BY <1>7, <1>8, <1>9, <1>10, <1>11, <1>12, <1>13, <1>14, <1>15, <1>16 DEF Inv

(* What one more bar leaves and adds.                                      *)
LEMMA OneMoreBar ==
    ASSUME BarsInv, NEW bar \in Bars, NEW endAt, NEW mayEmit, ProcessBar(bar, endAt, mayEmit)
    PROVE  /\ N \in Nat /\ N' = N + 1 /\ N' \in Nat
           /\ bars \in Seq(Bars) /\ bars' \in Seq(Bars) /\ Len(bars) = N /\ Len(bars') = N + 1
           /\ \A k \in 1..N : bars'[k] = bars[k]
           /\ bars'[N + 1] = bar
           /\ bar.high \in Int /\ bar.low \in Int /\ bar.close \in Int
           /\ \A k \in 1..N : bars[k].high \in Int /\ bars[k].low \in Int /\ bars[k].close \in Int
<1>1. bars \in Seq(Bars) /\ bars' = Append(bars, bar)
  BY DEF BarsInv, ProcessBar
<1>2. Len(bars) \in Nat
  BY <1>1, LenProperties
<1>3. /\ bars' \in Seq(Bars) /\ Len(bars') = N + 1
      /\ (\A k \in 1..N : bars'[k] = bars[k]) /\ bars'[N + 1] = bar
  BY <1>1, AppendProperties DEF N
<1>4. \A k \in 1..Len(bars') :
          bars'[k].high \in Int /\ bars'[k].low \in Int /\ bars'[k].close \in Int
  BY <1>3, BarNumbers
<1> QED BY <1>1, <1>2, <1>3, <1>4 DEF N

LEMMA BarsStep ==
    ASSUME BarsInv, NEW bar \in Bars, NEW endAt \in 1..MaxTime, NEW mayEmit,
           ProcessBar(bar, endAt, mayEmit)
    PROVE  BarsInv'
<1>1. /\ N \in Nat /\ N' = N + 1 /\ bars' \in Seq(Bars) /\ bars'[N + 1] = bar
  BY OneMoreBar
<1>2. processed' = N' /\ lastEnd' \in 0..MaxTime
  BY <1>1 DEF ProcessBar, BarsInv
<1>3. lastClose' = bars'[N'].close /\ N' # 0
  BY <1>1 DEF ProcessBar
<1> QED BY <1>1, <1>2, <1>3 DEF BarsInv

LEMMA StructureStep ==
    ASSUME BarsInv, StructureInv, NEW bar \in Bars, NEW endAt, NEW mayEmit,
           ProcessBar(bar, endAt, mayEmit)
    PROVE  StructureInv'
<1> USE Lengths DEF Lens
<1>1. /\ N \in Nat /\ N' = N + 1 /\ bars \in Seq(Bars) /\ bars' \in Seq(Bars)
      /\ Len(bars) = N /\ Len(bars') = N + 1
      /\ (\A k \in 1..N : bars'[k] = bars[k]) /\ bars'[N + 1] = bar
  BY OneMoreBar
<1> DEFINE a == Floor(N - StructLen)
           c == Max({N + 1 - StructLen, 0})
           q == structure.queues
<1>2. c = Floor(N + 1 - StructLen)
  <2>1. N + 1 - StructLen \in Int /\ 0 \in Int
    BY <1>1
  <2>2. c = (IF N + 1 - StructLen >= 0 THEN N + 1 - StructLen ELSE 0)
    BY <2>1, TwoBounds
  <2> QED BY <2>1, <2>2 DEF Floor
<1>3. a \in Nat /\ c \in Nat /\ a <= c /\ a <= N
  BY <1>1, <1>2 DEF Floor
<1>4. structure.next = N /\ TracksBars(q, bars, a, N)
  BY DEF StructureInv
<1>5. structure' = [next |-> N + 1, queues |-> ExpireBars(PushBar(q, N, bar), c)]
  BY <1>4 DEF ProcessBar, PushWindows, PushExtrema
<1> HIDE DEF a, c, q
<1>6. TracksBars(PushBar(q, N, bar), bars', a, N + 1)
  BY <1>1, <1>3, <1>4, PushBarTracks
<1>7. TracksBars(ExpireBars(PushBar(q, N, bar), c), bars', c, N + 1)
  BY <1>1, <1>3, <1>6, ExpireBarsTracks
<1> QED BY <1>1, <1>2, <1>5, <1>7 DEF StructureInv

LEMMA Triangle ==
    ASSUME NEW x \in Int, NEW y \in Int, NEW z \in Int
    PROVE  /\ Abs(z - x) <= Abs(z - y) + Abs(y - x)
           /\ Abs(z - x) \in Nat /\ Abs(z - y) \in Nat /\ Abs(y - x) \in Nat
BY DEF Abs

LEMMA PathStep ==
    ASSUME BarsInv, PathInv, NEW bar \in Bars, NEW endAt, NEW mayEmit,
           ProcessBar(bar, endAt, mayEmit)
    PROVE  PathInv'
<1>1. /\ N \in Nat /\ N' = N + 1 /\ Len(bars) = N
      /\ (\A k \in 1..N : bars'[k] = bars[k]) /\ bars'[N + 1] = bar
      /\ bar.close \in Int /\ \A k \in 1..N : bars[k].close \in Int
  BY OneMoreBar
<1> DEFINE far == IF bars = <<>> THEN 0
                  ELSE walked[Len(bars)] + Abs(bar.close - bars[Len(bars)].close)
<1>2. walked \in Seq(Nat) /\ Len(walked) = N /\ \A k \in 1..N : walked[k] \in Nat
  BY ElementOfSeq DEF PathInv
<1>3. bars = <<>> <=> N = 0
  BY <1>1, EmptySeq DEF BarsInv
<1>4. far = (IF N = 0 THEN 0 ELSE walked[N] + Abs(bar.close - bars[N].close))
  BY <1>1, <1>3
<1>5. far \in Nat
  BY <1>1, <1>2, <1>4 DEF Abs
<1>6. walked' = Append(walked, far)
  BY DEF ProcessBar
<1> HIDE DEF far
<1>7. /\ walked' \in Seq(Nat) /\ Len(walked') = N + 1
      /\ (\A k \in 1..N : walked'[k] = walked[k]) /\ walked'[N + 1] = far
  BY <1>2, <1>5, <1>6, AppendProperties
<1>8. ASSUME NEW k \in 1..(N + 1), k < N + 1
      PROVE  walked'[k + 1] = walked'[k] + Abs(bars'[k + 1].close - bars'[k].close)
  <2>1. k \in 1..N
    BY <1>1, <1>8
  <2>2. CASE k = N
    BY <2>1, <2>2, <1>1, <1>4, <1>7
  <2>3. CASE k < N
    <3>1. k + 1 \in 1..N
      BY <2>1, <2>3, <1>1
    <3>2. walked[k + 1] = walked[k] + Abs(bars[k + 1].close - bars[k].close)
      BY <2>1, <2>3 DEF PathInv
    <3> QED BY <2>1, <3>1, <3>2, <1>1, <1>7
  <2> QED BY <2>1, <2>2, <2>3, <1>1
<1>9. ASSUME NEW j \in 1..(N + 1), NEW k \in 1..(N + 1), j <= k
      PROVE  Abs(bars'[k].close - bars'[j].close) <= walked'[k] - walked'[j]
  <2>1. CASE k \in 1..N
    <3>1. j \in 1..N
      BY <2>1, <1>9, <1>1
    <3>2. Abs(bars[k].close - bars[j].close) <= walked[k] - walked[j]
      BY <2>1, <3>1, <1>9 DEF PathInv
    <3> QED BY <2>1, <3>1, <3>2, <1>1, <1>7
  <2>2. CASE j = N + 1 /\ k = N + 1
    <3>1. Abs(bar.close - bar.close) = 0 /\ far - far = 0
      BY <1>1, <1>5 DEF Abs
    <3> QED BY <2>2, <3>1, <1>1, <1>7
  <2>3. CASE j \in 1..N /\ k = N + 1
    <3>1. N \in 1..N /\ j <= N
      BY <2>3, <1>1
    <3>2. Abs(bars[N].close - bars[j].close) <= walked[N] - walked[j]
      BY <2>3, <3>1 DEF PathInv
    <3>3. far = walked[N] + Abs(bar.close - bars[N].close)
      BY <3>1, <1>4
    <3>4. Abs(bar.close - bars[j].close)
              <= Abs(bar.close - bars[N].close) + Abs(bars[N].close - bars[j].close)
      BY <3>1, <2>3, <1>1, Triangle
    <3>5. /\ walked[N] \in Nat /\ walked[j] \in Nat
          /\ Abs(bar.close - bars[N].close) \in Nat
          /\ Abs(bars[N].close - bars[j].close) \in Nat
          /\ Abs(bar.close - bars[j].close) \in Nat
      BY <3>1, <2>3, <1>1, <1>2, Triangle
    <3>6. Abs(bar.close - bars[j].close) <= far - walked[j]
      BY <3>2, <3>3, <3>4, <3>5
    <3> QED BY <2>3, <3>6, <1>1, <1>7
  <2> QED BY <2>1, <2>2, <2>3, <1>1, <1>9
<1> QED BY <1>1, <1>7, <1>8, <1>9 DEF PathInv

(* The ends of a window that is not empty.                                 *)
LEMMA WindowEnds ==
    ASSUME NEW S, NEW s \in Seq(S), NEW f, NEW n \in Nat, NEW cap \in Nat \ {0},
           Holds(s, f, n, cap)
    PROVE  /\ Len(s) \in Nat /\ Len(s) = (IF n < cap THEN n ELSE cap)
           /\ s = <<>> <=> n = 0
           /\ n > 0 => s[Len(s)] = f[n] /\ Head(s) = f[n - Len(s) + 1]
<1>1. Len(s) \in Nat /\ Len(s) = (IF n < cap THEN n ELSE cap)
  BY DEF Holds
<1>2. s = <<>> <=> n = 0
  BY <1>1, EmptySeq
<1>3. ASSUME n > 0 PROVE s[Len(s)] = f[n] /\ Head(s) = f[n - Len(s) + 1]
  <2>1. Len(s) \in 1..Len(s) /\ 1 \in 1..Len(s) /\ n - Len(s) + Len(s) = n
    BY <1>1, <1>3
  <2>2. Head(s) = s[1]
    BY <1>2, <1>3
  <2>3. s[Len(s)] = f[n - Len(s) + Len(s)] /\ s[1] = f[n - Len(s) + 1]
    BY <2>1 DEF Holds
  <2> QED BY <2>1, <2>2, <2>3
<1> QED BY <1>1, <1>2, <1>3

(* The closes and moves of a sequence of bars that one bar was added to.   *)
LEMMA SameCloses ==
    ASSUME NEW n \in Nat, NEW bs, NEW cs, \A k \in 1..n : cs[k] = bs[k]
    PROVE  /\ \A k \in 1..n : ClosesOf(cs)[k] = ClosesOf(bs)[k]
           /\ ClosesOf(cs)[n + 1] = cs[n + 1].close
<1>1. \A k \in Nat : ClosesOf(cs)[k] = cs[k].close /\ ClosesOf(bs)[k] = bs[k].close
  BY DEF ClosesOf
<1> QED BY <1>1

LEMMA SameMoves ==
    ASSUME NEW n \in Nat \ {0}, NEW bs, NEW cs, \A k \in 1..n : cs[k] = bs[k]
    PROVE  /\ \A k \in 1..(n - 1) : StepsOf(cs)[k] = StepsOf(bs)[k]
           /\ \A k \in 1..(n - 1) : MovesOf(cs)[k] = MovesOf(bs)[k]
           /\ StepsOf(cs)[n] = Abs(cs[n + 1].close - bs[n].close)
           /\ MovesOf(cs)[n] = cs[n + 1].close - bs[n].close
<1>1. \A k \in Nat : /\ StepsOf(cs)[k] = Abs(cs[k + 1].close - cs[k].close)
                     /\ StepsOf(bs)[k] = Abs(bs[k + 1].close - bs[k].close)
                     /\ MovesOf(cs)[k] = cs[k + 1].close - cs[k].close
                     /\ MovesOf(bs)[k] = bs[k + 1].close - bs[k].close
  BY DEF StepsOf, MovesOf
<1>2. \A k \in 1..(n - 1) : k \in Nat /\ k \in 1..n /\ k + 1 \in 1..n
  OBVIOUS
<1>3. n \in 1..n
  OBVIOUS
<1> QED BY <1>1, <1>2, <1>3

SameBefore(cs, bs, n) == \A k \in 1..n : cs[k] = bs[k]
SameMovesBefore(cs, bs, n) == \A k \in 1..(n - 1) : MovesOf(cs)[k] = MovesOf(bs)[k]
LEMMA MovesBefore ==
    ASSUME NEW n \in Nat \ {0}, NEW bs, NEW cs, SameBefore(cs, bs, n)
    PROVE  SameMovesBefore(cs, bs, n)
<1>1. \A k \in Nat : /\ MovesOf(cs)[k] = cs[k + 1].close - cs[k].close
                     /\ MovesOf(bs)[k] = bs[k + 1].close - bs[k].close
  BY DEF MovesOf
<1>2. \A k \in 1..(n - 1) : k \in Nat /\ k \in 1..n /\ k + 1 \in 1..n
  OBVIOUS
<1> QED BY <1>1, <1>2 DEF SameBefore, SameMovesBefore

LEMMA EfficiencyStep ==
    ASSUME BarsInv, PathInv, EfficiencyInv, NEW bar \in Bars, NEW endAt, NEW mayEmit,
           ProcessBar(bar, endAt, mayEmit), PathInv'
    PROVE  EfficiencyInv'
<1> USE Lengths DEF Lens
<1>1. /\ N \in Nat /\ N' = N + 1 /\ Len(bars) = N
      /\ (\A k \in 1..N : bars'[k] = bars[k]) /\ bars'[N + 1] = bar
      /\ bar.close \in Int /\ \A k \in 1..N : bars[k].close \in Int
  BY OneMoreBar
<1> DEFINE cs == er.closes
           ds == er.diffs
           closes == Slide(cs, bar.close, ErLen + 1)
<1>2. /\ cs \in Seq(Int) /\ ds \in Seq(Nat)
      /\ Holds(cs, ClosesOf(bars), N, ErLen + 1)
      /\ Holds(ds, StepsOf(bars), Floor(N - 1), ErLen)
      /\ er.volatility = (IF N = 0 THEN 0 ELSE walked[N] - walked[N - Len(ds)])
  BY DEF EfficiencyInv
<1>3. er' = PushEfficiency(er, bar.close)
  BY DEF ProcessBar, PushWindows
<1>4. /\ \A k \in 1..N : ClosesOf(bars)[k] = bars[k].close
      /\ \A k \in 1..N : StepsOf(bars)[k] = Abs(bars[k + 1].close - bars[k].close)
  BY <1>1 DEF ClosesOf, StepsOf
<1>5. ErLen + 1 \in Nat \ {0}
  OBVIOUS
<1>6. closes \in Seq(Int) /\ Holds(closes, ClosesOf(bars'), N + 1, ErLen + 1)
  <2>1. ClosesOf(bars')[N + 1] = bar.close /\ \A k \in 1..N : ClosesOf(bars')[k] = ClosesOf(bars)[k]
    BY <1>1, SameCloses
  <2>2. N \in Nat /\ bar.close \in Int
    BY <1>1
  <2>3. cs \in Seq(Int) /\ Holds(cs, ClosesOf(bars), N, ErLen + 1)
    BY <1>2
  <2> HIDE DEF cs
  <2> QED BY <2>1, <2>2, <2>3, <1>5, SlideHolds
<1>7. cs = <<>> <=> N = 0
  <2> HIDE DEF cs
  <2> QED BY <1>1, <1>2, <1>5, WindowEnds
<1> HIDE DEF closes, cs, ds
<1>8. CASE N = 0
  <2>1. er' = [er EXCEPT !.closes = closes]
    BY <1>3, <1>7, <1>8 DEF PushEfficiency, closes, cs
  <2>2. er = [closes |-> cs, diffs |-> ds, volatility |-> 0]
    BY <1>2, <1>8 DEF EfficiencyInv, cs, ds
  <2>3. er' = [closes |-> closes, diffs |-> ds, volatility |-> 0]
    BY <2>1, <2>2
  <2>4. Holds(ds, StepsOf(bars'), 0, ErLen) /\ Len(ds) = 0
    <3>1. Floor(N - 1) = 0 /\ Len(ds) = 0
      BY <1>2, <1>8 DEF Floor, Holds
    <3> QED BY <3>1, <1>2 DEF Holds
  <2>5. Floor(N' - 1) = 0 /\ N' = 1
    BY <1>1, <1>8 DEF Floor
  <2>6. walked'[1] - walked'[1 - 0] = 0
    <3>1. walked' \in Seq(Nat) /\ Len(walked') = 1
      BY <2>5 DEF PathInv
    <3>2. walked'[1] \in Nat
      BY <3>1, ElementOfSeq
    <3> QED BY <3>2
  <2> QED BY <2>3, <2>4, <2>5, <2>6, <1>1, <1>2, <1>6 DEF EfficiencyInv
<1>9. CASE N > 0
  <2> DEFINE d == Abs(bar.close - bars[N].close)
             old == IF Dropped(ds, ErLen) THEN Head(ds) ELSE 0
             diffs == Slide(ds, d, ErLen)
  <2>1. cs[Len(cs)] = bars[N].close
    <3>1. cs[Len(cs)] = ClosesOf(bars)[N] /\ N \in 1..N
      BY <1>1, <1>2, <1>5, <1>9, WindowEnds
    <3> QED BY <3>1, <1>4
  <2>2. er' = [closes |-> closes, diffs |-> diffs, volatility |-> er.volatility + d - old]
    BY <2>1, <1>3, <1>7, <1>9 DEF PushEfficiency, closes, cs, ds
  <2>3. Floor(N - 1) = N - 1 /\ N - 1 \in Nat /\ Floor(N' - 1) = N /\ N - 1 + 1 = N
    BY <1>1, <1>9 DEF Floor
  <2>4. d \in Nat /\ d = StepsOf(bars')[N]
    <3>1. N \in 1..N /\ N \in Nat \ {0}
      BY <1>1, <1>9
    <3>2. d \in Nat
      BY <3>1, <1>1, Triangle
    <3>3. StepsOf(bars')[N] = Abs(bars'[N + 1].close - bars[N].close)
      <4>1. N \in Nat \ {0} /\ \A k \in 1..N : bars'[k] = bars[k]
        BY <3>1, <1>1
      <4> QED BY <4>1, SameMoves
    <3> QED BY <3>2, <3>3, <1>1
  <2>5. walked' \in Seq(Nat) /\ Len(walked') = N + 1
        /\ (\A k \in 1..N : walked'[k] = walked[k] /\ walked[k] \in Nat)
        /\ walked'[N + 1] = walked[N] + d
    <3>1. walked' = Append(walked, walked[N] + d)
      BY <1>1, <1>7, <1>9, EmptySeq DEF ProcessBar
    <3>2. walked \in Seq(Nat) /\ Len(walked) = N
      BY DEF PathInv
    <3>3. walked[N] \in Nat
      BY <3>2, <1>1, <1>9, ElementOfSeq
    <3>4. walked[N] + d \in Nat
      BY <3>3, <2>4
    <3> QED BY <3>1, <3>2, <3>4, <1>1, AppendProperties, ElementOfSeq
  <2> HIDE DEF d
  <2>6. /\ diffs \in Seq(Nat) /\ Holds(diffs, StepsOf(bars'), N, ErLen)
        /\ Dropped(ds, ErLen) <=> N - 1 >= ErLen
        /\ Dropped(ds, ErLen) => Head(ds) = StepsOf(bars)[N - 1 - ErLen + 1]
    <3>1. \A k \in 1..(N - 1) : StepsOf(bars')[k] = StepsOf(bars)[k]
      <4>1. N \in Nat \ {0} /\ \A k \in 1..N : bars'[k] = bars[k]
        BY <1>1, <1>9
      <4> QED BY <4>1, SameMoves
    <3>2. Holds(ds, StepsOf(bars), N - 1, ErLen) /\ ds \in Seq(Nat)
      BY <1>2, <2>3
    <3>3. StepsOf(bars')[N - 1 + 1] = d
      BY <2>3, <2>4
    <3>4. N - 1 \in Nat /\ d \in Nat /\ ErLen \in Nat \ {0}
      BY <2>3, <2>4
    <3>5. diffs \in Seq(Nat) /\ Holds(diffs, StepsOf(bars'), N - 1 + 1, ErLen)
      BY <3>1, <3>2, <3>3, <3>4, SlideHolds
    <3>6. /\ Dropped(ds, ErLen) <=> N - 1 >= ErLen
          /\ N - 1 >= ErLen => Head(ds) = StepsOf(bars)[N - 1 - ErLen + 1]
      BY <3>2, <3>4, SlideDrops, SlideOldest
    <3> QED BY <3>5, <3>6, <2>3
  <2>7. Len(ds) \in Nat /\ Len(ds) = (IF N - 1 < ErLen THEN N - 1 ELSE ErLen)
        /\ Len(diffs) = (IF N < ErLen THEN N ELSE ErLen)
    BY <2>3, <2>6, <1>2 DEF Holds
  <2> HIDE DEF diffs
  <2>8. /\ N - 1 < ErLen => old = 0
        /\ N - 1 >= ErLen => old = StepsOf(bars)[N - 1 - ErLen + 1]
    BY <2>6, <1>1
  <2> HIDE DEF old
  <2>9. er.volatility = walked[N] - walked[N - Len(ds)]
    BY <1>2, <1>9
  <2>10. ASSUME N - 1 < ErLen
         PROVE  er.volatility + d - old = walked'[N + 1] - walked'[N + 1 - Len(diffs)]
    <3>1. N - Len(ds) = 1 /\ N + 1 - Len(diffs) = 1 /\ old = 0
      BY <2>10, <2>7, <2>8, <1>1
    <3>2. 1 \in 1..N /\ N \in 1..N
      BY <1>1, <1>9
    <3>3. walked'[1] = walked[1] /\ walked[1] \in Nat /\ walked[N] \in Nat
      BY <3>2, <2>5
    <3>4. er.volatility = walked[N] - walked[1]
      BY <3>1, <2>9
    <3>5. /\ walked'[N + 1 - Len(diffs)] = walked[1] /\ walked'[N + 1] = walked[N] + d
          /\ d \in Nat
      BY <3>1, <3>3, <2>4, <2>5
    <3> QED BY <3>1, <3>3, <3>4, <3>5
  <2>11. ASSUME N - 1 >= ErLen
         PROVE  er.volatility + d - old = walked'[N + 1] - walked'[N + 1 - Len(diffs)]
    <3>1. /\ N - Len(ds) = N - ErLen /\ N + 1 - Len(diffs) = N - ErLen + 1
          /\ N - 1 - ErLen + 1 = N - ErLen
      BY <2>11, <2>7, <1>1
    <3>2. N - ErLen \in 1..N /\ N - ErLen < N /\ N - ErLen + 1 \in 1..N /\ N \in 1..N
      BY <2>11, <1>1
    <3>3. old = StepsOf(bars)[N - ErLen]
      BY <2>11, <2>8, <3>1
    <3>4. old = Abs(bars[N - ErLen + 1].close - bars[N - ErLen].close)
      BY <3>2, <3>3, <1>4
    <3>5. walked[N - ErLen + 1] = walked[N - ErLen] + old
      BY <3>2, <3>4 DEF PathInv
    <3>6. old \in Int
      <4> DEFINE x == bars[N - ErLen].close
                 y == bars[N - ErLen + 1].close
      <4>1. x \in Int /\ y \in Int
        BY <3>2, <1>1
      <4>2. old = Abs(y - x)
        BY <3>4
      <4> HIDE DEF x, y
      <4>3. Abs(y - x) \in Int
        BY <4>1 DEF Abs
      <4> QED BY <4>2, <4>3
    <3>7. walked'[N - ErLen + 1] = walked[N - ErLen + 1] /\ walked[N] \in Nat
          /\ walked[N - ErLen] \in Nat
      BY <3>2, <2>5
    <3>8. er.volatility = walked[N] - walked[N - ErLen]
      BY <3>1, <2>9
    <3>9. /\ walked'[N + 1 - Len(diffs)] = walked[N - ErLen] + old
          /\ walked'[N + 1] = walked[N] + d /\ d \in Nat
      BY <3>1, <3>5, <3>7, <2>4, <2>5
    <3> QED BY <3>6, <3>7, <3>8, <3>9
  <2>12. er.volatility + d - old = walked'[N + 1] - walked'[N + 1 - Len(diffs)]
    <3>1. N - 1 < ErLen \/ N - 1 >= ErLen
      BY <1>1
    <3> QED BY <3>1, <2>10, <2>11
  <2>13. er'.closes = closes /\ er'.diffs = diffs
         /\ er'.volatility = walked'[N + 1] - walked'[N + 1 - Len(diffs)]
    BY <2>2, <2>12
  <2>14. er' = [closes |-> closes, diffs |-> diffs, volatility |-> er'.volatility]
    BY <2>2, <2>13
  <2>15. N' # 0 /\ Floor(N' - 1) = N
    BY <1>1, <2>3
  <2>16. /\ er'.closes \in Seq(Int) /\ er'.diffs \in Seq(Nat)
         /\ Holds(er'.closes, ClosesOf(bars'), N', ErLen + 1)
         /\ Holds(er'.diffs, StepsOf(bars'), Floor(N' - 1), ErLen)
    BY <2>6, <2>13, <2>15, <1>1, <1>6
  <2>17. er'.volatility = (IF N' = 0 THEN 0 ELSE walked'[N'] - walked'[N' - Len(er'.diffs)])
    BY <2>13, <2>15, <1>1
  <2>18. er' = [closes |-> er'.closes, diffs |-> er'.diffs, volatility |-> er'.volatility]
    BY <2>13, <2>14
  <2> QED BY <2>16, <2>17, <2>18 DEF EfficiencyInv
<1> QED BY <1>1, <1>8, <1>9

(* A counted set that loses one member and gains another.                  *)
LEMMA CountSlides ==
    ASSUME NEW R, IsFiniteSet(R), NEW x, NEW y, y \notin R, NEW up \in BOOLEAN
    PROVE  /\ Cardinality(R) \in Nat
           /\ Cardinality((R \ {x}) \cup (IF up THEN {y} ELSE {}))
                  = Cardinality(R) + (IF up THEN 1 ELSE 0) - (IF x \in R THEN 1 ELSE 0)
<1> DEFINE T == R \ {x}
<1>1. /\ IsFiniteSet(T) /\ Cardinality(R) \in Nat /\ Cardinality(T) \in Nat
      /\ Cardinality(T) = (IF x \in R THEN Cardinality(R) - 1 ELSE Cardinality(R))
  BY FS_RemoveElement, FS_CardinalityType
<1>2. y \notin T
  OBVIOUS
<1> HIDE DEF T
<1>3. Cardinality(T \cup {y}) = Cardinality(T) + 1
  BY <1>1, <1>2, FS_AddElement
<1>4. CASE up
  <2>1. T \cup (IF up THEN {y} ELSE {}) = T \cup {y}
    BY <1>4
  <2> QED BY <2>1, <1>1, <1>3, <1>4 DEF T
<1>5. CASE ~up
  <2>1. T \cup (IF up THEN {y} ELSE {}) = T
    BY <1>5
  <2> QED BY <2>1, <1>1, <1>5 DEF T
<1> QED BY <1>4, <1>5

LEMMA MomentumStep ==
    ASSUME BarsInv, MomentumInv, NEW bar \in Bars, NEW endAt, NEW mayEmit,
           ProcessBar(bar, endAt, mayEmit)
    PROVE  MomentumInv'
<1> USE Lengths DEF Lens
<1>1. /\ N \in Nat /\ N' = N + 1 /\ Len(bars) = N
      /\ (\A k \in 1..N : bars'[k] = bars[k]) /\ bars'[N + 1] = bar
      /\ bar.close \in Int /\ \A k \in 1..N : bars[k].close \in Int
  BY OneMoreBar
<1> DEFINE cs == momentum.closes
           ds == momentum.diffs
           R == Rising(MomLen)
           F == Falling(MomLen)
           closes == Slide(cs, bar.close, MomLen + 1)
<1>2. /\ cs \in Seq(Int) /\ ds \in Seq(Int)
      /\ Holds(cs, ClosesOf(bars), N, MomLen + 1)
      /\ Holds(ds, MovesOf(bars), Floor(N - 1), MomLen)
      /\ momentum = [closes |-> cs, diffs |-> ds,
                     positive |-> Cardinality(R), negative |-> Cardinality(F)]
  BY DEF MomentumInv
<1>3. momentum' = PushMomentum(momentum, bar.close)
  BY DEF ProcessBar, PushWindows
<1>4. MomLen + 1 \in Nat \ {0}
  OBVIOUS
<1>5. closes \in Seq(Int) /\ Holds(closes, ClosesOf(bars'), N + 1, MomLen + 1)
  <2>1. ClosesOf(bars')[N + 1] = bar.close /\ \A k \in 1..N : ClosesOf(bars')[k] = ClosesOf(bars)[k]
    <3>1. N \in Nat /\ \A k \in 1..N : bars'[k] = bars[k]
      BY <1>1
    <3>2. /\ ClosesOf(bars')[N + 1] = bars'[N + 1].close
          /\ \A k \in 1..N : ClosesOf(bars')[k] = ClosesOf(bars)[k]
      BY <3>1, SameCloses
    <3> QED BY <3>2, <1>1
  <2>2. N \in Nat /\ bar.close \in Int
    BY <1>1
  <2>3. cs \in Seq(Int) /\ Holds(cs, ClosesOf(bars), N, MomLen + 1)
    BY <1>2
  <2> HIDE DEF cs
  <2> QED BY <2>1, <2>2, <2>3, <1>4, SlideHolds
<1>6. cs = <<>> <=> N = 0
  <2> HIDE DEF cs
  <2> QED BY <1>1, <1>2, <1>4, WindowEnds
<1> HIDE DEF closes, cs, ds, R, F
<1>7. CASE N = 0
  <2>1. momentum' = [momentum EXCEPT !.closes = closes]
    BY <1>3, <1>6, <1>7 DEF PushMomentum, closes, cs
  <2>2. R = {} /\ F = {} /\ Rising(MomLen)' = {} /\ Falling(MomLen)' = {}
    BY <1>1, <1>7 DEF R, F, Rising, Falling, Last
  <2>3. momentum' = [closes |-> closes, diffs |-> ds, positive |-> Cardinality({}),
                     negative |-> Cardinality({})]
    BY <2>1, <2>2, <1>2
  <2>4. Holds(ds, MovesOf(bars'), 0, MomLen)
    <3>1. Floor(N - 1) = 0 /\ Len(ds) = 0
      BY <1>2, <1>7 DEF Floor, Holds
    <3> QED BY <3>1, <1>2 DEF Holds
  <2>5. Floor(N' - 1) = 0
    BY <1>1, <1>7 DEF Floor
  <2> QED BY <2>2, <2>3, <2>4, <2>5, <1>1, <1>2, <1>5 DEF MomentumInv
<1>8. CASE N > 0
  <2> DEFINE d == bar.close - bars[N].close
             removed == IF Dropped(ds, MomLen) THEN Head(ds) ELSE 0
             diffs == Slide(ds, d, MomLen)
             x == N + 1 - MomLen
  <2>1. cs[Len(cs)] = bars[N].close
    <3>1. cs[Len(cs)] = ClosesOf(bars)[N]
      BY <1>1, <1>2, <1>4, <1>8, WindowEnds
    <3> QED BY <3>1, <1>1 DEF ClosesOf
  <2>2. momentum' = [closes |-> closes, diffs |-> diffs,
                     positive |-> Cardinality(R) + Rises(d) - Rises(removed),
                     negative |-> Cardinality(F) + Falls(d) - Falls(removed)]
    <3>1. momentum' = [AddDiff(momentum, d) EXCEPT !.closes = Slide(@, bar.close, MomLen + 1)]
      BY <2>1, <1>3, <1>6, <1>8 DEF PushMomentum, cs
    <3>2. AddDiff(momentum, d) =
              [closes |-> cs, diffs |-> diffs,
               positive |-> Cardinality(R) + Rises(d) - Rises(removed),
               negative |-> Cardinality(F) + Falls(d) - Falls(removed)]
      <4> DEFINE p == Cardinality(R)
                 q == Cardinality(F)
      <4>1. momentum = [closes |-> cs, diffs |-> ds, positive |-> p, negative |-> q]
        BY <1>2
      <4> HIDE DEF p, q, d
      <4>2. AddDiff(momentum, d) =
                [closes |-> cs, diffs |-> Slide(ds, d, MomLen),
                 positive |-> p + Rises(d) - Rises(removed),
                 negative |-> q + Falls(d) - Falls(removed)]
        BY <4>1 DEF AddDiff
      <4> QED BY <4>2 DEF p, q
    <3> HIDE DEF d, diffs, removed
    <3> QED BY <3>1, <3>2 DEF closes
  <2>3. N \in Nat \ {0} /\ \A k \in 1..N : bars'[k] = bars[k]
    BY <1>1, <1>8
  <2>4. Floor(N - 1) = N - 1 /\ N - 1 \in Nat /\ Floor(N' - 1) = N /\ N - 1 + 1 = N
    BY <1>1, <1>8 DEF Floor
  <2>5. d \in Int /\ MovesOf(bars')[N - 1 + 1] = d
    <3>1. N \in 1..N
      BY <2>3
    <3>2. d \in Int
      BY <3>1, <1>1
    <3>3. MovesOf(bars')[N] = bars'[N + 1].close - bars[N].close
      BY <2>3, SameMoves
    <3> QED BY <3>2, <3>3, <2>4, <1>1
  <2>6. /\ diffs \in Seq(Int) /\ Holds(diffs, MovesOf(bars'), N, MomLen)
        /\ Dropped(ds, MomLen) <=> N - 1 >= MomLen
        /\ N - 1 >= MomLen => Head(ds) = MovesOf(bars)[N - MomLen]
    <3> HIDE DEF d
    <3>1. \A k \in 1..(N - 1) : MovesOf(bars')[k] = MovesOf(bars)[k]
      <4>1. PICK n, old, new : n = N /\ old = bars /\ new = bars'
        OBVIOUS
      <4>2. n \in Nat \ {0} /\ SameBefore(new, old, n)
        BY <2>3, <4>1 DEF SameBefore
      <4>3. SameMovesBefore(new, old, n)
        BY <4>2, MovesBefore
      <4>4. \A k \in 1..(n - 1) : MovesOf(new)[k] = MovesOf(old)[k]
        BY <4>3 DEF SameMovesBefore
      <4> QED BY <4>1, <4>4
    <3>2. Holds(ds, MovesOf(bars), N - 1, MomLen) /\ ds \in Seq(Int)
      BY <1>2, <2>4
    <3>3. N - 1 \in Nat /\ MomLen \in Nat \ {0} /\ N - 1 - MomLen + 1 = N - MomLen
      BY <2>4
    <3>4. diffs \in Seq(Int) /\ Holds(diffs, MovesOf(bars'), N - 1 + 1, MomLen)
      BY <3>1, <3>2, <3>3, <2>5, SlideHolds
    <3>5. /\ Dropped(ds, MomLen) <=> N - 1 >= MomLen
          /\ N - 1 >= MomLen => Head(ds) = MovesOf(bars)[N - 1 - MomLen + 1]
      <4>1. N - 1 \in Nat /\ MomLen \in Nat \ {0}
        BY <3>3
      <4>2. Dropped(ds, MomLen) <=> N - 1 >= MomLen
        BY <3>2, <4>1, SlideDrops
      <4>3. N - 1 >= MomLen => Head(ds) = MovesOf(bars)[N - 1 - MomLen + 1]
        BY <3>2, <4>1, SlideOldest
      <4> QED BY <4>2, <4>3
    <3> QED BY <3>3, <3>4, <3>5, <2>4
  <2>7. /\ R \subseteq 1..N /\ F \subseteq 1..N /\ x \in Int
        /\ IsFiniteSet(R) /\ IsFiniteSet(F) /\ N + 1 \notin R /\ N + 1 \notin F
    <3>1. R \subseteq 1..N /\ F \subseteq 1..N
      BY DEF R, F, Rising, Falling, Last
    <3>2. N \in Int /\ 1 \in Int
      BY <1>1
    <3>3. IsFiniteSet(1..N)
      BY <3>2, FS_Interval
    <3>4. IsFiniteSet(R) /\ IsFiniteSet(F)
      BY <3>1, <3>3, FS_Subset
    <3>5. N + 1 \notin 1..N /\ x \in Int
      BY <1>1
    <3> QED BY <3>1, <3>4, <3>5
  <2>8. /\ Rising(MomLen)' = (R \ {x}) \cup (IF d > 0 THEN {N + 1} ELSE {})
        /\ Falling(MomLen)' = (F \ {x}) \cup (IF d < 0 THEN {N + 1} ELSE {})
    <3>1. \A k : k \in Last(MomLen)' <=> k \in (Last(MomLen) \ {x}) \cup {N + 1}
      BY <1>1 DEF Last
    <3>2. \A k \in 1..N : k > 1 => /\ bars'[k].close = bars[k].close
                                  /\ bars'[k - 1].close = bars[k - 1].close
      <4> TAKE k \in 1..N
      <4> HAVE k > 1
      <4>1. k - 1 \in 1..N
        BY <1>1
      <4> QED BY <4>1, <2>3
    <3>3. /\ N + 1 > 1 /\ N + 1 - 1 = N /\ bars'[N] = bars[N] /\ bars'[N + 1] = bar
          /\ (bar.close > bars[N].close <=> d > 0) /\ (bar.close < bars[N].close <=> d < 0)
      <4>1. N \in 1..N
        BY <2>3
      <4> QED BY <4>1, <1>1
    <3>4. Last(MomLen) \subseteq 1..N
      BY DEF Last
    <3> HIDE DEF d, x
    <3>5. ASSUME NEW k
          PROVE  k \in Rising(MomLen)' <=> k \in (R \ {x}) \cup (IF d > 0 THEN {N + 1} ELSE {})
      <4>1. CASE k = N + 1
        <5>1. k \in Last(MomLen)' /\ k \notin R
          BY <4>1, <3>1, <2>7
        <5>2. k > 1 /\ bars'[k] = bar /\ bars'[k - 1] = bars[N]
          <6>1. k > 1 /\ k - 1 = N
            BY <4>1, <1>1, <1>8
          <6> QED BY <6>1, <4>1, <3>3
        <5>3. k \in Rising(MomLen)' <=> d > 0
          BY <5>1, <5>2, <3>3 DEF Rising
        <5> QED BY <4>1, <5>1, <5>3
      <4>2. CASE k # N + 1
        <5>1. k \in Last(MomLen)' <=> k \in Last(MomLen) \ {x}
          BY <4>2, <3>1
        <5>2. k \in Rising(MomLen)' <=> k \in R \ {x}
          BY <5>1, <3>2, <3>4 DEF Rising, R
        <5> QED BY <4>2, <5>2
      <4> QED BY <4>1, <4>2
    <3>6. ASSUME NEW k
          PROVE  k \in Falling(MomLen)' <=> k \in (F \ {x}) \cup (IF d < 0 THEN {N + 1} ELSE {})
      <4>1. CASE k = N + 1
        <5>1. k \in Last(MomLen)' /\ k \notin F
          BY <4>1, <3>1, <2>7
        <5>2. k > 1 /\ bars'[k] = bar /\ bars'[k - 1] = bars[N]
          <6>1. k > 1 /\ k - 1 = N
            BY <4>1, <1>1, <1>8
          <6> QED BY <6>1, <4>1, <3>3
        <5>3. k \in Falling(MomLen)' <=> d < 0
          BY <5>1, <5>2, <3>3 DEF Falling
        <5> QED BY <4>1, <5>1, <5>3
      <4>2. CASE k # N + 1
        <5>1. k \in Last(MomLen)' <=> k \in Last(MomLen) \ {x}
          BY <4>2, <3>1
        <5>2. k \in Falling(MomLen)' <=> k \in F \ {x}
          BY <5>1, <3>2, <3>4 DEF Falling, F
        <5> QED BY <4>2, <5>2
      <4> QED BY <4>1, <4>2
    <3> QED BY <3>5, <3>6
  <2>9. /\ x \in R <=> removed > 0
        /\ x \in F <=> removed < 0
    <3>1. CASE N - 1 >= MomLen
      <4>1. x \in 1..N /\ x > 1 /\ x > N - MomLen /\ x - 1 = N - MomLen
        BY <3>1, <1>1
      <4>2. removed = MovesOf(bars)[x - 1]
        BY <3>1, <4>1, <2>6
      <4>3. removed = bars[x].close - bars[x - 1].close
        <5>1. x - 1 \in Nat /\ x - 1 + 1 = x
          BY <4>1
        <5> QED BY <5>1, <4>2 DEF MovesOf
      <4>4. bars[x].close \in Int /\ bars[x - 1].close \in Int
        BY <4>1, <1>1
      <4> HIDE DEF x, removed
      <4> QED BY <4>1, <4>3, <4>4 DEF R, F, Rising, Falling, Last
    <3>2. CASE N - 1 < MomLen
      <4>1. ~(x > 1) /\ removed = 0
        BY <3>2, <1>1, <2>6
      <4> HIDE DEF x, removed
      <4> QED BY <4>1 DEF R, F, Rising, Falling, Last
    <3> QED BY <3>1, <3>2, <1>1
  <2>10. /\ (d > 0) \in BOOLEAN /\ (d < 0) \in BOOLEAN
    OBVIOUS
  <2> HIDE DEF d, removed, diffs, x
  <2>11. /\ Cardinality(Rising(MomLen)') = Cardinality(R) + Rises(d) - Rises(removed)
         /\ Cardinality(Falling(MomLen)') = Cardinality(F) + Falls(d) - Falls(removed)
    <3>1. Cardinality((R \ {x}) \cup (IF d > 0 THEN {N + 1} ELSE {}))
              = Cardinality(R) + (IF d > 0 THEN 1 ELSE 0) - (IF x \in R THEN 1 ELSE 0)
      <4> DEFINE up == d > 0
      <4>1. up \in BOOLEAN /\ IsFiniteSet(R) /\ N + 1 \notin R
        BY <2>7, <2>10
      <4> HIDE DEF up
      <4>2. Cardinality((R \ {x}) \cup (IF up THEN {N + 1} ELSE {}))
                = Cardinality(R) + (IF up THEN 1 ELSE 0) - (IF x \in R THEN 1 ELSE 0)
        BY <4>1, CountSlides
      <4> QED BY <4>2 DEF up
    <3>2. Cardinality((F \ {x}) \cup (IF d < 0 THEN {N + 1} ELSE {}))
              = Cardinality(F) + (IF d < 0 THEN 1 ELSE 0) - (IF x \in F THEN 1 ELSE 0)
      <4> DEFINE up == d < 0
      <4>1. up \in BOOLEAN /\ IsFiniteSet(F) /\ N + 1 \notin F
        BY <2>7, <2>10
      <4> HIDE DEF up
      <4>2. Cardinality((F \ {x}) \cup (IF up THEN {N + 1} ELSE {}))
                = Cardinality(F) + (IF up THEN 1 ELSE 0) - (IF x \in F THEN 1 ELSE 0)
        BY <4>1, CountSlides
      <4> QED BY <4>2 DEF up
    <3>3. /\ Rises(d) = (IF d > 0 THEN 1 ELSE 0) /\ Rises(removed) = (IF x \in R THEN 1 ELSE 0)
          /\ Falls(d) = (IF d < 0 THEN 1 ELSE 0) /\ Falls(removed) = (IF x \in F THEN 1 ELSE 0)
      BY <2>9 DEF Rises, Falls
    <3> QED BY <3>1, <3>2, <3>3, <2>8
  <2>12. /\ momentum'.closes = closes /\ momentum'.diffs = diffs
         /\ momentum' = [closes |-> closes, diffs |-> diffs,
                         positive |-> Cardinality(Rising(MomLen)'),
                         negative |-> Cardinality(Falling(MomLen)')]
    BY <2>2, <2>11
  <2> QED BY <2>4, <2>6, <2>12, <1>1, <1>5 DEF MomentumInv
<1> QED BY <1>1, <1>7, <1>8

(* A position that the window still holds is found in it.                  *)
LEMMA WindowLookup ==
    ASSUME NEW w \in Seq(PivotBars), NEW f, NEW n \in Nat \ {0}, NEW cap \in Nat \ {0},
           Holds(w, f, n, cap), \A k \in 1..n : f[k].seq = k - 1,
           NEW s \in Nat, s < n, s >= n - cap
    PROVE  WindowValue(w, s) = f[s + 1]
<1>1. /\ Len(w) \in Nat /\ Len(w) = (IF n < cap THEN n ELSE cap)
      /\ w # <<>> /\ Head(w) = f[n - Len(w) + 1]
  <2>1. n \in Nat /\ n > 0 /\ n # 0
    OBVIOUS
  <2> QED BY <2>1, WindowEnds
<1>2. n - Len(w) + 1 \in 1..n
  BY <1>1
<1>3. Head(w).seq = n - Len(w)
  <2> DEFINE i == n - Len(w) + 1
  <2>1. i - 1 = n - Len(w)
    BY <1>1
  <2>2. i \in 1..n /\ Head(w) = f[i]
    BY <1>1, <1>2
  <2> HIDE DEF i
  <2>3. f[i].seq = i - 1
    BY <2>2
  <2> QED BY <2>1, <2>2, <2>3
<1> DEFINE k == s - Head(w).seq + 1
<1>4. k \in 1..Len(w) /\ n - Len(w) + k = s + 1
  <2>1. PICK l, h : l = Len(w) /\ h = Head(w).seq
    OBVIOUS
  <2>2. l \in Nat /\ l = (IF n < cap THEN n ELSE cap) /\ h = n - l /\ k = s - h + 1
    BY <1>1, <1>3, <2>1
  <2> HIDE DEF k
  <2>3. k = s - n + l + 1 /\ k \in Int
    BY <2>2
  <2>4. k >= 1 /\ k <= l /\ n - l + k = s + 1
    BY <2>2, <2>3
  <2> QED BY <2>1, <2>2, <2>3, <2>4
<1>5. w[k] = f[s + 1]
  <2> HIDE DEF k
  <2>1. w[k] = f[n - Len(w) + k]
    BY <1>4 DEF Holds
  <2> QED BY <2>1, <1>4
<1>6. w[k].seq = s
  <2>1. s + 1 \in 1..n /\ s + 1 - 1 = s
    OBVIOUS
  <2>2. f[s + 1].seq = s + 1 - 1
    BY <2>1
  <2> QED BY <2>1, <2>2, <1>5
<1>7. DOMAIN w = 1..Len(w)
  OBVIOUS
<1> QED BY <1>4, <1>5, <1>6, <1>7 DEF WindowValue

(* The bars as the window of the pivots holds them.                        *)
LEMMA WindowBars ==
    ASSUME NEW bs \in Seq(Bars), NEW k \in 1..Len(bs)
    PROVE  /\ WindowOf(bs)[k] \in PivotBars /\ WindowOf(bs)[k] # None
           /\ WindowOf(bs)[k].seq = k - 1
           /\ WindowOf(bs)[k].high = bs[k].high /\ WindowOf(bs)[k].low = bs[k].low
<1>1. Len(bs) \in Nat /\ bs[k].high \in Int /\ bs[k].low \in Int
  BY BarNumbers
<1>2. k \in Nat /\ k - 1 \in Nat
  BY <1>1
<1>3. WindowOf(bs)[k] = [seq |-> k - 1, high |-> bs[k].high, low |-> bs[k].low]
  BY <1>2 DEF WindowOf
<1>4. WindowOf(bs)[k] \in PivotBars
  BY <1>1, <1>2, <1>3 DEF PivotBars
<1> QED BY <1>3, <1>4, NoneAssumption

LEMMA WindowStep ==
    ASSUME BarsInv, PivotsInv, NEW bar \in Bars, NEW endAt, NEW mayEmit,
           ProcessBar(bar, endAt, mayEmit)
    PROVE  /\ pivots'.window \in Seq(PivotBars)
           /\ pivots'.window = Slide(pivots.window,
                  [seq |-> N, high |-> bar.high, low |-> bar.low], 2 * PivotLen + 1)
           /\ Holds(pivots'.window, WindowOf(bars'), N + 1, 2 * PivotLen + 1)
<1> USE Lengths DEF Lens
<1>1. /\ N \in Nat /\ bars \in Seq(Bars) /\ bars' \in Seq(Bars)
      /\ Len(bars) = N /\ Len(bars') = N + 1
      /\ (\A k \in 1..N : bars'[k] = bars[k]) /\ bars'[N + 1] = bar
      /\ bar.high \in Int /\ bar.low \in Int
  BY OneMoreBar
<1> DEFINE x == [seq |-> N, high |-> bar.high, low |-> bar.low]
           cap == 2 * PivotLen + 1
           f == WindowOf(bars)
           g == WindowOf(bars')
           w == pivots.window
<1>2. x \in PivotBars
  BY <1>1 DEF PivotBars
<1>3. cap \in Nat \ {0}
  OBVIOUS
<1>4. \A k \in 1..N : g[k] = f[k]
  <2> TAKE k \in 1..N
  <2>1. k \in Nat /\ bars'[k] = bars[k]
    BY <1>1
  <2> QED BY <2>1 DEF WindowOf
<1>5. g[N + 1] = x
  <2>1. N + 1 \in Nat /\ N + 1 - 1 = N
    BY <1>1
  <2> QED BY <2>1, <1>1 DEF WindowOf
<1>6. w \in Seq(PivotBars) /\ Holds(w, f, N, cap) /\ pivots.next = N
  BY DEF PivotsInv
<1>7. pivots'.window = Slide(w, x, cap)
  BY <1>6 DEF ProcessBar, PushWindows, PushPivot
<1> HIDE DEF x, cap, f, g, w
<1>8. Slide(w, x, cap) \in Seq(PivotBars) /\ Holds(Slide(w, x, cap), g, N + 1, cap)
  BY <1>1, <1>2, <1>3, <1>4, <1>5, <1>6, SlideHolds
<1> QED BY <1>7, <1>8 DEF x, cap, g, w

LEMMA LeftStep ==
    ASSUME BarsInv, PivotsInv, NEW bar \in Bars, NEW endAt, NEW mayEmit,
           ProcessBar(bar, endAt, mayEmit)
    PROVE  TracksBars(pivots'.left, bars', Floor(N - 2 * PivotLen), Floor(N - PivotLen))
<1> USE Lengths DEF Lens
<1>1. /\ N \in Nat /\ bars \in Seq(Bars) /\ bars' \in Seq(Bars)
      /\ Len(bars) = N /\ Len(bars') = N + 1
      /\ \A k \in 1..N : bars'[k] = bars[k]
  BY OneMoreBar
<1> DEFINE a == Floor(N - 1 - 2 * PivotLen)
           b == Floor(N - PivotLen - 1)
           w == pivots'.window
           leftSeq == N - PivotLen - 1
           leftBar == IF N > PivotLen THEN WindowValue(w, leftSeq) ELSE None
           q == pivots.left
           left == IF leftBar = None THEN q ELSE PushBar(q, leftSeq, leftBar)
<1>2. a \in Nat /\ b \in Nat /\ a <= b /\ b <= N
  BY <1>1 DEF Floor
<1>3. pivots.next = N /\ TracksBars(q, bars, a, b)
  BY DEF PivotsInv
<1>4. pivots'.left = IF N >= 2 * PivotLen THEN ExpireBars(left, N - 2 * PivotLen) ELSE left
  BY <1>3, WindowStep DEF ProcessBar, PushWindows, PushPivot
<1>5. TracksBars(left, bars', a, Floor(N - PivotLen))
  <2>1. CASE N > PivotLen
    <3>1. /\ b = leftSeq /\ leftSeq \in Nat /\ leftSeq + 1 = Floor(N - PivotLen)
          /\ leftSeq + 1 \in 1..(N + 1) /\ leftSeq < N + 1
          /\ leftSeq >= N + 1 - (2 * PivotLen + 1)
      BY <2>1, <1>1 DEF Floor
    <3> HIDE DEF leftSeq
    <3>2. WindowValue(w, leftSeq) = WindowOf(bars')[leftSeq + 1]
      <4>1. w \in Seq(PivotBars) /\ Holds(w, WindowOf(bars'), N + 1, 2 * PivotLen + 1)
        BY WindowStep
      <4>2. N + 1 \in Nat \ {0} /\ 2 * PivotLen + 1 \in Nat \ {0}
        BY <1>1
      <4>3. \A k \in 1..(N + 1) : WindowOf(bars')[k].seq = k - 1
        BY <1>1, WindowBars
      <4> DEFINE n == N + 1
                 cap == 2 * PivotLen + 1
                 f == WindowOf(bars')
      <4>4. n \in Nat \ {0} /\ cap \in Nat \ {0} /\ w \in Seq(PivotBars) /\ Holds(w, f, n, cap)
        BY <4>1, <4>2
      <4>5. (\A k \in 1..n : f[k].seq = k - 1) /\ leftSeq \in Nat /\ leftSeq < n /\ leftSeq >= n - cap
        <5>1. \A k \in 1..n : f[k].seq = k - 1
          BY <4>3
        <5>2. leftSeq \in Nat /\ leftSeq < n /\ leftSeq >= n - cap
          BY <3>1, <1>1
        <5> QED BY <5>1, <5>2
      <4> HIDE DEF w, n, cap, f
      <4>6. WindowValue(w, leftSeq) = f[leftSeq + 1]
        BY <4>4, <4>5, WindowLookup
      <4> QED BY <4>6 DEF f
    <3>3. /\ WindowOf(bars')[leftSeq + 1] # None
          /\ WindowOf(bars')[leftSeq + 1].high = bars'[leftSeq + 1].high
          /\ WindowOf(bars')[leftSeq + 1].low = bars'[leftSeq + 1].low
      <4>1. leftSeq + 1 \in 1..Len(bars')
        BY <3>1, <1>1
      <4> HIDE DEF leftSeq
      <4> QED BY <4>1, <1>1, WindowBars
    <3>4. /\ leftBar # None /\ left = PushBar(q, leftSeq, leftBar)
          /\ leftBar.high = bars'[leftSeq + 1].high /\ leftBar.low = bars'[leftSeq + 1].low
      BY <2>1, <3>2, <3>3
    <3> HIDE DEF leftBar, left, q, a, b, w
    <3>5. TracksBars(q, bars, a, leftSeq) /\ a <= leftSeq /\ leftSeq <= Len(bars)
          /\ leftSeq < Len(bars') /\ \A k \in 1..leftSeq : bars'[k] = bars[k]
      BY <1>1, <1>2, <1>3, <3>1
    <3>6. TracksBars(PushBar(q, leftSeq, leftBar), bars', a, leftSeq + 1)
      BY <1>1, <1>2, <3>1, <3>4, <3>5, PushBarTracks
    <3> QED BY <3>1, <3>4, <3>6
  <2>2. CASE ~(N > PivotLen)
    <3>1. left = q /\ b = 0 /\ Floor(N - PivotLen) = 0
      BY <2>2, <1>1 DEF Floor
    <3> HIDE DEF left, q, a, b
    <3>2. TracksBars(q, bars', a, b)
      <4>1. b <= Len(bars) /\ \A k \in 1..b : bars'[k] = bars[k]
        BY <1>1, <1>2
      <4> QED BY <4>1, <1>1, <1>2, <1>3, SameBarsTrack
    <3> QED BY <3>1, <3>2
  <2> QED BY <2>1, <2>2
<1> HIDE DEF left
<1>6. CASE N >= 2 * PivotLen
  <2> DEFINE c == N - 2 * PivotLen
             d == Floor(N - PivotLen)
  <2>1. /\ c \in Nat /\ d \in Nat /\ a <= c /\ Floor(N - 2 * PivotLen) = c
    BY <1>1, <1>6 DEF Floor
  <2>2. TracksBars(left, bars', a, d) /\ pivots'.left = ExpireBars(left, c)
    BY <1>4, <1>5, <1>6
  <2> HIDE DEF a, c, d
  <2>3. TracksBars(ExpireBars(left, c), bars', c, d)
    BY <1>2, <2>1, <2>2, ExpireBarsTracks
  <2> QED BY <2>1, <2>2, <2>3 DEF d
<1>7. CASE ~(N >= 2 * PivotLen)
  <2>1. a = 0 /\ Floor(N - 2 * PivotLen) = 0
    BY <1>1, <1>7 DEF Floor
  <2> QED BY <2>1, <1>4, <1>5, <1>7
<1> QED BY <1>6, <1>7

LEMMA RightStep ==
    ASSUME BarsInv, PivotsInv, NEW bar \in Bars, NEW endAt, NEW mayEmit,
           ProcessBar(bar, endAt, mayEmit)
    PROVE  TracksBars(pivots'.right, bars',
                      IF N >= 2 * PivotLen THEN N + 1 - PivotLen ELSE 0, N + 1)
<1> USE Lengths DEF Lens
<1>1. /\ N \in Nat /\ bars \in Seq(Bars) /\ bars' \in Seq(Bars)
      /\ Len(bars) = N /\ Len(bars') = N + 1
      /\ (\A k \in 1..N : bars'[k] = bars[k]) /\ bars'[N + 1] = bar
  BY OneMoreBar
<1> DEFINE a == IF N > 2 * PivotLen THEN N - PivotLen ELSE 0
           q == pivots.right
           c == N - PivotLen + 1
<1>2. a \in Nat /\ a <= N
  BY <1>1
<1>3. pivots.next = N /\ TracksBars(q, bars, a, N)
  BY DEF PivotsInv
<1>4. pivots'.right = IF N >= 2 * PivotLen THEN ExpireBars(PushBar(q, N, bar), c)
                      ELSE PushBar(q, N, bar)
  BY <1>3 DEF ProcessBar, PushWindows, PushPivot
<1> HIDE DEF q
<1>5. TracksBars(PushBar(q, N, bar), bars', a, N + 1)
  <2> HIDE DEF a
  <2> QED BY <1>1, <1>2, <1>3, PushBarTracks
<1>6. CASE N >= 2 * PivotLen
  <2>1. c \in Nat /\ a <= c /\ c = N + 1 - PivotLen /\ N + 1 \in Nat
    BY <1>1, <1>6
  <2> HIDE DEF a, c
  <2>2. TracksBars(ExpireBars(PushBar(q, N, bar), c), bars', c, N + 1)
    BY <1>2, <1>5, <2>1, ExpireBarsTracks
  <2> QED BY <2>1, <2>2, <1>4, <1>6
<1>7. CASE ~(N >= 2 * PivotLen)
  <2>1. a = 0
    BY <1>1, <1>7
  <2> QED BY <2>1, <1>4, <1>5, <1>7
<1> QED BY <1>6, <1>7

LEMMA PivotsStep ==
    ASSUME BarsInv, PivotsInv, NEW bar \in Bars, NEW endAt, NEW mayEmit,
           ProcessBar(bar, endAt, mayEmit)
    PROVE  PivotsInv'
<1>1. N \in Nat /\ N' = N + 1 /\ PivotLen \in Nat \ {0}
  BY OneMoreBar, Lengths DEF Lens
<1>2. /\ pivots'.window \in Seq(PivotBars)
      /\ Holds(pivots'.window, WindowOf(bars'), N', 2 * PivotLen + 1)
  BY <1>1, WindowStep
<1>3. /\ N' - 1 - 2 * PivotLen = N - 2 * PivotLen /\ N' - PivotLen - 1 = N - PivotLen
      /\ N' > 2 * PivotLen <=> N >= 2 * PivotLen
  BY <1>1
<1>4. TracksBars(pivots'.left, bars', Floor(N' - 1 - 2 * PivotLen), Floor(N' - PivotLen - 1))
  BY <1>3, LeftStep
<1>5. TracksBars(pivots'.right, bars', IF N' > 2 * PivotLen THEN N' - PivotLen ELSE 0, N')
  BY <1>1, <1>3, RightStep
<1>6. pivots' = [next |-> N', window |-> pivots'.window,
                 left |-> pivots'.left, right |-> pivots'.right]
  <2>1. pivots.next = N
    BY DEF PivotsInv
  <2> QED BY <2>1, <1>1 DEF ProcessBar, PushWindows, PushPivot
<1> QED BY <1>2, <1>4, <1>5, <1>6 DEF PivotsInv

(* Strictly beyond the front is strictly beyond every position.            *)
LEMMA FrontsExceeded ==
    ASSUME NEW bs \in Seq(Bars), NEW queues, NEW a \in Nat, NEW b \in Nat,
           a < b, b <= Len(bs), TracksBars(queues, bs, a, b), NEW v \in Int
    PROVE  /\ Exceeds("Max", v, queues.high) <=> \A k \in (a + 1)..b : bs[k].high < v
           /\ Exceeds("Min", v, queues.low) <=> \A k \in (a + 1)..b : bs[k].low > v
<1>1. /\ Len(bs) \in Nat
      /\ \A k \in 1..Len(bs) : bs[k].high \in Int /\ bs[k].low \in Int
  BY BarNumbers
<1>2. \A k \in (a + 1)..b : bs[k].high \in Int /\ bs[k].low \in Int
  <2> TAKE k \in (a + 1)..b
  <2>1. k \in 1..Len(bs)
    BY <1>1
  <2> QED BY <2>1, <1>1
<1> DEFINE top == Head(queues.high).value
           bottom == Head(queues.low).value
<1>3. /\ queues.high # <<>> /\ queues.low # <<>>
      /\ Head(queues.high).value \in Int /\ Head(queues.low).value \in Int
      /\ \E k \in (a + 1)..b : Head(queues.high).value = bs[k].high
      /\ \E k \in (a + 1)..b : Head(queues.low).value = bs[k].low
      /\ \A k \in (a + 1)..b : bs[k].high <= Head(queues.high).value
      /\ \A k \in (a + 1)..b : bs[k].low >= Head(queues.low).value
  BY FrontsAreExtreme
<1>4. /\ \A k \in (a + 1)..b : bs[k].high <= top
      /\ \A k \in (a + 1)..b : bs[k].low >= bottom
      /\ \E k \in (a + 1)..b : top = bs[k].high
      /\ \E k \in (a + 1)..b : bottom = bs[k].low
  BY <1>3
<1>5. Exceeds("Max", v, queues.high) <=> top < v
  BY <1>3 DEF Exceeds, Removes
<1>6. Exceeds("Min", v, queues.low) <=> bottom > v
  BY <1>3 DEF Exceeds, Removes
<1> HIDE DEF top, bottom
<1>7. top < v <=> \A k \in (a + 1)..b : bs[k].high < v
  <2>1. top \in Int
    BY <1>3 DEF top
  <2>2. ASSUME top < v, NEW k \in (a + 1)..b PROVE bs[k].high < v
    BY <1>2, <1>4, <2>1, <2>2
  <2>3. ASSUME \A k \in (a + 1)..b : bs[k].high < v PROVE top < v
    BY <1>4, <2>3
  <2> QED BY <2>2, <2>3
<1>8. bottom > v <=> \A k \in (a + 1)..b : bs[k].low > v
  <2>1. bottom \in Int
    BY <1>3 DEF bottom
  <2>2. ASSUME bottom > v, NEW k \in (a + 1)..b PROVE bs[k].low > v
    BY <1>2, <1>4, <2>1, <2>2
  <2>3. ASSUME \A k \in (a + 1)..b : bs[k].low > v PROVE bottom > v
    BY <1>4, <2>3
  <2> QED BY <2>2, <2>3
<1> QED BY <1>5, <1>6, <1>7, <1>8

(* The pivots among the first n of a sequence of bars.                     *)
HighPivots(bs, n) ==
    {k \in (PivotLen + 1)..(n - PivotLen) :
        \A j \in Around(k) : bs[j].high < bs[k].high}
LowPivots(bs, n) ==
    {k \in (PivotLen + 1)..(n - PivotLen) :
        \A j \in Around(k) : bs[j].low > bs[k].low}

LEMMA PivotSets ==
    /\ \A n : PivotHighs(n) = HighPivots(bars, n) /\ PivotLows(n) = LowPivots(bars, n)
    /\ PivotHighs(N)' = HighPivots(bars', N') /\ PivotLows(N)' = LowPivots(bars', N')
    /\ PivotHighs(N - 1)' = HighPivots(bars', N' - 1)
    /\ PivotLows(N - 1)' = LowPivots(bars', N' - 1)
BY DEF PivotHighs, PivotLows, HighPivots, LowPivots

(* The neighbours of a bar with PivotLen bars on both sides.               *)
LEMMA Neighbours ==
    ASSUME NEW n \in Nat, NEW k \in (PivotLen + 1)..(n - PivotLen)
    PROVE  k \in 1..n /\ \A j \in Around(k) : j \in 1..n
<1> USE Lengths DEF Lens
<1> QED BY DEF Around

LEMMA SamePivots ==
    ASSUME NEW n \in Nat, NEW bs, NEW cs, \A k \in 1..n : cs[k] = bs[k]
    PROVE  HighPivots(cs, n) = HighPivots(bs, n) /\ LowPivots(cs, n) = LowPivots(bs, n)
<1>1. ASSUME NEW k \in (PivotLen + 1)..(n - PivotLen)
      PROVE  cs[k] = bs[k] /\ \A j \in Around(k) : cs[j] = bs[j]
  BY Neighbours
<1> QED BY <1>1 DEF HighPivots, LowPivots

(* What one more bar makes a pivot is PivotLen before it.                  *)
LEMMA OlderPivots ==
    ASSUME NEW n \in Nat, NEW bs
    PROVE  /\ HighPivots(bs, n) \subseteq 1..n /\ LowPivots(bs, n) \subseteq 1..n
           /\ \A k \in HighPivots(bs, n) \cup LowPivots(bs, n) : k <= n - PivotLen
           /\ \A k : k \in HighPivots(bs, n - 1) <=>
                         k \in HighPivots(bs, n) /\ k # n - PivotLen
           /\ \A k : k \in LowPivots(bs, n - 1) <=>
                         k \in LowPivots(bs, n) /\ k # n - PivotLen
<1> USE Lengths DEF Lens
<1>1. \A k \in (PivotLen + 1)..(n - PivotLen) : k \in 1..n /\ k <= n - PivotLen
  OBVIOUS
<1>2. \A k : k \in (PivotLen + 1)..(n - 1 - PivotLen) <=>
                 k \in (PivotLen + 1)..(n - PivotLen) /\ k # n - PivotLen
  OBVIOUS
<1> QED BY <1>1, <1>2 DEF HighPivots, LowPivots

LEMMA LatestMoves ==
    ASSUME NEW n \in Nat, NEW U, U \subseteq 1..n, NEW T, NEW c \in Int,
           \A k \in U : k <= c, \A k : k \in T <=> k \in U /\ k # c
    PROVE  /\ U # {} => Max(U) \in 1..n
           /\ c \in U => U # {} /\ Max(U) = c
           /\ c \notin U => U = T
<1>1. ASSUME U # {} PROVE Max(U) \in U /\ \A y \in U : Max(U) >= y
  <2>1. IsFiniteSet(1..n)
    BY FS_Interval
  <2>2. U \in SUBSET Int
    OBVIOUS
  <2>3. IsFiniteSet(U)
    BY <2>1, FS_Subset
  <2> QED BY <1>1, <2>2, <2>3, HasMax
<1>2. ASSUME c \in U PROVE U # {} /\ Max(U) = c
  <2>1. U # {}
    BY <1>2
  <2>2. Max(U) \in U /\ Max(U) >= c
    BY <2>1, <1>1, <1>2
  <2> DEFINE m == Max(U)
  <2> HIDE DEF m
  <2>3. m \in U /\ m >= c
    BY <2>2 DEF m
  <2>4. m <= c /\ m \in Int
    BY <2>3
  <2>5. m = c
    BY <2>3, <2>4
  <2> QED BY <2>1, <2>5 DEF m
<1> QED BY <1>1, <1>2

(* The pivot of a bar that has just got PivotLen later ones.               *)
LEMMA UpdateStep ==
    ASSUME BarsInv, PivotsInv, NEW bar \in Bars, NEW endAt, NEW mayEmit,
           ProcessBar(bar, endAt, mayEmit)
    PROVE  pending' = [high |-> IF N' - PivotLen \in HighPivots(bars', N')
                                THEN bars'[N' - PivotLen].high ELSE None,
                       low  |-> IF N' - PivotLen \in LowPivots(bars', N')
                                THEN bars'[N' - PivotLen].low ELSE None]
<1> USE Lengths DEF Lens
<1>1. /\ N \in Nat /\ N' = N + 1 /\ bars' \in Seq(Bars) /\ Len(bars') = N + 1
  BY OneMoreBar
<1> DEFINE c == N' - PivotLen
           w == pivots'.window
           centre == WindowValue(w, pivots'.next - 1 - PivotLen)
           confirmed(mode, side) ==
               /\ pivots'.next > 2 * PivotLen
               /\ centre # None
               /\ Exceeds(mode, centre[side], pivots'.left[side])
               /\ Exceeds(mode, centre[side], pivots'.right[side])
<1>2. pending' = [high |-> IF confirmed("Max", "high") THEN centre.high ELSE None,
                  low  |-> IF confirmed("Min", "low") THEN centre.low ELSE None]
  BY DEF ProcessBar, PushWindows, PivotUpdate
<1>3. pivots'.next = N + 1
  <2>1. pivots.next = N
    BY DEF PivotsInv
  <2> QED BY <2>1 DEF ProcessBar, PushWindows, PushPivot
<1>4. CASE N < 2 * PivotLen
  <2>1. ~confirmed("Max", "high") /\ ~confirmed("Min", "low")
    BY <1>1, <1>3, <1>4
  <2>2. c \notin HighPivots(bars', N') /\ c \notin LowPivots(bars', N')
    BY <1>1, <1>4 DEF HighPivots, LowPivots
  <2> QED BY <1>2, <2>1, <2>2
<1>5. CASE N >= 2 * PivotLen
  <2>1. /\ c \in 1..(N + 1) /\ c - 1 \in Nat /\ c - 1 < N + 1 /\ c - 1 + 1 = c
        /\ c - 1 >= N + 1 - (2 * PivotLen + 1) /\ pivots'.next - 1 - PivotLen = c - 1
        /\ c \in (PivotLen + 1)..(N' - PivotLen) /\ c \in Nat
    BY <1>1, <1>3, <1>5
  <2>2. WindowValue(w, c - 1) = WindowOf(bars')[c]
    <3> DEFINE n == N + 1
               cap == 2 * PivotLen + 1
               f == WindowOf(bars')
               s == c - 1
    <3>1. w \in Seq(PivotBars) /\ Holds(w, f, n, cap)
      BY WindowStep
    <3>2. n \in Nat \ {0} /\ cap \in Nat \ {0}
      BY <1>1
    <3>3. \A k \in 1..n : f[k].seq = k - 1
      BY <1>1, WindowBars
    <3>4. s \in Nat /\ s < n /\ s >= n - cap
      BY <2>1, <1>1
    <3> HIDE DEF w, n, cap, f, s
    <3>5. WindowValue(w, s) = f[s + 1]
      BY <3>1, <3>2, <3>3, <3>4, WindowLookup
    <3> QED BY <3>5, <2>1 DEF f, s
  <2>3. /\ centre # None /\ centre.high = bars'[c].high /\ centre.low = bars'[c].low
        /\ bars'[c].high \in Int /\ bars'[c].low \in Int
    <3>1. c \in 1..Len(bars')
      BY <2>1, <1>1
    <3>2. centre = WindowOf(bars')[c]
      BY <2>1, <2>2
    <3> HIDE DEF c, centre
    <3> QED BY <3>1, <3>2, <1>1, WindowBars, BarNumbers
  <2> HIDE DEF centre
  <2>4. /\ Exceeds("Max", bars'[c].high, pivots'.left.high) <=>
               \A k \in (c - PivotLen)..(c - 1) : bars'[k].high < bars'[c].high
        /\ Exceeds("Min", bars'[c].low, pivots'.left.low) <=>
               \A k \in (c - PivotLen)..(c - 1) : bars'[k].low > bars'[c].low
    <3> DEFINE a == N - 2 * PivotLen
               b == N - PivotLen
               q == pivots'.left
               h == bars'[c].high
               l == bars'[c].low
    <3>1. /\ a \in Nat /\ b \in Nat /\ a < b /\ b <= Len(bars')
          /\ a + 1 = c - PivotLen /\ b = c - 1
          /\ a = Floor(N - 2 * PivotLen) /\ b = Floor(N - PivotLen)
      BY <1>1, <1>5 DEF Floor
    <3>2. TracksBars(q, bars', a, b)
      BY <3>1, LeftStep
    <3>3. h \in Int /\ l \in Int
      BY <2>3
    <3>4. bars' \in Seq(Bars)
      BY <1>1
    <3> HIDE DEF a, b, q, h, l, c
    <3>5. /\ Exceeds("Max", h, q.high) <=> \A k \in (a + 1)..b : bars'[k].high < h
          /\ Exceeds("Min", l, q.low) <=> \A k \in (a + 1)..b : bars'[k].low > l
      BY <3>1, <3>2, <3>3, <3>4, FrontsExceeded
    <3> QED BY <3>1, <3>5 DEF q, h, l
  <2>5. /\ Exceeds("Max", bars'[c].high, pivots'.right.high) <=>
               \A k \in (c + 1)..(c + PivotLen) : bars'[k].high < bars'[c].high
        /\ Exceeds("Min", bars'[c].low, pivots'.right.low) <=>
               \A k \in (c + 1)..(c + PivotLen) : bars'[k].low > bars'[c].low
    <3> DEFINE a == N + 1 - PivotLen
               b == N + 1
               q == pivots'.right
               h == bars'[c].high
               l == bars'[c].low
    <3>1. /\ a \in Nat /\ b \in Nat /\ a < b /\ b <= Len(bars')
          /\ a + 1 = c + 1 /\ b = c + PivotLen
          /\ a = (IF N >= 2 * PivotLen THEN N + 1 - PivotLen ELSE 0)
      BY <1>1, <1>5
    <3>2. TracksBars(q, bars', a, b)
      BY <3>1, RightStep
    <3>3. h \in Int /\ l \in Int
      BY <2>3
    <3>4. bars' \in Seq(Bars)
      BY <1>1
    <3> HIDE DEF a, b, q, h, l, c
    <3>5. /\ Exceeds("Max", h, q.high) <=> \A k \in (a + 1)..b : bars'[k].high < h
          /\ Exceeds("Min", l, q.low) <=> \A k \in (a + 1)..b : bars'[k].low > l
      <4>1. a \in Nat /\ b \in Nat /\ a < b /\ b <= Len(bars')
        BY <3>1
      <4> QED BY <4>1, <3>2, <3>3, <3>4, FrontsExceeded
    <3> QED BY <3>1, <3>5 DEF q, h, l
  <2>6. \A j : j \in Around(c) <=> j \in (c - PivotLen)..(c - 1) \/ j \in (c + 1)..(c + PivotLen)
    <3> HIDE DEF c
    <3> QED BY <2>1 DEF Around
  <2>7. /\ c \in HighPivots(bars', N') <=> \A j \in Around(c) : bars'[j].high < bars'[c].high
        /\ c \in LowPivots(bars', N') <=> \A j \in Around(c) : bars'[j].low > bars'[c].low
    <3> HIDE DEF c
    <3> QED BY <2>1 DEF HighPivots, LowPivots
  <2>8. pivots'.next > 2 * PivotLen
    BY <1>1, <1>3, <1>5
  <2> HIDE DEF c
  <2>9. /\ confirmed("Max", "high") <=> c \in HighPivots(bars', N')
        /\ confirmed("Min", "low") <=> c \in LowPivots(bars', N')
    BY <2>3, <2>4, <2>5, <2>6, <2>7, <2>8
  <2> HIDE DEF confirmed
  <2> QED BY <1>2, <2>3, <2>9 DEF c
<1> QED BY <1>1, <1>4, <1>5

(* The pivot that was pending becomes the one in use.                      *)
LEMMA AppliedStep ==
    ASSUME BarsInv, PendingInv, NEW bar \in Bars, NEW endAt, NEW mayEmit,
           ProcessBar(bar, endAt, mayEmit)
    PROVE  lastPivot' = [high |-> LatestHigh(N - 1)', low |-> LatestLow(N - 1)']
<1> USE Lengths DEF Lens
<1>1. /\ N \in Nat /\ N' = N + 1 /\ Len(bars) = N /\ bars \in Seq(Bars)
      /\ \A k \in 1..N : bars'[k] = bars[k]
  BY OneMoreBar
<1>2. /\ \A k \in 1..N : bars[k].high \in Int /\ bars[k].low \in Int
      /\ \A x \in Int : x # None
  BY OneMoreBar, NoneAssumption
<1> DEFINE c == N - PivotLen
           U == HighPivots(bars, N)
           T == HighPivots(bars, N - 1)
           V == LowPivots(bars, N)
           W == LowPivots(bars, N - 1)
<1>3. N' - 1 = N /\ c \in Int
  BY <1>1
<1>4. /\ pending = [high |-> IF c \in U THEN bars[c].high ELSE None,
                    low  |-> IF c \in V THEN bars[c].low ELSE None]
      /\ lastPivot = [high |-> IF T = {} THEN None ELSE bars[Max(T)].high,
                      low  |-> IF W = {} THEN None ELSE bars[Max(W)].low]
  BY PivotSets DEF PendingInv, LatestHigh, LatestLow
<1>5. HighPivots(bars', N) = U /\ LowPivots(bars', N) = V
  BY <1>1, SamePivots
<1>6. PivotHighs(N - 1)' = U /\ PivotLows(N - 1)' = V
  BY <1>3, <1>5, PivotSets
<1>7. /\ LatestHigh(N - 1)' = (IF U = {} THEN None ELSE bars'[Max(U)].high)
      /\ LatestLow(N - 1)' = (IF V = {} THEN None ELSE bars'[Max(V)].low)
  <2>1. /\ LatestHigh(N - 1)' = (IF PivotHighs(N - 1)' = {} THEN None
                                 ELSE bars'[Max(PivotHighs(N - 1)')].high)
        /\ LatestLow(N - 1)' = (IF PivotLows(N - 1)' = {} THEN None
                                ELSE bars'[Max(PivotLows(N - 1)')].low)
    BY DEF LatestHigh, LatestLow
  <2> HIDE DEF U, V
  <2> QED BY <2>1, <1>6
<1>8. lastPivot' = [side \in {"high", "low"} |->
                        IF pending[side] = None THEN lastPivot[side] ELSE pending[side]]
  BY DEF ProcessBar, PushWindows, AppliedPivots
<1>9. /\ U \subseteq 1..N /\ (\A k \in U : k <= c) /\ \A k : k \in T <=> k \in U /\ k # c
      /\ V \subseteq 1..N /\ (\A k \in V : k <= c) /\ \A k : k \in W <=> k \in V /\ k # c
  BY <1>1, OlderPivots
<1> HIDE DEF c, U, T, V, W
<1>10. /\ U # {} => Max(U) \in 1..N
       /\ c \in U => U # {} /\ Max(U) = c
       /\ c \notin U => U = T
  <2>1. U \subseteq 1..N /\ (\A k \in U : k <= c) /\ \A k : k \in T <=> k \in U /\ k # c
    BY <1>9
  <2>2. N \in Nat /\ c \in Int
    BY <1>1, <1>3
  <2> QED BY <2>1, <2>2, LatestMoves
<1>11. /\ V # {} => Max(V) \in 1..N
       /\ c \in V => V # {} /\ Max(V) = c
       /\ c \notin V => V = W
  <2>1. V \subseteq 1..N /\ (\A k \in V : k <= c) /\ \A k : k \in W <=> k \in V /\ k # c
    BY <1>9
  <2>2. N \in Nat /\ c \in Int
    BY <1>1, <1>3
  <2> QED BY <2>1, <2>2, LatestMoves
<1>12. (IF pending["high"] = None THEN lastPivot["high"] ELSE pending["high"])
           = LatestHigh(N - 1)'
  <2>1. CASE c \in U
    <3>1. c \in 1..N /\ U # {} /\ Max(U) = c
      BY <2>1, <1>9, <1>10
    <3> QED BY <2>1, <3>1, <1>1, <1>2, <1>4, <1>7
  <2>2. CASE c \notin U
    BY <2>2, <1>1, <1>4, <1>7, <1>10
  <2> QED BY <2>1, <2>2
<1>13. (IF pending["low"] = None THEN lastPivot["low"] ELSE pending["low"])
           = LatestLow(N - 1)'
  <2>1. CASE c \in V
    <3>1. c \in 1..N /\ V # {} /\ Max(V) = c
      BY <2>1, <1>9, <1>11
    <3> QED BY <2>1, <3>1, <1>1, <1>2, <1>4, <1>7
  <2>2. CASE c \notin V
    BY <2>2, <1>1, <1>4, <1>7, <1>11
  <2> QED BY <2>1, <2>2
<1>14. lastPivot' = [high |-> lastPivot'["high"], low |-> lastPivot'["low"]]
  BY <1>8
<1>15. lastPivot'["high"] = LatestHigh(N - 1)' /\ lastPivot'["low"] = LatestLow(N - 1)'
  BY <1>8, <1>12, <1>13
<1> QED BY <1>14, <1>15

LEMMA PendingStep ==
    ASSUME BarsInv, PivotsInv, PendingInv, NEW bar \in Bars, NEW endAt, NEW mayEmit,
           ProcessBar(bar, endAt, mayEmit)
    PROVE  PendingInv'
<1>1. pending' = [high |-> IF N' - PivotLen \in PivotHighs(N)'
                           THEN bars'[N' - PivotLen].high ELSE None,
                  low  |-> IF N' - PivotLen \in PivotLows(N)'
                           THEN bars'[N' - PivotLen].low ELSE None]
  BY UpdateStep, PivotSets
<1> QED BY <1>1, AppliedStep DEF PendingInv

(* What MoveBands makes of the bands and the trend.                        *)
LEMMA BandsMove ==
    ASSUME BarsInv, BandsInv, NEW bar \in Bars, NEW endAt, NEW mayEmit,
           ProcessBar(bar, endAt, mayEmit)
    PROVE  \E below \in Nat, above \in Nat, source \in Int, charBase \in BOOLEAN, prev \in Int :
               /\ N > 0 => prev = bars[N].close
               /\ CloseSource => source = bar.close
               /\ lower' = (IF lower # None /\ prev > lower
                            THEN (IF source - below >= lower THEN source - below ELSE lower)
                            ELSE source - below)
               /\ upper' = (IF upper # None /\ prev < upper
                            THEN (IF source + above <= upper THEN source + above ELSE upper)
                            ELSE source + above)
               /\ trend' = NextTrend(bar, source, charBase)
               /\ trendStart' = IF trend' # trend THEN processed ELSE trendStart
<1> USE Lengths DEF Lens
<1> DEFINE prev == IF lastClose = None THEN bar.close ELSE lastClose
           atLeastAge == CharFlip /\ TrendAge >= CharFlipMinAge
<1>1. PICK source \in SourceValues(bar),
           below \in (IF processed + 1 < AtrLen THEN {0} ELSE Widths),
           above \in (IF processed + 1 < AtrLen THEN {0} ELSE Widths),
           charBase \in (IF atLeastAge THEN BOOLEAN ELSE {FALSE}) :
               /\ lower' = NextLower(source - below, prev)
               /\ upper' = NextUpper(source + above, prev)
               /\ trend' = NextTrend(bar, source, charBase)
               /\ trendStart' = IF trend' # trend THEN processed ELSE trendStart
  BY DEF ProcessBar, MoveBands
<1>2. below \in Nat /\ above \in Nat
  BY IndicatorAssumption
<1>3. charBase \in BOOLEAN
  OBVIOUS
<1>4. /\ N \in Nat /\ bar.high \in Int /\ bar.low \in Int /\ bar.close \in Int
      /\ \A k \in 1..N : bars[k].close \in Int
  BY OneMoreBar
<1>5. source \in Int /\ (CloseSource => source = bar.close)
  BY <1>4 DEF SourceValues
<1>6. prev \in Int /\ (N > 0 => prev = bars[N].close)
  <2>1. CASE N = 0
    BY <2>1, <1>4 DEF BarsInv
  <2>2. CASE N > 0
    <3>1. bars[N].close \in Int /\ lastClose = bars[N].close
      BY <2>2, <1>4 DEF BarsInv
    <3> QED BY <3>1, NoneAssumption
  <2> QED BY <2>1, <2>2, <1>4
<1>7. /\ lower # None => lower \in Int
      /\ upper # None => upper \in Int
  BY <1>4 DEF BandsInv
<1> HIDE DEF prev, atLeastAge
<1>8. lower' = (IF lower # None /\ prev > lower
                THEN (IF source - below >= lower THEN source - below ELSE lower)
                ELSE source - below)
  <2>1. lower' = IF lower # None /\ prev > lower THEN Max({source - below, lower})
                 ELSE source - below
    BY <1>1 DEF NextLower
  <2>2. source - below \in Int
    BY <1>2, <1>5
  <2>3. CASE lower # None
    <3>1. Max({source - below, lower}) =
              IF source - below >= lower THEN source - below ELSE lower
      BY <2>2, <2>3, <1>7, TwoBounds
    <3> QED BY <2>1, <3>1
  <2>4. CASE lower = None
    BY <2>1, <2>4
  <2> QED BY <2>3, <2>4
<1>9. upper' = (IF upper # None /\ prev < upper
                THEN (IF source + above <= upper THEN source + above ELSE upper)
                ELSE source + above)
  <2>1. upper' = IF upper # None /\ prev < upper THEN Min({source + above, upper})
                 ELSE source + above
    BY <1>1 DEF NextUpper
  <2>2. source + above \in Int
    BY <1>2, <1>5
  <2>3. CASE upper # None
    <3>1. Min({source + above, upper}) =
              IF source + above <= upper THEN source + above ELSE upper
      BY <2>2, <2>3, <1>7, TwoBounds
    <3> QED BY <2>1, <3>1
  <2>4. CASE upper = None
    BY <2>1, <2>4
  <2> QED BY <2>3, <2>4
<1>10. /\ trend' = NextTrend(bar, source, charBase)
       /\ trendStart' = IF trend' # trend THEN processed ELSE trendStart
  BY <1>1
<1> QED BY <1>2, <1>3, <1>5, <1>6, <1>8, <1>9, <1>10

(* A flip brings the other band, which may have been held back: the close  *)
(* that flips is beyond the band of its trend, hence beyond the close      *)
(* before it, hence beyond a band that was held back.                      *)
LEMMA BandsStep ==
    ASSUME BarsInv, BandsInv, NEW bar \in Bars, NEW endAt, NEW mayEmit,
           ProcessBar(bar, endAt, mayEmit)
    PROVE  /\ BandsInv'
           /\ CloseSource /\ trend' = trend =>
                  /\ trend = 1 /\ lower # None /\ lastClose # lower => lower' >= lower
                  /\ trend = -1 /\ lastClose # upper => upper' <= upper
<1>1. /\ N \in Nat /\ N' = N + 1 /\ bars'[N + 1] = bar /\ bar.close \in Int
      /\ \A k \in 1..N : bars[k].close \in Int
  BY OneMoreBar
<1>2. PICK below \in Nat, above \in Nat, source \in Int, charBase \in BOOLEAN, prev \in Int :
               /\ N > 0 => prev = bars[N].close
               /\ CloseSource => source = bar.close
               /\ lower' = (IF lower # None /\ prev > lower
                            THEN (IF source - below >= lower THEN source - below ELSE lower)
                            ELSE source - below)
               /\ upper' = (IF upper # None /\ prev < upper
                            THEN (IF source + above <= upper THEN source + above ELSE upper)
                            ELSE source + above)
               /\ trend' = NextTrend(bar, source, charBase)
               /\ trendStart' = IF trend' # trend THEN processed ELSE trendStart
  BY BandsMove
<1>3. /\ trend \in {1, -1} /\ trendStart \in Nat /\ processed \in Nat
      /\ N = 0 => lower = None /\ upper = None /\ trend = 1
      /\ N > 0 => lower \in Int /\ upper \in Int
      /\ CloseSource /\ N > 0 => /\ trend = 1 => lower <= bars[N].close
                                 /\ trend = -1 => upper >= bars[N].close
  BY <1>1 DEF BandsInv, BarsInv
<1>4. \A x \in Int : x # None
  BY NoneAssumption
<1>5. lower' \in Int /\ upper' \in Int
  <2>1. (lower # None => lower \in Int) /\ (upper # None => upper \in Int)
    BY <1>1, <1>3
  <2> QED BY <1>2, <2>1
<1>6. trend' \in {1, -1} /\ trendStart' \in Nat
  <2>1. trend' \in {1, -1}
    BY <1>2, <1>3 DEF NextTrend
  <2> QED BY <2>1, <1>2, <1>3
<1>7. ASSUME CloseSource
      PROVE  /\ trend' = 1 => \/ trend = 1 /\ (lower # None => bar.close >= lower)
                              \/ trend = -1 /\ upper # None /\ bar.close > upper
             /\ trend' = -1 => \/ trend = -1 /\ (upper # None => bar.close <= upper)
                               \/ trend = 1 /\ lower # None /\ bar.close < lower
  <2>1. source = bar.close
    BY <1>2, <1>7
  <2>2. ~(bar.close > source) /\ ~(bar.close < source)
    BY <2>1, <1>1
  <2>3. trend' = CASE trend = -1 /\ upper # None /\ bar.close > upper -> 1
                   [] trend = 1 /\ lower # None /\ bar.close < lower -> -1
                   [] OTHER -> trend
    BY <2>2, <1>2 DEF NextTrend, PriceFlipUp, PriceFlipDown
  <2>4. CASE trend = 1
    <3>1. trend' = IF lower # None /\ bar.close < lower THEN -1 ELSE 1
      BY <2>3, <2>4
    <3> QED BY <2>4, <3>1, <1>1, <1>3
  <2>5. CASE trend = -1
    <3>1. trend' = IF upper # None /\ bar.close > upper THEN 1 ELSE -1
      BY <2>3, <2>5
    <3> QED BY <2>5, <3>1, <1>1, <1>3
  <2> QED BY <2>4, <2>5, <1>3
<1>8. ASSUME CloseSource, trend' = 1 PROVE lower' <= bar.close
  <2>1. source - below <= bar.close
    BY <1>2, <1>8
  <2>2. ASSUME lower # None, prev > lower PROVE lower <= bar.close
    <3>1. N > 0 /\ lower \in Int /\ upper \in Int /\ prev = bars[N].close
      BY <2>2, <1>1, <1>2, <1>3
    <3>2. CASE trend = 1
      BY <3>1, <3>2, <2>2, <1>7, <1>8
    <3>3. CASE trend = -1
      <4>1. bar.close > upper /\ upper >= prev
        BY <3>1, <3>3, <1>3, <1>7, <1>8
      <4> QED BY <3>1, <4>1, <2>2, <1>1
    <3> QED BY <3>2, <3>3, <1>3
  <2> QED BY <2>1, <2>2, <1>2
<1>9. ASSUME CloseSource, trend' = -1 PROVE upper' >= bar.close
  <2>1. source + above >= bar.close
    BY <1>2, <1>9
  <2>2. ASSUME upper # None, prev < upper PROVE upper >= bar.close
    <3>1. N > 0 /\ lower \in Int /\ upper \in Int /\ prev = bars[N].close
      BY <2>2, <1>1, <1>2, <1>3
    <3>2. CASE trend = -1
      BY <3>1, <3>2, <2>2, <1>7, <1>9
    <3>3. CASE trend = 1
      <4>1. bar.close < lower /\ lower <= prev
        BY <3>1, <3>3, <1>3, <1>7, <1>9
      <4> QED BY <3>1, <4>1, <2>2, <1>1
    <3> QED BY <3>2, <3>3, <1>3
  <2> QED BY <2>1, <2>2, <1>2
<1>10. BandsInv'
  <2>1. N' # 0 /\ N' > 0 /\ bars'[N'] = bar
    BY <1>1
  <2> QED BY <2>1, <1>5, <1>6, <1>8, <1>9 DEF BandsInv
<1>11. ASSUME CloseSource, trend = 1, lower # None, lastClose # lower PROVE lower' >= lower
  <2>1. N > 0 /\ lower \in Int /\ prev = bars[N].close /\ lastClose = bars[N].close
    BY <1>1, <1>2, <1>3, <1>11 DEF BarsInv
  <2>2. prev > lower
    BY <2>1, <1>3, <1>11
  <2> QED BY <2>1, <2>2, <1>2, <1>11
<1>12. ASSUME CloseSource, trend = -1, lastClose # upper PROVE upper' <= upper
  <2>1. N > 0 /\ upper \in Int /\ prev = bars[N].close /\ lastClose = bars[N].close
    BY <1>1, <1>2, <1>3, <1>12 DEF BarsInv
  <2>2. prev < upper /\ upper # None
    BY <2>1, <1>3, <1>4, <1>12
  <2> QED BY <2>1, <2>2, <1>2
<1> QED BY <1>10, <1>11, <1>12

(* The entry of a point.                                                   *)
LEMMA PointEntry ==
    ASSUME BarsInv, BandsInv, NEW bar \in Bars, NEW endAt, NEW mayEmit,
           ProcessBar(bar, endAt, mayEmit)
    PROVE  /\ point' = Point(mayEmit)
           /\ point'.entry = EntrySide(mayEmit)
           /\ processed \in Nat /\ processed' = processed + 1
           /\ trend \in {1, -1} /\ trend' \in {1, -1}
           /\ EntrySide(mayEmit) \in {None, "long", "short"}
           /\ EntrySide(mayEmit) # None =>
                  /\ processed + 1 >= MinWarmup /\ trend' # trend
                  /\ EntrySide(mayEmit) = (IF trend' = 1 THEN "long" ELSE "short")
           /\ mayEmit = TRUE /\ processed + 1 >= MinWarmup /\ trend' # trend =>
                  EntrySide(mayEmit) # None
<1> USE Lengths DEF Lens
<1>1. point' = Point(mayEmit) /\ processed' = processed + 1
  BY DEF ProcessBar
<1>2. point'.entry = EntrySide(mayEmit)
  BY <1>1 DEF Point
<1>3. processed \in Nat /\ trend \in {1, -1}
  BY OneMoreBar DEF BarsInv, BandsInv
<1>4. trend' \in {1, -1}
  <2>1. BandsInv'
    BY BandsStep
  <2> QED BY <2>1 DEF BandsInv
<1>5. None # "long" /\ None # "short"
  BY NoneAssumption
<1>6. EntrySide(mayEmit) =
          IF ~mayEmit \/ processed + 1 < MinWarmup \/ trend' = trend THEN None
          ELSE IF trend' = 1 THEN "long" ELSE "short"
  BY DEF EntrySide
<1>7. EntrySide(mayEmit) # None => /\ processed + 1 >= MinWarmup /\ trend' # trend
                                   /\ EntrySide(mayEmit) = IF trend' = 1 THEN "long" ELSE "short"
  BY <1>3, <1>6
<1>8. mayEmit = TRUE /\ processed + 1 >= MinWarmup /\ trend' # trend => EntrySide(mayEmit) # None
  BY <1>3, <1>5, <1>6
<1>9. EntrySide(mayEmit) \in {None, "long", "short"}
  BY <1>6
<1> QED BY <1>1, <1>2, <1>3, <1>4, <1>7, <1>8, <1>9

LEMMA PointStep ==
    ASSUME BarsInv, BandsInv, NEW bar \in Bars, NEW endAt, NEW mayEmit,
           ProcessBar(bar, endAt, mayEmit)
    PROVE  PointInv'
<1>1. N' > 0
  BY OneMoreBar
<1>2. point' = Point(mayEmit) /\ point'.entry = EntrySide(mayEmit)
  BY PointEntry
<1>3. point'.entry \in {None, "long", "short"}
      /\ (point'.entry # None => processed' >= MinWarmup)
  <2>1. /\ EntrySide(mayEmit) \in {None, "long", "short"} /\ processed' = processed + 1
        /\ EntrySide(mayEmit) # None => processed + 1 >= MinWarmup
    BY PointEntry
  <2> HIDE DEF EntrySide
  <2> QED BY <2>1, <1>2
<1>4. point' = [entry     |-> point'.entry,
                line      |-> IF trend' = 1 THEN lower' ELSE upper',
                er        |-> EfficiencyRatio(er'),
                moves     |-> MovesWithWindow(momentum'),
                struct    |-> [high |-> Head(structure'.queues.high).value,
                               low  |-> Head(structure'.queues.low).value],
                lastPivot |-> lastPivot']
  BY <1>2 DEF Point
<1> QED BY <1>1, <1>3, <1>4 DEF PointInv

(* A replayed bar leaves no live entry; a live one is entered when it      *)
(* carries an entry.                                                       *)
LEMMA EntryStep ==
    ASSUME BarsInv, BandsInv, EntryInv, NEW bar \in Bars, NEW endAt,
           Replay(bar, endAt) \/ Advance(bar, endAt)
    PROVE  EntryInv'
<1>1. CASE Replay(bar, endAt)
  <2>1. live' = live /\ entered' = entered /\ ~live
    BY <1>1 DEF Replay
  <2>2. entered = None /\ live \in BOOLEAN
    BY <2>1 DEF EntryInv
  <2> QED BY <2>1, <2>2 DEF EntryInv
<1>2. CASE Advance(bar, endAt)
  <2>1. ProcessBar(bar, endAt, TRUE)
    BY <1>2 DEF Advance
  <2>2. /\ live' = TRUE
        /\ entered' = IF point'.entry = None THEN entered ELSE point'.entry
    BY <1>2 DEF Advance
  <2> DEFINE side == EntrySide(TRUE)
  <2>3. point'.entry = side
    BY <2>1, PointEntry
  <2>4. /\ processed \in Nat /\ processed' = processed + 1
        /\ trend \in {1, -1} /\ trend' \in {1, -1}
    BY <2>1, PointEntry
  <2>5. /\ side \in {None, "long", "short"}
        /\ side # None => /\ processed + 1 >= MinWarmup
                          /\ side = (IF trend' = 1 THEN "long" ELSE "short")
    <3>1. EntrySide(TRUE) \in {None, "long", "short"}
      BY <2>1, PointEntry
    <3>2. EntrySide(TRUE) # None =>
              /\ processed + 1 >= MinWarmup /\ trend' # trend
              /\ EntrySide(TRUE) = (IF trend' = 1 THEN "long" ELSE "short")
      BY <2>1, PointEntry
    <3> HIDE DEF EntrySide
    <3> QED BY <3>1, <3>2
  <2>6. processed + 1 >= MinWarmup /\ trend' # trend => side # None
    <3>1. TRUE = TRUE /\ processed + 1 >= MinWarmup /\ trend' # trend => side # None
      BY <2>1, PointEntry
    <3> QED BY <3>1
  <2>7. /\ entered \in {None, "long", "short"}
        /\ entered # None => /\ processed >= MinWarmup
                             /\ entered = (IF trend = 1 THEN "long" ELSE "short")
    BY DEF EntryInv
  <2> HIDE DEF side
  <2>8. MinWarmup \in Nat
    BY Lengths DEF Lens
  <2>9. CASE side # None
    <3>1. entered' = side
      BY <2>2, <2>3, <2>9
    <3> QED BY <3>1, <2>2, <2>4, <2>5, <2>9 DEF EntryInv
  <2>10. CASE side = None
    <3>1. entered' = entered
      BY <2>2, <2>3, <2>10
    <3>2. ASSUME entered # None
          PROVE  processed' >= MinWarmup /\ entered = IF trend' = 1 THEN "long" ELSE "short"
      <4>1. processed + 1 >= MinWarmup
        BY <3>2, <2>4, <2>7, <2>8
      <4>2. trend' = trend
        BY <4>1, <2>6, <2>10
      <4> QED BY <4>1, <4>2, <3>2, <2>4, <2>7
    <3> QED BY <3>1, <3>2, <2>2, <2>7 DEF EntryInv
  <2> QED BY <2>9, <2>10
<1> QED BY <1>1, <1>2

LEMMA BarStep ==
    ASSUME Inv, NEW bar \in Bars, NEW endAt \in 1..MaxTime,
           Replay(bar, endAt) \/ Advance(bar, endAt)
    PROVE  Inv'
<1>1. /\ BarsInv /\ StructureInv /\ PathInv /\ EfficiencyInv /\ MomentumInv
      /\ PivotsInv /\ PendingInv /\ BandsInv /\ EntryInv
  BY DEF Inv
<1>2. PICK mayEmit \in BOOLEAN : ProcessBar(bar, endAt, mayEmit)
  BY DEF Replay, Advance
<1>3. BarsInv'
  BY <1>1, <1>2, BarsStep
<1>4. StructureInv'
  BY <1>1, <1>2, StructureStep
<1>5. PathInv'
  BY <1>1, <1>2, PathStep
<1>6. EfficiencyInv'
  BY <1>1, <1>2, <1>5, EfficiencyStep
<1>7. MomentumInv'
  BY <1>1, <1>2, MomentumStep
<1>8. PivotsInv'
  BY <1>1, <1>2, PivotsStep
<1>9. PendingInv'
  BY <1>1, <1>2, PendingStep
<1>10. BandsInv'
  BY <1>1, <1>2, BandsStep
<1>11. EntryInv'
  BY <1>1, EntryStep
<1>12. PointInv'
  BY <1>1, <1>2, PointStep
<1> QED BY <1>3, <1>4, <1>5, <1>6, <1>7, <1>8, <1>9, <1>10, <1>11, <1>12 DEF Inv

(* A step that leaves all but the point as it is.                          *)
LEMMA SameState ==
    ASSUME Inv,
           UNCHANGED <<counters, windows, pending, lastPivot, bands, live, observers>>,
           point' = None \/ point' = point
    PROVE  Inv'
<1>1. /\ lastEnd' = lastEnd /\ processed' = processed /\ lastClose' = lastClose
      /\ structure' = structure /\ er' = er /\ momentum' = momentum /\ pivots' = pivots
      /\ pending' = pending /\ lastPivot' = lastPivot
      /\ lower' = lower /\ upper' = upper /\ trend' = trend /\ trendStart' = trendStart
      /\ live' = live /\ bars' = bars /\ walked' = walked /\ entered' = entered
  BY DEF counters, windows, bands, observers
<1>2. N' = N
  BY <1>1 DEF N
<1>3. BarsInv'
  BY <1>1, <1>2 DEF Inv, BarsInv
<1>4. StructureInv'
  BY <1>1, <1>2 DEF Inv, StructureInv
<1>5. PathInv'
  BY <1>1, <1>2 DEF Inv, PathInv
<1>6. EfficiencyInv'
  BY <1>1, <1>2 DEF Inv, EfficiencyInv
<1>7. MomentumInv'
  <2>1. Rising(MomLen)' = Rising(MomLen) /\ Falling(MomLen)' = Falling(MomLen)
    BY <1>1, <1>2 DEF Rising, Falling, Last
  <2> QED BY <2>1, <1>1, <1>2 DEF Inv, MomentumInv
<1>8. PivotsInv'
  BY <1>1, <1>2 DEF Inv, PivotsInv
<1>9. PendingInv'
  <2>1. /\ PivotHighs(N)' = PivotHighs(N) /\ PivotLows(N)' = PivotLows(N)
        /\ LatestHigh(N - 1)' = LatestHigh(N - 1) /\ LatestLow(N - 1)' = LatestLow(N - 1)
    BY <1>1, <1>2 DEF PivotHighs, PivotLows, LatestHigh, LatestLow
  <2>2. PendingInv
    BY DEF Inv
  <2> QED BY <2>1, <2>2, <1>1, <1>2 DEF PendingInv
<1>10. BandsInv'
  BY <1>1, <1>2 DEF Inv, BandsInv
<1>11. EntryInv'
  BY <1>1, <1>2 DEF Inv, EntryInv
<1>12. PointInv'
  BY <1>1, <1>2 DEF Inv, PointInv
<1> QED BY <1>3, <1>4, <1>5, <1>6, <1>7, <1>8, <1>9, <1>10, <1>11, <1>12 DEF Inv

LEMMA InvStep == Inv /\ [Next]_vars => Inv'
<1> SUFFICES ASSUME Inv, [Next]_vars PROVE Inv'
  OBVIOUS
<1>1. ASSUME NEW endAt \in 1..MaxTime, Ignore(endAt) PROVE Inv'
  BY <1>1, SameState DEF Ignore
<1>2. ASSUME NEW endAt \in 1..MaxTime, NEW bar \in Bars,
             Replay(bar, endAt) \/ Advance(bar, endAt)
      PROVE  Inv'
  BY <1>2, BarStep
<1>3. ASSUME UNCHANGED vars PROVE Inv'
  BY <1>3, SameState DEF vars
<1> QED BY <1>1, <1>2, <1>3 DEF Next

LEMMA Invariance == Spec => []Inv
BY InitInv, InvStep, PTL DEF Spec

-----------------------------------------------------------------------------
(* What the invariant says of the bars and of a point.                     *)

LEMMA InvBars ==
    ASSUME Inv
    PROVE  /\ N \in Nat /\ bars \in Seq(Bars) /\ Len(bars) = N
           /\ \A k \in 1..N : /\ bars[k].high \in Int /\ bars[k].low \in Int
                              /\ bars[k].close \in Int
<1>1. bars \in Seq(Bars)
  BY DEF Inv, BarsInv
<1>2. /\ Len(bars) \in Nat
      /\ \A k \in 1..Len(bars) : /\ bars[k] \in Bars /\ bars[k].high \in Int
                                 /\ bars[k].low \in Int /\ bars[k].close \in Int
  BY <1>1, BarNumbers
<1> QED BY <1>1, <1>2 DEF N

LEMMA LastBars ==
    ASSUME NEW len \in Nat \ {0}, N \in Nat
    PROVE  Last(len) = (Floor(N - len) + 1)..N
<1>1. ASSUME NEW k PROVE k \in Last(len) <=> k \in (Floor(N - len) + 1)..N
  BY DEF Last, Floor
<1> QED BY <1>1

(* The fronts of the structure are the extremes of the last StructLen bars.*)
LEMMA StructureFronts ==
    ASSUME Inv, N > 0
    PROVE  /\ Head(structure.queues.high).value \in Int
           /\ Head(structure.queues.low).value \in Int
           /\ Head(structure.queues.high).value = Max(Highs(Last(StructLen)))
           /\ Head(structure.queues.low).value = Min(Lows(Last(StructLen)))
<1> USE Lengths DEF Lens
<1>1. /\ N \in Nat /\ bars \in Seq(Bars) /\ Len(bars) = N
      /\ \A k \in 1..N : /\ bars[k].high \in Int /\ bars[k].low \in Int
                         /\ bars[k].close \in Int
  BY InvBars
<1> DEFINE a == Floor(N - StructLen)
           q == structure.queues
           S == (a + 1)..N
<1>2. a \in Nat /\ a < N /\ N <= Len(bars)
  BY <1>1 DEF Floor
<1>3. TracksBars(q, bars, a, N)
  BY DEF Inv, StructureInv
<1>4. Last(StructLen) = S
  BY <1>1, LastBars
<1> HIDE DEF a, q
<1>5. /\ q.high # <<>> /\ q.low # <<>>
      /\ Head(q.high).value \in Int /\ Head(q.low).value \in Int
      /\ \E k \in (a + 1)..N : Head(q.high).value = bars[k].high
      /\ \E k \in (a + 1)..N : Head(q.low).value = bars[k].low
      /\ \A k \in (a + 1)..N : bars[k].high <= Head(q.high).value
      /\ \A k \in (a + 1)..N : bars[k].low >= Head(q.low).value
  <2>1. bars \in Seq(Bars) /\ a \in Nat /\ N \in Nat /\ a < N /\ N <= Len(bars)
    BY <1>1, <1>2
  <2> QED BY <2>1, <1>3, FrontsAreExtreme
<1> DEFINE top == Head(q.high).value
           bottom == Head(q.low).value
           H == {bars[k].high : k \in S}
           L == {bars[k].low : k \in S}
<1>6. /\ top \in Int /\ bottom \in Int
      /\ \E k \in S : top = bars[k].high
      /\ \E k \in S : bottom = bars[k].low
      /\ \A k \in S : bars[k].high <= top
      /\ \A k \in S : bars[k].low >= bottom
  BY <1>5
<1>8. \A k \in S : bars[k].high \in Int /\ bars[k].low \in Int
  BY <1>1, <1>2
<1> HIDE DEF top, bottom, S
<1>10. H \in SUBSET Int /\ L \in SUBSET Int /\ top \in H /\ bottom \in L
  BY <1>6, <1>8
<1>11. (\A y \in H : y <= top) /\ \A y \in L : y >= bottom
  BY <1>6
<1> HIDE DEF H, L
<1>12. Max(H) = top
  <2>1. \E x \in H : \A y \in H : x >= y
    BY <1>10, <1>11
  <2>2. Max(H) \in H /\ \A y \in H : Max(H) >= y
    BY <2>1 DEF Max
  <2> DEFINE m == Max(H)
  <2>3. m \in H /\ m \in Int /\ m <= top /\ m >= top
    <3>1. m \in H /\ \A y \in H : m >= y
      BY <2>2
    <3> HIDE DEF m
    <3> QED BY <3>1, <1>10, <1>11
  <2> HIDE DEF m
  <2>4. m = top
    BY <2>3, <1>6
  <2> QED BY <2>4 DEF m
<1>13. Min(L) = bottom
  <2>1. \E x \in L : \A y \in L : x <= y
    BY <1>10, <1>11
  <2>2. Min(L) \in L /\ \A y \in L : Min(L) <= y
    BY <2>1 DEF Min
  <2> DEFINE m == Min(L)
  <2>3. m \in L /\ m \in Int /\ m >= bottom /\ m <= bottom
    <3>1. m \in L /\ \A y \in L : m <= y
      BY <2>2
    <3> HIDE DEF m
    <3> QED BY <3>1, <1>10, <1>11
  <2> HIDE DEF m
  <2>4. m = bottom
    BY <2>3, <1>6
  <2> QED BY <2>4 DEF m
<1>14. Highs(Last(StructLen)) = H /\ Lows(Last(StructLen)) = L
  BY <1>4 DEF Highs, Lows, H, L
<1> QED BY <1>6, <1>12, <1>13, <1>14 DEF top, bottom, q

(* The sliding windows of closes and moves in terms of the bars.           *)
LEMMA EfficiencyWindow ==
    ASSUME Inv, N > 0
    PROVE  /\ er.volatility \in Nat /\ Len(er.closes) \in Nat /\ Len(er.diffs) \in Nat
           /\ Len(er.closes) = (IF N < ErLen + 1 THEN N ELSE ErLen + 1)
           /\ Len(er.diffs) = (IF N - 1 < ErLen THEN N - 1 ELSE ErLen)
           /\ er.volatility = walked[N] - walked[N - Len(er.diffs)]
           /\ er.closes[Len(er.closes)] = bars[N].close
           /\ Head(er.closes) = bars[N - Len(er.closes) + 1].close
<1> USE Lengths DEF Lens
<1>1. N \in Nat /\ N # 0
  BY InvBars
<1> DEFINE cs == er.closes
           ds == er.diffs
<1>2. /\ cs \in Seq(Int) /\ ds \in Seq(Nat)
      /\ Holds(cs, ClosesOf(bars), N, ErLen + 1)
      /\ Holds(ds, StepsOf(bars), Floor(N - 1), ErLen)
      /\ er.volatility = walked[N] - walked[N - Len(ds)]
  BY <1>1 DEF Inv, EfficiencyInv
<1>3. Floor(N - 1) = N - 1 /\ ErLen + 1 \in Nat \ {0}
  BY <1>1 DEF Floor
<1> HIDE DEF cs, ds
<1>4. /\ Len(cs) \in Nat /\ Len(cs) = (IF N < ErLen + 1 THEN N ELSE ErLen + 1)
      /\ cs[Len(cs)] = ClosesOf(bars)[N]
      /\ Head(cs) = ClosesOf(bars)[N - Len(cs) + 1]
  <2> DEFINE f == ClosesOf(bars)
             n == N
             cap == ErLen + 1
  <2>1. n \in Nat /\ cap \in Nat \ {0} /\ cs \in Seq(Int) /\ Holds(cs, f, n, cap)
    BY <1>1, <1>2, <1>3
  <2>2. n > 0
    OBVIOUS
  <2> HIDE DEF f, n, cap
  <2>3. /\ Len(cs) \in Nat /\ Len(cs) = (IF n < cap THEN n ELSE cap)
        /\ cs = <<>> <=> n = 0
        /\ n > 0 => cs[Len(cs)] = f[n] /\ Head(cs) = f[n - Len(cs) + 1]
    BY <2>1, WindowEnds
  <2> QED BY <2>2, <2>3 DEF f, n, cap
<1>5. Len(ds) \in Nat /\ Len(ds) = (IF N - 1 < ErLen THEN N - 1 ELSE ErLen)
  BY <1>2, <1>3, <1>1 DEF Holds
<1>6. /\ ClosesOf(bars)[N] = bars[N].close
      /\ ClosesOf(bars)[N - Len(cs) + 1] = bars[N - Len(cs) + 1].close
  <2>1. N \in Nat /\ N - Len(cs) + 1 \in Nat
    <3>1. Len(cs) \in Nat /\ Len(cs) <= N
      BY <1>1, <1>3, <1>4
    <3> QED BY <3>1, <1>1
  <2> QED BY <2>1 DEF ClosesOf
<1>7. walked[N] - walked[N - Len(ds)] \in Nat
  <2>1. N - Len(ds) \in 1..N /\ N \in 1..N /\ N - Len(ds) <= N
    BY <1>1, <1>5
  <2> DEFINE j == N - Len(ds)
  <2>2. Abs(bars[N].close - bars[j].close) <= walked[N] - walked[j]
    <3>1. \A i, k \in 1..N : i <= k => Abs(bars[k].close - bars[i].close) <= walked[k] - walked[i]
      BY DEF Inv, PathInv
    <3> HIDE DEF j
    <3> QED BY <3>1, <2>1 DEF j
  <2>3. walked[N] \in Nat /\ walked[j] \in Nat
    <3>1. walked \in Seq(Nat) /\ Len(walked) = N
      BY DEF Inv, PathInv
    <3> QED BY <3>1, <2>1, ElementOfSeq
  <2>4. Abs(bars[N].close - bars[j].close) \in Nat
    <3>1. bars[N].close \in Int /\ bars[j].close \in Int
      BY <2>1, InvBars
    <3> QED BY <3>1, Triangle
  <2> HIDE DEF j
  <2>5. walked[N] - walked[j] \in Nat
    BY <2>2, <2>3, <2>4
  <2> QED BY <2>5 DEF j
<1> QED BY <1>2, <1>4, <1>5, <1>6, <1>7 DEF cs, ds

LEMMA MomentumWindow ==
    ASSUME Inv, N > 0
    PROVE  /\ Len(momentum.closes) \in Nat /\ Len(momentum.diffs) \in Nat
           /\ Len(momentum.closes) = (IF N < MomLen + 1 THEN N ELSE MomLen + 1)
           /\ Len(momentum.diffs) = (IF N - 1 < MomLen THEN N - 1 ELSE MomLen)
           /\ momentum.closes[Len(momentum.closes)] = bars[N].close
           /\ Head(momentum.closes) = bars[N - Len(momentum.closes) + 1].close
<1> USE Lengths DEF Lens
<1>1. N \in Nat /\ N # 0
  BY InvBars
<1> DEFINE cs == momentum.closes
           ds == momentum.diffs
<1>2. /\ cs \in Seq(Int) /\ ds \in Seq(Int)
      /\ Holds(cs, ClosesOf(bars), N, MomLen + 1)
      /\ Holds(ds, MovesOf(bars), Floor(N - 1), MomLen)
  BY DEF Inv, MomentumInv
<1>3. Floor(N - 1) = N - 1 /\ MomLen + 1 \in Nat \ {0}
  BY <1>1 DEF Floor
<1> HIDE DEF cs, ds
<1>4. /\ Len(cs) \in Nat /\ Len(cs) = (IF N < MomLen + 1 THEN N ELSE MomLen + 1)
      /\ cs[Len(cs)] = ClosesOf(bars)[N]
      /\ Head(cs) = ClosesOf(bars)[N - Len(cs) + 1]
  <2> DEFINE f == ClosesOf(bars)
             n == N
             cap == MomLen + 1
  <2>1. n \in Nat /\ cap \in Nat \ {0} /\ cs \in Seq(Int) /\ Holds(cs, f, n, cap)
    BY <1>1, <1>2, <1>3
  <2>2. n > 0
    OBVIOUS
  <2> HIDE DEF f, n, cap
  <2>3. /\ Len(cs) \in Nat /\ Len(cs) = (IF n < cap THEN n ELSE cap)
        /\ cs = <<>> <=> n = 0
        /\ n > 0 => cs[Len(cs)] = f[n] /\ Head(cs) = f[n - Len(cs) + 1]
    BY <2>1, WindowEnds
  <2> QED BY <2>2, <2>3 DEF f, n, cap
<1>5. Len(ds) \in Nat /\ Len(ds) = (IF N - 1 < MomLen THEN N - 1 ELSE MomLen)
  BY <1>2, <1>3, <1>1 DEF Holds
<1>6. /\ ClosesOf(bars)[N] = bars[N].close
      /\ ClosesOf(bars)[N - Len(cs) + 1] = bars[N - Len(cs) + 1].close
  <2>1. N \in Nat /\ N - Len(cs) + 1 \in Nat
    <3>1. Len(cs) \in Nat /\ Len(cs) <= N
      BY <1>1, <1>3, <1>4
    <3> QED BY <3>1, <1>1
  <2> QED BY <2>1 DEF ClosesOf
<1> QED BY <1>4, <1>5, <1>6 DEF cs, ds

(* A path that ends above its start rises somewhere: after the last of its *)
(* points that is not above the start.                                     *)
LEMMA RisesSomewhere ==
    ASSUME NEW f, NEW a \in Nat, NEW b \in Nat, a < b,
           \A k \in a..b : f[k] \in Int, f[a] < f[b]
    PROVE  \E k \in (a + 1)..b : f[k - 1] < f[k]
<1> DEFINE T == {k \in a..b : f[k] <= f[a]}
           m == Max(T)
<1>1. IsFiniteSet(a..b)
  BY FS_Interval
<1>2. T \in SUBSET (a..b)
  OBVIOUS
<1>3. a \in T /\ b \notin T
  <2>1. a \in a..b /\ b \in a..b
    OBVIOUS
  <2> QED BY <2>1
<1>4. m \in T /\ \A y \in T : m >= y
  <2> HIDE DEF T
  <2>1. IsFiniteSet(T)
    BY <1>1, <1>2, FS_Subset
  <2>2. T \in SUBSET Int /\ T # {}
    BY <1>2, <1>3
  <2> QED BY <2>1, <2>2, HasMax
<1> HIDE DEF m
<1>5. m \in a..b /\ m # b /\ f[m] <= f[a]
  BY <1>3, <1>4
<1>6. m + 1 \in (a + 1)..b /\ m + 1 \in a..b /\ m + 1 - 1 = m /\ m < m + 1
  BY <1>5
<1>7. ~(f[m + 1] <= f[a])
  BY <1>4, <1>6
<1> HIDE DEF T
<1>8. f[a] \in Int /\ f[m] \in Int /\ f[m + 1] \in Int
  <2>1. a \in a..b
    OBVIOUS
  <2> QED BY <2>1, <1>5, <1>6
<1>9. f[m] < f[m + 1]
  BY <1>5, <1>7, <1>8
<1>10. ASSUME NEW k \in (a + 1)..b, k = m + 1
       PROVE  f[k - 1] < f[k]
  <2>0. m \in Int
    BY <1>5
  <2>1. k - 1 = m
    BY <2>0, <1>10
  <2>2. f[k - 1] = f[m] /\ f[k] = f[m + 1]
    BY <2>1, <1>10
  <2> QED BY <2>2, <1>9
<1> QED BY <1>6, <1>10

(* The moves with a window that ends above or below its start.             *)
LEMMA SomeMoves ==
    ASSUME Inv, N > MomLen
    PROVE  /\ bars[N].close > bars[N - MomLen].close =>
                  Cardinality(Rising(MomLen)) \in 1..MomLen
           /\ bars[N].close < bars[N - MomLen].close =>
                  Cardinality(Falling(MomLen)) \in 1..MomLen
<1> USE Lengths DEF Lens
<1>1. /\ N \in Nat /\ \A k \in 1..N : bars[k].close \in Int
  BY InvBars
<1> DEFINE a == N - MomLen
<1>2. a \in Nat /\ a >= 1 /\ a < N /\ N - a = MomLen
  BY <1>1
<1>3. Last(MomLen) = (a + 1)..N
  <2>1. Floor(N - MomLen) = a
    BY <1>1 DEF Floor
  <2> QED BY <2>1, <1>1, LastBars
<1>4. IsFiniteSet(Last(MomLen)) /\ Cardinality(Last(MomLen)) = MomLen
  <2>1. a + 1 \in Int /\ N \in Int /\ ~(a + 1 > N) /\ N - (a + 1) + 1 = MomLen
    BY <1>2, <1>1
  <2> HIDE DEF a
  <2>2. /\ IsFiniteSet((a + 1)..N)
        /\ Cardinality((a + 1)..N) = IF a + 1 > N THEN 0 ELSE N - (a + 1) + 1
    BY <2>1, FS_Interval
  <2> QED BY <2>1, <2>2, <1>3
<1>5. ASSUME NEW S \in SUBSET Last(MomLen), NEW k \in S
      PROVE  Cardinality(S) \in 1..MomLen
  <2>1. IsFiniteSet(S) /\ Cardinality(S) <= Cardinality(Last(MomLen))
    BY <1>4, FS_Subset
  <2>2. Cardinality(S) \in Nat /\ (Cardinality(S) = 0 <=> S = {})
    BY <2>1, FS_EmptySet, FS_CardinalityType
  <2>3. S # {}
    OBVIOUS
  <2> QED BY <2>1, <2>2, <2>3, <1>4
<1>6. Rising(MomLen) \in SUBSET Last(MomLen) /\ Falling(MomLen) \in SUBSET Last(MomLen)
  BY DEF Rising, Falling
<1>7. \A k \in a..N : k \in 1..N
  BY <1>1, <1>2
<1> HIDE DEF a
<1>8. ASSUME bars[N].close > bars[a].close
      PROVE  Cardinality(Rising(MomLen)) \in 1..MomLen
  <2> DEFINE f == [k \in Nat |-> bars[k].close]
  <2>1. \A k \in a..N : f[k] = bars[k].close /\ f[k] \in Int
    <3>1. \A k \in a..N : k \in Nat
      BY <1>1, <1>2
    <3> QED BY <3>1, <1>1, <1>7
  <2>2. f[a] < f[N]
    <3>1. a \in a..N /\ N \in a..N /\ a \in 1..N /\ N \in 1..N
      BY <1>1, <1>2
    <3> QED BY <3>1, <2>1, <1>1, <1>8
  <2> HIDE DEF f
  <2>3. PICK k \in (a + 1)..N : f[k - 1] < f[k]
    <3>1. N \in Nat /\ a \in Nat /\ a < N /\ \A k \in a..N : f[k] \in Int
      BY <1>1, <1>2, <2>1
    <3> QED BY <3>1, <2>2, RisesSomewhere
  <2>4. k - 1 \in a..N /\ k \in a..N /\ k > 1 /\ k \in Last(MomLen)
    BY <1>1, <1>2, <1>3
  <2>5. f[k - 1] = bars[k - 1].close /\ f[k] = bars[k].close
        /\ f[k - 1] \in Int /\ f[k] \in Int
    BY <2>1, <2>4
  <2>6. bars[k].close > bars[k - 1].close
    BY <2>3, <2>5
  <2>7. k \in Rising(MomLen)
    BY <2>4, <2>6 DEF Rising
  <2> QED BY <2>7, <1>5, <1>6
<1>9. ASSUME bars[N].close < bars[a].close
      PROVE  Cardinality(Falling(MomLen)) \in 1..MomLen
  <2> DEFINE f == [k \in Nat |-> 0 - bars[k].close]
  <2>1. \A k \in a..N : f[k] = 0 - bars[k].close /\ f[k] \in Int /\ bars[k].close \in Int
    <3>1. \A k \in a..N : k \in Nat
      BY <1>1, <1>2
    <3> QED BY <3>1, <1>1, <1>7
  <2>2. f[a] < f[N]
    <3>1. a \in a..N /\ N \in a..N /\ a \in 1..N /\ N \in 1..N
      BY <1>1, <1>2
    <3> QED BY <3>1, <2>1, <1>1, <1>9
  <2> HIDE DEF f
  <2>3. PICK k \in (a + 1)..N : f[k - 1] < f[k]
    <3>1. N \in Nat /\ a \in Nat /\ a < N /\ \A k \in a..N : f[k] \in Int
      BY <1>1, <1>2, <2>1
    <3> QED BY <3>1, <2>2, RisesSomewhere
  <2>4. k - 1 \in a..N /\ k \in a..N /\ k > 1 /\ k \in Last(MomLen)
    BY <1>1, <1>2, <1>3
  <2>5. f[k - 1] = 0 - bars[k - 1].close /\ f[k] = 0 - bars[k].close
        /\ bars[k - 1].close \in Int /\ bars[k].close \in Int
    BY <2>1, <2>4
  <2>6. bars[k].close < bars[k - 1].close
    BY <2>3, <2>5
  <2>7. k \in Falling(MomLen)
    BY <2>4, <2>6 DEF Falling
  <2> QED BY <2>7, <1>5, <1>6
<1> QED BY <1>8, <1>9 DEF a

(* The invariant implies what the runs check.                              *)
LEMMA InvExtrema == Inv => ExtremaExact
<1> SUFFICES ASSUME Inv, point # None
             PROVE  point.struct = [high |-> Max(Highs(Last(StructLen))),
                                    low  |-> Min(Lows(Last(StructLen)))]
  BY DEF ExtremaExact
<1>1. /\ N > 0
      /\ point.struct = [high |-> Head(structure.queues.high).value,
                         low  |-> Head(structure.queues.low).value]
  BY DEF Inv, PointInv
<1>2. /\ Head(structure.queues.high).value = Max(Highs(Last(StructLen)))
      /\ Head(structure.queues.low).value = Min(Lows(Last(StructLen)))
  BY <1>1, StructureFronts
<1> QED BY <1>1, <1>2

LEMMA InvEfficiency == Inv => EfficiencyIsPath
<1> USE Lengths DEF Lens
<1> SUFFICES ASSUME Inv, point # None
             PROVE  /\ point.er[1] <= point.er[2]
                    /\ point.er = IF N <= ErLen \/ walked[N] = walked[N - ErLen] THEN <<0, 1>>
                                  ELSE <<Abs(bars[N].close - bars[N - ErLen].close),
                                         walked[N] - walked[N - ErLen]>>
  BY DEF EfficiencyIsPath
<1>1. N > 0 /\ point.er = EfficiencyRatio(er)
  BY DEF Inv, PointInv
<1>2. N \in Nat
  BY InvBars
<1>3. /\ Len(er.closes) = (IF N < ErLen + 1 THEN N ELSE ErLen + 1)
      /\ Len(er.diffs) = (IF N - 1 < ErLen THEN N - 1 ELSE ErLen)
      /\ er.volatility \in Nat
      /\ er.volatility = walked[N] - walked[N - Len(er.diffs)]
      /\ er.closes[Len(er.closes)] = bars[N].close
      /\ Head(er.closes) = bars[N - Len(er.closes) + 1].close
  BY <1>1, EfficiencyWindow
<1>4. CASE N <= ErLen
  <2>1. Len(er.closes) <= ErLen
    BY <1>2, <1>3, <1>4
  <2>2. point.er = <<0, 1>>
    BY <1>1, <2>1 DEF EfficiencyRatio
  <2> QED BY <1>4, <2>2
<1>5. CASE N > ErLen
  <2>1. /\ Len(er.closes) = ErLen + 1 /\ Len(er.diffs) = ErLen
        /\ ~(Len(er.closes) <= ErLen) /\ ~(Len(er.diffs) < ErLen)
        /\ N - Len(er.closes) + 1 = N - ErLen
    BY <1>2, <1>3, <1>5
  <2> DEFINE far == Abs(bars[N].close - bars[N - ErLen].close)
             path == walked[N] - walked[N - ErLen]
  <2>2. er.volatility = path /\ er.closes[Len(er.closes)] = bars[N].close
        /\ Head(er.closes) = bars[N - ErLen].close
    BY <1>3, <2>1
  <2>3. EfficiencyRatio(er) = IF er.volatility = 0 THEN <<0, 1>>
                              ELSE <<far, er.volatility>>
    BY <2>1, <2>2 DEF EfficiencyRatio
  <2>4. far <= path
    <3>1. N - ErLen \in 1..N /\ N \in 1..N /\ N - ErLen <= N
      BY <1>2, <1>5
    <3>2. \A i, k \in 1..N : i <= k =>
              Abs(bars[k].close - bars[i].close) <= walked[k] - walked[i]
      BY DEF Inv, PathInv
    <3> QED BY <3>1, <3>2
  <2>5. path = 0 <=> walked[N] = walked[N - ErLen]
    <3>1. N - ErLen \in 1..N /\ N \in 1..N
      BY <1>2, <1>5
    <3>2. walked \in Seq(Nat) /\ Len(walked) = N
      BY DEF Inv, PathInv
    <3>3. walked[N] \in Nat /\ walked[N - ErLen] \in Nat
      BY <3>1, <3>2, ElementOfSeq
    <3> QED BY <3>3
  <2>6. ~(N <= ErLen)
    BY <1>2, <1>5
  <2> HIDE DEF far, path
  <2>7. point.er = IF path = 0 THEN <<0, 1>> ELSE <<far, path>>
    BY <1>1, <2>2, <2>3
  <2>8. point.er[1] <= point.er[2]
    <3>1. CASE path = 0
      BY <2>7, <3>1
    <3>2. CASE path # 0
      BY <2>4, <2>7, <3>2
    <3> QED BY <3>1, <3>2
  <2> QED BY <2>5, <2>6, <2>7, <2>8 DEF far, path
<1> QED BY <1>2, <1>4, <1>5

LEMMA InvMomentum == Inv => MomentumCounts
<1> USE Lengths DEF Lens
<1> SUFFICES ASSUME Inv PROVE MomentumCounts
  OBVIOUS
<1>1. /\ momentum.positive = Cardinality(Rising(MomLen))
      /\ momentum.negative = Cardinality(Falling(MomLen))
  <2>1. momentum = [closes |-> momentum.closes, diffs |-> momentum.diffs,
                    positive |-> Cardinality(Rising(MomLen)),
                    negative |-> Cardinality(Falling(MomLen))]
    BY DEF Inv, MomentumInv
  <2> QED BY <2>1
<1>2. ASSUME point # None, N > MomLen, bars[N].close # bars[N - MomLen].close
      PROVE  /\ point.moves \in 1..MomLen
             /\ point.moves = IF bars[N].close > bars[N - MomLen].close
                              THEN Cardinality(Rising(MomLen))
                              ELSE Cardinality(Falling(MomLen))
  <2>1. N > 0 /\ point.moves = MovesWithWindow(momentum)
    BY <1>2 DEF Inv, PointInv
  <2>2. N \in Nat /\ bars[N].close \in Int /\ bars[N - MomLen].close \in Int
    <3>1. N \in Nat /\ \A k \in 1..N : bars[k].close \in Int
      BY InvBars
    <3>2. N \in 1..N /\ N - MomLen \in 1..N
      BY <3>1, <1>2
    <3> QED BY <3>1, <3>2
  <2>3. /\ Len(momentum.closes) = (IF N < MomLen + 1 THEN N ELSE MomLen + 1)
        /\ Len(momentum.diffs) = (IF N - 1 < MomLen THEN N - 1 ELSE MomLen)
        /\ momentum.closes[Len(momentum.closes)] = bars[N].close
        /\ Head(momentum.closes) = bars[N - Len(momentum.closes) + 1].close
    BY <2>1, MomentumWindow
  <2>4. /\ Len(momentum.closes) = MomLen + 1 /\ Len(momentum.diffs) = MomLen
        /\ ~(Len(momentum.closes) <= MomLen) /\ ~(Len(momentum.diffs) < MomLen)
        /\ N - Len(momentum.closes) + 1 = N - MomLen
    BY <2>2, <2>3, <1>2
  <2> DEFINE change == bars[N].close - bars[N - MomLen].close
             p == Cardinality(Rising(MomLen))
             q == Cardinality(Falling(MomLen))
  <2>5. MovesWithWindow(momentum) = Rises(change) * p + Falls(change) * q
    BY <2>3, <2>4, <1>1 DEF MovesWithWindow
  <2>6. p \in Nat /\ q \in Nat
    <3>1. Rising(MomLen) \in SUBSET (1..N) /\ Falling(MomLen) \in SUBSET (1..N)
      BY DEF Rising, Falling, Last
    <3>2. IsFiniteSet(1..N)
      BY <2>2, FS_Interval
    <3> QED BY <3>1, <3>2, FS_Subset, FS_CardinalityType
  <2>7. /\ bars[N].close > bars[N - MomLen].close => p \in 1..MomLen
        /\ bars[N].close < bars[N - MomLen].close => q \in 1..MomLen
    BY <1>2, SomeMoves
  <2> HIDE DEF p, q
  <2>8. CASE bars[N].close > bars[N - MomLen].close
    <3>1. Rises(change) = 1 /\ Falls(change) = 0
      BY <2>2, <2>8 DEF Rises, Falls
    <3>2. point.moves = p
      BY <3>1, <2>1, <2>5, <2>6
    <3> QED BY <3>2, <2>7, <2>8 DEF p
  <2>9. CASE bars[N].close < bars[N - MomLen].close
    <3>1. Rises(change) = 0 /\ Falls(change) = 1
      BY <2>2, <2>9 DEF Rises, Falls
    <3>2. point.moves = q
      BY <3>1, <2>1, <2>5, <2>6
    <3>3. ~(bars[N].close > bars[N - MomLen].close)
      BY <2>2, <2>9
    <3> QED BY <3>2, <3>3, <2>7, <2>9 DEF q
  <2> QED BY <2>2, <2>8, <2>9, <1>2
<1> QED BY <1>1, <1>2 DEF MomentumCounts

LEMMA InvPivot == Inv => LatestPivot
<1>1. ASSUME Inv, point # None
      PROVE  point.lastPivot = [high |-> LatestHigh(N - 1), low |-> LatestLow(N - 1)]
  <2>1. point.lastPivot = lastPivot
    BY <1>1 DEF Inv, PointInv
  <2>2. lastPivot = [high |-> LatestHigh(N - 1), low |-> LatestLow(N - 1)]
    BY <1>1 DEF Inv, PendingInv
  <2> QED BY <2>1, <2>2
<1> QED BY <1>1 DEF LatestPivot, LatestHigh, LatestLow

LEMMA InvLine == Inv => LineOnTrendSide
<1> SUFFICES ASSUME Inv, CloseSource, point # None
             PROVE  IF trend = 1 THEN point.line <= bars[N].close
                                 ELSE point.line >= bars[N].close
  BY DEF LineOnTrendSide
<1>1. N > 0 /\ point.line = IF trend = 1 THEN lower ELSE upper
  BY DEF Inv, PointInv
<1> QED BY <1>1 DEF Inv, BandsInv

LEMMA InvWarm == Inv => EntryIsWarm
<1> USE Lengths DEF Lens
<1> SUFFICES ASSUME Inv, point # None, point.entry # None
             PROVE  /\ N >= AtrLen /\ N >= StructLen /\ N > 2 * PivotLen
                    /\ Len(er.closes) = ErLen + 1 /\ Len(er.diffs) = ErLen
                    /\ Len(momentum.diffs) = MomLen
  BY DEF EntryIsWarm
<1>1. N > 0 /\ N >= MinWarmup
  BY DEF Inv, PointInv, BarsInv
<1>2. /\ AtrLen < MinWarmup /\ ErLen < MinWarmup /\ MomLen < MinWarmup
      /\ StructLen < MinWarmup /\ 2 * PivotLen + 1 < MinWarmup
  BY IndicatorAssumption
<1>3. N \in Nat
  BY InvBars
<1>4. /\ Len(er.closes) = (IF N < ErLen + 1 THEN N ELSE ErLen + 1)
      /\ Len(er.diffs) = (IF N - 1 < ErLen THEN N - 1 ELSE ErLen)
  BY <1>1, EfficiencyWindow
<1>5. Len(momentum.diffs) = IF N - 1 < MomLen THEN N - 1 ELSE MomLen
  BY <1>1, MomentumWindow
<1> QED BY <1>1, <1>2, <1>3, <1>4, <1>5

LEMMA InvType == Inv => TypeOK
<1> USE Lengths DEF Lens
<1> SUFFICES ASSUME Inv PROVE TypeOK
  OBVIOUS
<1>1. /\ N \in Nat /\ bars \in Seq(Bars)
      /\ \A k \in 1..N : /\ bars[k].high \in Int /\ bars[k].low \in Int
                         /\ bars[k].close \in Int
  BY InvBars
<1>2. lastEnd \in 0..MaxTime /\ processed \in Nat /\ lastClose \in Options
  <2>1. lastEnd \in 0..MaxTime /\ processed = N
        /\ lastClose = (IF N = 0 THEN None ELSE bars[N].close)
    BY DEF Inv, BarsInv
  <2>2. N # 0 => bars[N].close \in Int
    BY <1>1
  <2> QED BY <2>1, <2>2, <1>1 DEF Options
<1>3. structure \in [next : Nat, queues : Queues]
  <2>1. /\ structure = [next |-> N, queues |-> structure.queues]
        /\ TracksBars(structure.queues, bars, Floor(N - StructLen), N)
    BY DEF Inv, StructureInv
  <2>2. structure.queues \in Queues
    BY <2>1, TracksType
  <2> QED BY <2>1, <2>2, <1>1
<1>4. er \in [closes : Seq(Int), diffs : Seq(Nat), volatility : Nat]
  <2>1. /\ er = [closes |-> er.closes, diffs |-> er.diffs, volatility |-> er.volatility]
        /\ er.closes \in Seq(Int) /\ er.diffs \in Seq(Nat)
        /\ N = 0 => er.volatility = 0
    BY DEF Inv, EfficiencyInv
  <2>2. er.volatility \in Nat
    <3>1. N > 0 => er.volatility \in Nat
      BY EfficiencyWindow
    <3> QED BY <3>1, <2>1, <1>1
  <2> QED BY <2>1, <2>2
<1>5. Cardinality(Rising(MomLen)) \in Nat /\ Cardinality(Falling(MomLen)) \in Nat
  <2>1. Rising(MomLen) \in SUBSET (1..N) /\ Falling(MomLen) \in SUBSET (1..N)
    BY DEF Rising, Falling, Last
  <2>2. IsFiniteSet(1..N)
    BY <1>1, FS_Interval
  <2> QED BY <2>1, <2>2, FS_Subset, FS_CardinalityType
<1>6. momentum \in [closes : Seq(Int), diffs : Seq(Int), positive : Nat, negative : Nat]
  <2> DEFINE p == Cardinality(Rising(MomLen))
             q == Cardinality(Falling(MomLen))
  <2>1. /\ momentum = [closes |-> momentum.closes, diffs |-> momentum.diffs,
                       positive |-> p, negative |-> q]
        /\ momentum.closes \in Seq(Int) /\ momentum.diffs \in Seq(Int)
    BY DEF Inv, MomentumInv
  <2>2. p \in Nat /\ q \in Nat
    BY <1>5
  <2> HIDE DEF p, q
  <2> QED BY <2>1, <2>2
<1>7. pivots \in [next : Nat, window : Seq(PivotBars), left : Queues, right : Queues]
  <2>1. /\ pivots = [next |-> N, window |-> pivots.window,
                     left |-> pivots.left, right |-> pivots.right]
        /\ pivots.window \in Seq(PivotBars)
    BY DEF Inv, PivotsInv
  <2>2. TracksBars(pivots.left, bars, Floor(N - 1 - 2 * PivotLen), Floor(N - PivotLen - 1))
    BY DEF Inv, PivotsInv
  <2>3. TracksBars(pivots.right, bars, IF N > 2 * PivotLen THEN N - PivotLen ELSE 0, N)
    BY DEF Inv, PivotsInv
  <2>4. pivots.left \in Queues /\ pivots.right \in Queues
    BY <2>2, <2>3, TracksType
  <2> QED BY <2>1, <2>4, <1>1
<1>8. pending \in Pivots
  <2> DEFINE c == N - PivotLen
             P == PivotHighs(N)
             Q == PivotLows(N)
  <2>1. pending = [high |-> IF c \in P THEN bars[c].high ELSE None,
                   low  |-> IF c \in Q THEN bars[c].low ELSE None]
    BY DEF Inv, PendingInv
  <2>2. P \subseteq 1..N /\ Q \subseteq 1..N
    BY <1>1, PivotSets, OlderPivots
  <2> HIDE DEF c, P, Q
  <2>3. (c \in P => bars[c].high \in Int) /\ (c \in Q => bars[c].low \in Int)
    BY <2>2, <1>1
  <2> QED BY <2>1, <2>3 DEF Pivots, Options
<1>9. lastPivot \in Pivots
  <2> DEFINE P == HighPivots(bars, N - 1)
             Q == LowPivots(bars, N - 1)
  <2>1. lastPivot = [high |-> IF P = {} THEN None ELSE bars[Max(P)].high,
                     low  |-> IF Q = {} THEN None ELSE bars[Max(Q)].low]
    BY PivotSets DEF Inv, PendingInv, LatestHigh, LatestLow
  <2>2. P \subseteq 1..N /\ Q \subseteq 1..N
    <3>1. HighPivots(bars, N) \subseteq 1..N /\ LowPivots(bars, N) \subseteq 1..N
      BY <1>1, OlderPivots
    <3>2. \A k : k \in P => k \in HighPivots(bars, N)
      BY <1>1, OlderPivots
    <3>3. \A k : k \in Q => k \in LowPivots(bars, N)
      BY <1>1, OlderPivots
    <3> QED BY <3>1, <3>2, <3>3
  <2> HIDE DEF P, Q
  <2>3. ASSUME NEW T, T \subseteq 1..N, T # {} PROVE Max(T) \in 1..N
    <3>1. IsFiniteSet(1..N)
      BY <1>1, FS_Interval
    <3>2. T \in SUBSET (1..N) /\ T \in SUBSET Int
      BY <2>3
    <3>3. IsFiniteSet(T)
      BY <3>1, <3>2, FS_Subset
    <3>4. Max(T) \in T
      BY <2>3, <3>2, <3>3, HasMax
    <3> QED BY <3>4, <2>3
  <2>4. (P # {} => bars[Max(P)].high \in Int) /\ (Q # {} => bars[Max(Q)].low \in Int)
    BY <2>2, <2>3, <1>1
  <2> QED BY <2>1, <2>4 DEF Pivots, Options
<1>10. /\ lower \in Options /\ upper \in Options
       /\ trend \in {1, -1} /\ trendStart \in Nat /\ live \in BOOLEAN
       /\ entered \in {None, "long", "short"}
       /\ N > 0 => lower \in Int /\ upper \in Int
  BY <1>1 DEF Inv, BandsInv, EntryInv, Options
<1>11. point \in {None} \cup
           [entry : {None, "long", "short"}, line : Int, er : Nat \X Nat,
            moves : Nat, struct : [high : Int, low : Int], lastPivot : Pivots]
  <2> SUFFICES ASSUME point # None
               PROVE  point \in
                   [entry : {None, "long", "short"}, line : Int, er : Nat \X Nat,
                    moves : Nat, struct : [high : Int, low : Int], lastPivot : Pivots]
    OBVIOUS
  <2> DEFINE line == IF trend = 1 THEN lower ELSE upper
             ratio == EfficiencyRatio(er)
             moves == MovesWithWindow(momentum)
             top == Head(structure.queues.high).value
             bottom == Head(structure.queues.low).value
  <2>1. /\ N > 0 /\ point.entry \in {None, "long", "short"}
        /\ point = [entry |-> point.entry, line |-> line, er |-> ratio, moves |-> moves,
                    struct |-> [high |-> top, low |-> bottom], lastPivot |-> lastPivot]
    BY DEF Inv, PointInv
  <2>2. line \in Int
    BY <2>1, <1>10
  <2>3. ratio \in Nat \X Nat
    <3>1. /\ er.volatility \in Nat /\ Len(er.closes) \in Nat
          /\ Len(er.closes) = (IF N < ErLen + 1 THEN N ELSE ErLen + 1)
          /\ er.closes[Len(er.closes)] = bars[N].close
          /\ Head(er.closes) = bars[N - Len(er.closes) + 1].close
      BY <2>1, EfficiencyWindow
    <3> DEFINE j == N - Len(er.closes) + 1
    <3>2. N \in 1..N /\ j \in 1..N
      <4>1. Len(er.closes) \in Nat /\ Len(er.closes) = IF N < ErLen + 1 THEN N ELSE ErLen + 1
        BY <3>1
      <4> DEFINE len == Len(er.closes)
      <4>2. len \in Nat /\ len >= 1 /\ len <= N
        BY <4>1, <2>1, <1>1
      <4> HIDE DEF len
      <4>3. N - len + 1 \in 1..N /\ N \in 1..N
        BY <4>2, <1>1
      <4> QED BY <4>3 DEF len
    <3>3. bars[N].close \in Int /\ bars[j].close \in Int
      <4> HIDE DEF j
      <4> QED BY <3>2, <1>1
    <3>4. Abs(bars[N].close - bars[j].close) \in Nat
      <4> HIDE DEF j
      <4> QED BY <3>3, Triangle
    <3>5. Abs(er.closes[Len(er.closes)] - Head(er.closes)) \in Nat
      BY <3>1, <3>4
    <3>6. ratio = <<0, 1>> \/ ratio = <<Abs(er.closes[Len(er.closes)] - Head(er.closes)), er.volatility>>
      BY DEF EfficiencyRatio
    <3> DEFINE far == Abs(er.closes[Len(er.closes)] - Head(er.closes))
               path == er.volatility
    <3>7. far \in Nat /\ path \in Nat /\ (ratio = <<0, 1>> \/ ratio = <<far, path>>)
      BY <3>1, <3>5, <3>6
    <3> HIDE DEF ratio, far, path
    <3> QED BY <3>7
  <2>4. moves \in Nat
    <3>1. momentum.positive \in Nat /\ momentum.negative \in Nat
      BY <1>6
    <3> DEFINE change == momentum.closes[Len(momentum.closes)] - Head(momentum.closes)
    <3>2. Rises(change) \in {0, 1} /\ Falls(change) \in {0, 1}
      BY DEF Rises, Falls
    <3>3. moves = 0 \/ moves = Rises(change) * momentum.positive + Falls(change) * momentum.negative
      BY DEF MovesWithWindow
    <3> HIDE DEF change, moves
    <3> QED BY <3>1, <3>2, <3>3
  <2>5. top \in Int /\ bottom \in Int
    BY <2>1, StructureFronts
  <2> HIDE DEF line, ratio, moves, top, bottom
  <2> QED BY <2>1, <2>2, <2>3, <2>4, <2>5, <1>9
<1>12. walked \in Seq(Nat)
  BY DEF Inv, PathInv
<1> QED BY <1>1, <1>2, <1>3, <1>4, <1>6, <1>7, <1>8, <1>9, <1>10, <1>11, <1>12 DEF TypeOK

-----------------------------------------------------------------------------
(* The state keeps its types, however long the windows and however many    *)
(* bars: no counter of moves and no length of a path falls below 0.        *)
THEOREM StateTypes == Spec => []TypeOK
BY Invariance, InvType, PTL

(* The structure range is exact for every StructLen: the monotonic queues  *)
(* are each the staircase of the extremes that are still to come.          *)
THEOREM ExtremaAreExact == Spec => []ExtremaExact
BY Invariance, InvExtrema, PTL

(* The running volatility is the length of the path for every ErLen, and   *)
(* so the efficiency ratio is never above 1.                               *)
THEOREM EfficiencyIsExact == Spec => []EfficiencyIsPath
BY Invariance, InvEfficiency, PTL

(* The momentum counters are the counts of the window for every MomLen.    *)
THEOREM MomentumIsExact == Spec => []MomentumCounts
BY Invariance, InvMomentum, PTL

(* The pivots in use are the latest confirmed ones for every PivotLen.     *)
THEOREM PivotIsLatest == Spec => []LatestPivot
BY Invariance, InvPivot, PTL

(* The reported line is on the trend's side of the close, whatever the     *)
(* multipliers and the ATR are.                                            *)
THEOREM LineIsOnTrendSide == Spec => []LineOnTrendSide
BY Invariance, InvLine, PTL

(* No entry comes of windows that are not full.                            *)
THEOREM EntriesAreWarm == Spec => []EntryIsWarm
BY Invariance, InvWarm, PTL

(* A bar moves the line with its trend only.                               *)
LEMMA RatchetStep == ASSUME Inv, [Next]_vars PROVE [Ratchets]_vars
<1> SUFFICES ASSUME Next, CloseSource, processed' # processed, trend' = trend
             PROVE  /\ trend = 1 /\ lower # None /\ lastClose # lower => lower' >= lower
                    /\ trend = -1 /\ lastClose # upper => upper' <= upper
  BY DEF Ratchets
<1>1. PICK bar \in Bars, endAt \in 1..MaxTime, mayEmit \in BOOLEAN :
          ProcessBar(bar, endAt, mayEmit)
  BY DEF Next, Ignore, counters, Replay, Advance
<1>2. BarsInv /\ BandsInv
  BY DEF Inv
<1> QED BY <1>1, <1>2, BandsStep

(* The line follows its trend and never turns back while the trend lasts.  *)
THEOREM LinesRatchet == Spec => LineRatchets
BY Invariance, RatchetStep, PTL DEF Spec, LineRatchets

(* No two live entries of a side follow each other, and no flip between    *)
(* them was left out: the first entry after a replay included.             *)
THEOREM EntriesDoAlternate == Spec => EntriesAlternate
<1>1. ASSUME Inv, [Next]_vars
      PROVE  [processed' # processed /\ entered # None /\ point'.entry # None =>
                  point'.entry # entered]_vars
  <2> SUFFICES ASSUME Next, processed' # processed, entered # None, point'.entry # None
               PROVE  point'.entry # entered
    BY <1>1
  <2>1. PICK bar \in Bars, endAt \in 1..MaxTime, mayEmit \in BOOLEAN :
            ProcessBar(bar, endAt, mayEmit)
    BY DEF Next, Ignore, counters, Replay, Advance
  <2>2. BarsInv /\ BandsInv
    BY <1>1 DEF Inv
  <2>3. entered = (IF trend = 1 THEN "long" ELSE "short")
    BY <1>1 DEF Inv, EntryInv
  <2>4. point'.entry = EntrySide(mayEmit) /\ trend \in {1, -1} /\ trend' \in {1, -1}
    BY <2>1, <2>2, PointEntry
  <2>5. EntrySide(mayEmit) # None =>
            /\ processed + 1 >= MinWarmup /\ trend' # trend
            /\ EntrySide(mayEmit) = (IF trend' = 1 THEN "long" ELSE "short")
    BY <2>1, <2>2, PointEntry
  <2> HIDE DEF EntrySide
  <2>6. trend' # trend /\ point'.entry = IF trend' = 1 THEN "long" ELSE "short"
    BY <2>4, <2>5
  <2> QED BY <2>3, <2>4, <2>6
<1> QED BY <1>1, Invariance, PTL DEF Spec, EntriesAlternate

(* What a point says of the windows is what the last bars say: the         *)
(* incremental updates never drift from them.                              *)
THEOREM WindowsAlwaysExact == Spec => []WindowsAreExact
<1>1. ExtremaExact /\ EfficiencyIsPath /\ MomentumCounts => WindowsAreExact
  BY DEF WindowsAreExact
<1> QED BY <1>1, ExtremaAreExact, EfficiencyIsExact, MomentumIsExact, PTL

(* The line a trade may trail is on the side of its trend and follows it.  *)
THEOREM LineFollows == Spec => LineFollowsTrend
<1>1. ASSUME LineOnTrendSide', [Ratchets]_vars
      PROVE  [LineOnTrendSide' /\ Ratchets]_vars
  BY <1>1
<1> QED BY <1>1, LineIsOnTrendSide, LinesRatchet, PTL DEF LineRatchets, LineFollowsTrend

(* Entries come of full windows, and one side after the other.             *)
THEOREM EntriesSound == Spec => EntriesAreSound
BY EntriesAreWarm, EntriesDoAlternate, PTL DEF EntriesAreSound

-----------------------------------------------------------------------------
(* The engine that forms the bars and hands them to the states: constants  *)
(* and variables it has for itself.  What an SSU has processed is `states`.*)
CONSTANTS PeriodOf, DayLen, SessionClose, MaxRecent, WarmupBars, StateCapacity,
          MaxLag, MaxTicks, MaxReloads
VARIABLES now, historyEnd, registered, reload, ticks, reloads

Engine == INSTANCE TimeframeEngine

(* The constants, as the engine assumes them.                              *)
LEMMA EngineConstants ==
    ASSUME Engine!EngineAssumption
    PROVE  /\ Engine!Timeframes \subseteq Nat \ {0} /\ Prices \subseteq Int
           /\ DayLen \in Nat \ {0} /\ SessionClose \in {None} \cup 1..DayLen
           /\ None \notin Int /\ None \notin Engine!Bars
           /\ MaxTime \in Nat
BY DEF Engine!EngineAssumption

(* The last multiple of a length, and the next.                            *)
LEMMA StartIs ==
    ASSUME NEW tf \in Nat \ {0}, NEW at \in Nat
    PROVE  /\ Engine!StartOf(tf, at) \in Nat
           /\ \E q \in Nat : Engine!StartOf(tf, at) = q * tf
           /\ Engine!StartOf(tf, at) <= at /\ at < Engine!StartOf(tf, at) + tf
<1> DEFINE q == at \div tf
<1>1. q \in Nat
  OBVIOUS
<1>2. at = tf * q + (at % tf) /\ 0 <= at % tf /\ at % tf < tf
  OBVIOUS
<1>3. q * tf = tf * q /\ q * tf \in Nat
  BY <1>1
<1>4. Engine!StartOf(tf, at) = q * tf
  BY DEF Engine!StartOf
<1> HIDE DEF q
<1>5. \E p \in Nat : Engine!StartOf(tf, at) = p * tf
  BY <1>1, <1>4
<1>6. PICK r : r = at % tf
  OBVIOUS
<1>7. PICK b : b = q * tf
  OBVIOUS
<1>8. at = b + r /\ r \in Int /\ 0 <= r /\ r < tf /\ b \in Nat
  BY <1>2, <1>3, <1>6, <1>7
<1>9. b <= at /\ at < b + tf
  BY <1>8
<1> QED BY <1>4, <1>5, <1>7, <1>8, <1>9

LEMMA NextMultiple ==
    ASSUME NEW tf \in Nat \ {0}, NEW p \in Nat, NEW q \in Nat, p * tf < q * tf
    PROVE  p * tf + tf <= q * tf
<1>1. p + 1 <= q
  <2> SUFFICES ASSUME q <= p PROVE FALSE
    OBVIOUS
  <2>1. PICK d \in Nat : p = q + d
    BY p - q \in Nat, p = q + (p - q)
  <2>2. p * tf = q * tf + d * tf /\ d * tf \in Nat /\ q * tf \in Nat
    BY <2>1
  <2> QED BY <2>2
<1>2. PICK d \in Nat : q = p + 1 + d
  BY <1>1, q - (p + 1) \in Nat, q = p + 1 + (q - (p + 1))
<1>3. q * tf = (p + 1) * tf + d * tf /\ d * tf \in Nat
  BY <1>2
<1>4. (p + 1) * tf = p * tf + tf /\ p * tf \in Nat
  OBVIOUS
<1> QED BY <1>3, <1>4

(* A new bar lies in one bucket and is not empty.                          *)
LEMMA NewBarIs ==
    ASSUME Engine!EngineAssumption, NEW tf \in Engine!Timeframes, NEW at \in Nat,
           NEW ltp \in Prices
    PROVE  /\ Engine!NewBar(tf, at, ltp) \in Engine!Bars
           /\ Engine!NewBar(tf, at, ltp).start = Engine!StartOf(tf, at)
           /\ Engine!NewBar(tf, at, ltp).start < Engine!NewBar(tf, at, ltp).end
           /\ Engine!NewBar(tf, at, ltp).end <= Engine!StartOf(tf, at) + tf
           /\ Engine!NewBar(tf, at, ltp).open = ltp /\ Engine!NewBar(tf, at, ltp).close = ltp
           /\ Engine!NewBar(tf, at, ltp).high = ltp /\ Engine!NewBar(tf, at, ltp).low = ltp
<1> DEFINE s == Engine!StartOf(tf, at)
           e == Engine!EndOf(tf, at)
<1>1. tf \in Nat \ {0}
  BY EngineConstants
<1>2. s \in Nat /\ s <= at /\ at < s + tf
  BY <1>1, StartIs
<1>3. e \in Int /\ s < e /\ e <= s + tf
  <2> DEFINE close == (s \div DayLen) * DayLen + SessionClose
  <2>1. e = (IF SessionClose # None /\ at < close /\ close < s + tf THEN close ELSE s + tf)
    BY DEF Engine!EndOf
  <2>2. SessionClose # None => close \in Int
    <3> SUFFICES ASSUME SessionClose # None PROVE close \in Int
      OBVIOUS
    <3> HIDE DEF s
    <3>1. DayLen \in Nat \ {0} /\ SessionClose \in Nat
      BY EngineConstants
    <3>2. s \div DayLen \in Nat
      BY <1>2, <3>1
    <3>3. (s \div DayLen) * DayLen \in Nat
      BY <3>1, <3>2
    <3> QED BY <3>1, <3>3
  <2> HIDE DEF close, s, e
  <2> QED BY <1>1, <1>2, <2>1, <2>2
<1>4. Engine!NewBar(tf, at, ltp) =
        [start |-> s, end |-> e, open |-> ltp, high |-> ltp, low |-> ltp, close |-> ltp]
  BY DEF Engine!NewBar
<1> HIDE DEF s, e
<1> QED BY <1>2, <1>3, <1>4 DEF Engine!Bars, s

-----------------------------------------------------------------------------
(* The ticks a bar is made of: those of its bucket that came before any of *)
(* a later one.                                                            *)
Heard == [at : Nat, price : Prices]
TicksOf(tf, h, b) ==
    {k \in DOMAIN h : /\ Engine!StartOf(tf, h[k].at) = b
                      /\ \A j \in 1..k : Engine!StartOf(tf, h[j].at) <= b}
NoneAfter(tf, h, b) == \A k \in DOMAIN h : Engine!StartOf(tf, h[k].at) <= b

MadeOf(tf, h, bar) ==
    LET mine == TicksOf(tf, h, bar.start)
    IN  \E f \in mine, l \in mine :
            /\ \A k \in mine : /\ f <= k /\ k <= l
                               /\ bar.low <= h[k].price /\ h[k].price <= bar.high
            /\ bar.open = h[f].price /\ bar.close = h[l].price
            /\ \E k \in mine : h[k].price = bar.high
            /\ \E k \in mine : h[k].price = bar.low

(* What one more tick does to a list of them.                              *)
LEMMA TickAppended ==
    ASSUME NEW h \in Seq(Heard), NEW t \in Heard
    PROVE  /\ Append(h, t) \in Seq(Heard)
           /\ Len(h) \in Nat /\ DOMAIN h = 1..Len(h)
           /\ DOMAIN Append(h, t) = 1..(Len(h) + 1)
           /\ \A k \in 1..Len(h) : Append(h, t)[k] = h[k]
           /\ Append(h, t)[Len(h) + 1] = t
OBVIOUS

(* A tick of another bucket, or after a later one, is not the bar's.       *)
LEMMA TickElsewhere ==
    ASSUME NEW h \in Seq(Heard), NEW t \in Heard, NEW tf \in Nat \ {0}, NEW b \in Int,
           \/ Engine!StartOf(tf, t.at) # b
           \/ \E j \in DOMAIN h : Engine!StartOf(tf, h[j].at) > b
    PROVE  TicksOf(tf, Append(h, t), b) = TicksOf(tf, h, b)
<1> DEFINE g == Append(h, t)
           n == Len(h)
           S(x) == Engine!StartOf(tf, x.at)
<1>1. /\ n \in Nat /\ DOMAIN h = 1..n /\ DOMAIN g = 1..(n + 1)
      /\ \A k \in 1..n : g[k] = h[k]
      /\ g[n + 1] = t
  BY TickAppended
<1>2. \A x \in Heard : S(x) \in Nat
  BY StartIs DEF Heard
<1>3. \A k \in 1..n : h[k] \in Heard
  BY <1>1
<1>4. TicksOf(tf, g, b) = {k \in 1..(n + 1) : S(g[k]) = b /\ \A j \in 1..k : S(g[j]) <= b}
  BY <1>1 DEF TicksOf
<1>5. TicksOf(tf, h, b) = {k \in 1..n : S(h[k]) = b /\ \A j \in 1..k : S(h[j]) <= b}
  BY <1>1 DEF TicksOf
<1>6. S(t) # b \/ \E j \in 1..n : S(h[j]) > b
  BY <1>1
<1> HIDE DEF g, n, S
<1>7. ~(S(g[n + 1]) = b /\ \A j \in 1..(n + 1) : S(g[j]) <= b)
  <2>1. CASE S(t) # b
    BY <1>1, <2>1
  <2>2. CASE \E j \in 1..n : S(h[j]) > b
    <3>1. PICK j \in 1..n : S(h[j]) > b
      BY <2>2
    <3>2. S(g[j]) > b /\ j \in 1..(n + 1) /\ S(g[j]) \in Int
      BY <1>1, <1>2, <1>3, <3>1
    <3> QED BY <3>2
  <2> QED BY <1>6, <2>1, <2>2
<1>8. \A k \in 1..n : (S(g[k]) = b /\ \A j \in 1..k : S(g[j]) <= b)
                        <=> (S(h[k]) = b /\ \A j \in 1..k : S(h[j]) <= b)
  BY <1>1
<1>9. \A k \in 1..(n + 1) : k \in 1..n \/ k = n + 1
  BY <1>1
<1>10. \A k \in 1..n : k \in 1..(n + 1)
  BY <1>1
<1>11. TicksOf(tf, g, b) = TicksOf(tf, h, b)
  BY <1>4, <1>5, <1>7, <1>8, <1>9, <1>10
<1> QED BY <1>11 DEF g

(* A tick of the newest bucket is the bar's.                               *)
LEMMA TickOfBar ==
    ASSUME NEW h \in Seq(Heard), NEW t \in Heard, NEW tf \in Nat \ {0},
           NEW b, Engine!StartOf(tf, t.at) = b, NoneAfter(tf, h, b)
    PROVE  TicksOf(tf, Append(h, t), b) = TicksOf(tf, h, b) \cup {Len(h) + 1}
<1> DEFINE g == Append(h, t)
           n == Len(h)
           S(x) == Engine!StartOf(tf, x.at)
<1>1. /\ n \in Nat /\ DOMAIN h = 1..n /\ DOMAIN g = 1..(n + 1)
      /\ \A k \in 1..n : g[k] = h[k]
      /\ g[n + 1] = t
  BY TickAppended
<1>2. S(t) \in Nat /\ S(t) = b /\ \A k \in 1..n : S(h[k]) <= b
  BY <1>1, StartIs DEF Heard, NoneAfter
<1>4. TicksOf(tf, g, b) = {k \in 1..(n + 1) : S(g[k]) = b /\ \A j \in 1..k : S(g[j]) <= b}
  BY <1>1 DEF TicksOf
<1>5. TicksOf(tf, h, b) = {k \in 1..n : S(h[k]) = b /\ \A j \in 1..k : S(h[j]) <= b}
  BY <1>1 DEF TicksOf
<1> HIDE DEF g, n, S
<1>6. \A j \in 1..(n + 1) : j \in 1..n \/ j = n + 1
  BY <1>1
<1>7. \A j \in 1..(n + 1) : S(g[j]) <= b
  BY <1>1, <1>2, <1>6
<1>8. S(g[n + 1]) = b /\ \A j \in 1..(n + 1) : S(g[j]) <= b
  BY <1>1, <1>2, <1>7
<1>9. \A k \in 1..n : k \in 1..(n + 1) /\ \A j \in 1..k : j \in 1..n
  BY <1>1
<1>10. \A k \in 1..n : (S(g[k]) = b /\ \A j \in 1..k : S(g[j]) <= b)
                        <=> (S(h[k]) = b /\ \A j \in 1..k : S(h[j]) <= b)
  BY <1>1, <1>9
<1>11. n + 1 \in 1..(n + 1)
  BY <1>1
<1>12. TicksOf(tf, g, b) = TicksOf(tf, h, b) \cup {n + 1}
  BY <1>4, <1>5, <1>6, <1>8, <1>9, <1>10, <1>11
<1> QED BY <1>12 DEF g, n

LEMMA TicksAre ==
    ASSUME NEW h \in Seq(Heard), NEW tf \in Nat \ {0}, NEW b
    PROVE  /\ TicksOf(tf, h, b) \subseteq 1..Len(h)
           /\ Len(h) \in Nat
           /\ \A k \in 1..Len(h) : h[k].price \in Prices
<1>1. Len(h) \in Nat /\ DOMAIN h = 1..Len(h) /\ \A k \in 1..Len(h) : h[k] \in Heard
  OBVIOUS
<1> QED BY <1>1 DEF TicksOf, Heard

LEMMA StillMade ==
    ASSUME NEW h \in Seq(Heard), NEW t \in Heard, NEW tf \in Nat \ {0}, NEW bar,
           TicksOf(tf, Append(h, t), bar.start) = TicksOf(tf, h, bar.start),
           MadeOf(tf, h, bar)
    PROVE  MadeOf(tf, Append(h, t), bar)
<1> DEFINE mine == TicksOf(tf, h, bar.start)
           g == Append(h, t)
<1>1. \A k \in mine : g[k] = h[k]
  BY TicksAre, TickAppended
<1>2. TicksOf(tf, g, bar.start) = mine
  OBVIOUS
<1>3. PICK f \in mine, l \in mine :
            /\ \A k \in mine : /\ f <= k /\ k <= l
                               /\ bar.low <= h[k].price /\ h[k].price <= bar.high
            /\ bar.open = h[f].price /\ bar.close = h[l].price
            /\ \E k \in mine : h[k].price = bar.high
            /\ \E k \in mine : h[k].price = bar.low
  BY Zenon DEF MadeOf
<1> HIDE DEF g, mine
<1>4. /\ \A k \in mine : /\ f <= k /\ k <= l
                         /\ bar.low <= g[k].price /\ g[k].price <= bar.high
      /\ bar.open = g[f].price /\ bar.close = g[l].price
      /\ \E k \in mine : g[k].price = bar.high
      /\ \E k \in mine : g[k].price = bar.low
  BY <1>1, <1>3
<1> QED BY <1>2, <1>4 DEF MadeOf, g

(* A bar that its first tick makes.                                        *)
LEMMA NewIsMade ==
    ASSUME NEW h \in Seq(Heard), NEW t \in Heard, NEW tf \in Nat \ {0}, NEW bar,
           Prices \subseteq Int,
           Engine!StartOf(tf, t.at) = bar.start,
           \A k \in DOMAIN h : Engine!StartOf(tf, h[k].at) < bar.start,
           bar.open = t.price, bar.high = t.price, bar.low = t.price, bar.close = t.price
    PROVE  MadeOf(tf, Append(h, t), bar) /\ NoneAfter(tf, Append(h, t), bar.start)
<1> DEFINE n == Len(h)
           g == Append(h, t)
<1>1. /\ n \in Nat /\ DOMAIN h = 1..n /\ DOMAIN g = 1..(n + 1) /\ g[n + 1] = t
      /\ \A k \in 1..n : g[k] = h[k]
  BY TickAppended
<1>2. t.price \in Int /\ bar.start \in Nat
  BY StartIs DEF Heard
<1>3. \A k \in DOMAIN h : Engine!StartOf(tf, h[k].at) \in Nat
  <2> TAKE k \in DOMAIN h
  <2>1. h[k] \in Heard
    OBVIOUS
  <2> QED BY <2>1, StartIs DEF Heard
<1>4. NoneAfter(tf, h, bar.start)
  BY <1>2, <1>3 DEF NoneAfter
<1>5. TicksOf(tf, h, bar.start) = {}
  BY <1>2, <1>3 DEF TicksOf
<1>6. TicksOf(tf, g, bar.start) = {n + 1}
  <2>1. PICK b : b = bar.start
    OBVIOUS
  <2>2. Engine!StartOf(tf, t.at) = b /\ NoneAfter(tf, h, b)
    BY <1>4, <2>1
  <2>3. TicksOf(tf, g, b) = TicksOf(tf, h, b) \cup {n + 1}
    BY <2>2, TickOfBar
  <2> QED BY <1>5, <2>1, <2>3
<1>7. NoneAfter(tf, g, bar.start)
  <2> SUFFICES ASSUME NEW k \in 1..(n + 1) PROVE Engine!StartOf(tf, g[k].at) <= bar.start
    BY <1>1 DEF NoneAfter
  <2> HIDE DEF g, n
  <2>1. CASE k = n + 1
    BY <1>1, <1>2, <2>1
  <2>2. CASE k \in 1..n
    BY <1>1, <1>4, <2>2 DEF NoneAfter
  <2> QED BY <1>1, <2>1, <2>2
<1> HIDE DEF g, n
<1>8. MadeOf(tf, g, bar)
  BY <1>1, <1>2, <1>6 DEF MadeOf
<1> QED BY <1>7, <1>8 DEF g

(* A bar that one more of its ticks extends.                               *)
LEMMA ExtendedIsMade ==
    ASSUME NEW h \in Seq(Heard), NEW t \in Heard, NEW tf \in Nat \ {0},
           Prices \subseteq Int, NEW bar \in Engine!Bars,
           Engine!StartOf(tf, t.at) = bar.start, NoneAfter(tf, h, bar.start),
           MadeOf(tf, h, bar)
    PROVE  /\ Engine!Extended(bar, t.price) \in Engine!Bars
           /\ Engine!Extended(bar, t.price).start = bar.start
           /\ Engine!Extended(bar, t.price).end = bar.end
           /\ MadeOf(tf, Append(h, t), Engine!Extended(bar, t.price))
           /\ NoneAfter(tf, Append(h, t), bar.start)
<1> DEFINE n == Len(h)
           g == Append(h, t)
           mine == TicksOf(tf, h, bar.start)
           longer == Engine!Extended(bar, t.price)
<1>1. /\ n \in Nat /\ DOMAIN h = 1..n /\ DOMAIN g = 1..(n + 1) /\ g[n + 1] = t
      /\ \A k \in 1..n : g[k] = h[k]
  BY TickAppended
<1>2. mine \subseteq 1..n /\ \A k \in 1..n : h[k].price \in Int
  BY TicksAre
<1>3. t.price \in Prices /\ t.price \in Int /\ bar.start \in Nat
  BY StartIs DEF Heard
<1>4. TicksOf(tf, g, bar.start) = mine \cup {n + 1}
  BY TickOfBar
<1>5. /\ bar.high \in Prices /\ bar.low \in Prices /\ bar.high \in Int /\ bar.low \in Int
      /\ bar.open \in Prices /\ bar.close \in Prices
  BY DEF Engine!Bars
<1>6. /\ longer \in Engine!Bars
      /\ longer.start = bar.start /\ longer.end = bar.end
      /\ longer.open = bar.open /\ longer.close = t.price
      /\ longer.high = (IF t.price > bar.high THEN t.price ELSE bar.high)
      /\ longer.low = (IF t.price < bar.low THEN t.price ELSE bar.low)
  BY <1>3, <1>5 DEF Engine!Extended, Engine!Bars
<1>7. PICK f \in mine, l \in mine :
            /\ \A k \in mine : /\ f <= k /\ k <= l
                               /\ bar.low <= h[k].price /\ h[k].price <= bar.high
            /\ bar.open = h[f].price /\ bar.close = h[l].price
            /\ \E k \in mine : h[k].price = bar.high
            /\ \E k \in mine : h[k].price = bar.low
  BY Zenon DEF MadeOf
<1>8. NoneAfter(tf, g, bar.start)
  <2> SUFFICES ASSUME NEW k \in 1..(n + 1) PROVE Engine!StartOf(tf, g[k].at) <= bar.start
    BY <1>1 DEF NoneAfter
  <2> HIDE DEF g, n
  <2>1. CASE k = n + 1
    BY <1>1, <1>3, <2>1
  <2>2. CASE k \in 1..n
    BY <1>1, <2>2 DEF NoneAfter
  <2> QED BY <1>1, <2>1, <2>2
<1> HIDE DEF g, n, mine, longer
<1> DEFINE all == mine \cup {n + 1}
<1>9. \A k \in mine : k \in 1..n /\ g[k] = h[k] /\ g[k].price \in Int
  BY <1>1, <1>2
<1>10. \A k \in all : f <= k /\ k <= n + 1
  BY <1>1, <1>7, <1>9
<1>11. \A k \in all : longer.low <= g[k].price /\ g[k].price <= longer.high
  <2>1. PICK high, low : high = longer.high /\ low = longer.low
    OBVIOUS
  <2>2. /\ high \in Int /\ low \in Int /\ bar.high <= high /\ low <= bar.low
        /\ t.price <= high /\ low <= t.price
    BY <1>3, <1>5, <1>6, <2>1
  <2>3. ASSUME NEW k \in mine PROVE low <= g[k].price /\ g[k].price <= high
    <3>1. bar.low <= g[k].price /\ g[k].price <= bar.high /\ g[k].price \in Int
      BY <1>7, <1>9
    <3> QED BY <1>5, <2>2, <3>1
  <2>4. g[n + 1].price = t.price
    BY <1>1
  <2> QED BY <2>1, <2>2, <2>3, <2>4
<1>12. longer.open = g[f].price /\ longer.close = g[n + 1].price
  BY <1>1, <1>6, <1>7, <1>9
<1>13. \E k \in all : g[k].price = longer.high
  BY <1>1, <1>3, <1>5, <1>6, <1>7, <1>9
<1>14. \E k \in all : g[k].price = longer.low
  BY <1>1, <1>3, <1>5, <1>6, <1>7, <1>9
<1>15. f \in all /\ n + 1 \in all
  BY <1>7
<1>16. TicksOf(tf, g, longer.start) = all
  BY <1>4, <1>6
<1> HIDE DEF all
<1>17. MadeOf(tf, g, longer)
  BY <1>10, <1>11, <1>12, <1>13, <1>14, <1>15, <1>16 DEF MadeOf
<1> QED BY <1>6, <1>8, <1>17 DEF g, longer

LEMMA ExtremeIs ==
    ASSUME NEW T \in SUBSET Int, NEW x \in T
    PROVE  /\ (\A y \in T : x <= y) => Min(T) = x
           /\ (\A y \in T : y <= x) => Max(T) = x
<1>1. ASSUME \A y \in T : x <= y PROVE Min(T) = x
  <2>1. \E m \in T : \A y \in T : m <= y
    BY <1>1
  <2>2. Min(T) \in T /\ \A y \in T : Min(T) <= y
    BY <2>1 DEF Min
  <2>3. PICK m : m = Min(T)
    OBVIOUS
  <2>4. m \in Int /\ x \in Int /\ m <= x /\ x <= m
    BY <1>1, <2>2, <2>3
  <2>5. m = x
    BY <2>4
  <2> QED BY <2>3, <2>5
<1>2. ASSUME \A y \in T : y <= x PROVE Max(T) = x
  <2>1. \E m \in T : \A y \in T : m >= y
    BY <1>2
  <2>2. Max(T) \in T /\ \A y \in T : Max(T) >= y
    BY <2>1 DEF Max
  <2>3. PICK m : m = Max(T)
    OBVIOUS
  <2>4. m \in Int /\ x \in Int /\ m <= x /\ x <= m
    BY <1>2, <2>2, <2>3
  <2>5. m = x
    BY <2>4
  <2> QED BY <2>3, <2>5
<1> QED BY <1>1, <1>2

(* Open, high, low and close of some ticks.                                *)
SummedUpBy(h, mine, bar) ==
    /\ mine # {}
    /\ bar.open = h[Min(mine)].price
    /\ bar.close = h[Max(mine)].price
    /\ bar.high = Max({h[k].price : k \in mine})
    /\ bar.low = Min({h[k].price : k \in mine})

LEMMA MadeSays ==
    ASSUME NEW h \in Seq(Heard), NEW tf \in Nat \ {0}, Prices \subseteq Int,
           NEW bar, MadeOf(tf, h, bar)
    PROVE  SummedUpBy(h, TicksOf(tf, h, bar.start), bar)
<1> DEFINE mine == TicksOf(tf, h, bar.start)
           prices == {h[k].price : k \in mine}
<1>1. mine \subseteq 1..Len(h) /\ Len(h) \in Nat /\ \A k \in 1..Len(h) : h[k].price \in Int
  BY TicksAre
<1>2. mine \in SUBSET Int /\ prices \in SUBSET Int
  BY <1>1
<1>3. PICK f \in mine, l \in mine :
            /\ \A k \in mine : /\ f <= k /\ k <= l
                               /\ bar.low <= h[k].price /\ h[k].price <= bar.high
            /\ bar.open = h[f].price /\ bar.close = h[l].price
            /\ \E k \in mine : h[k].price = bar.high
            /\ \E k \in mine : h[k].price = bar.low
  BY Zenon DEF MadeOf
<1> HIDE DEF mine
<1>4. Min(mine) = f /\ Max(mine) = l
  BY <1>2, <1>3, ExtremeIs
<1>5. bar.high \in prices /\ bar.low \in prices
  BY <1>3
<1>6. (\A p \in prices : p <= bar.high) /\ (\A p \in prices : bar.low <= p)
  BY <1>3
<1>7. Max(prices) = bar.high /\ Min(prices) = bar.low
  BY <1>2, <1>5, <1>6, ExtremeIs
<1> QED BY <1>3, <1>4, <1>7 DEF SummedUpBy, mine

-----------------------------------------------------------------------------
(* The bars of a timeframe: the one that is forming, and those announced.  *)
BarOK(tf, h, bar) ==
    /\ bar \in Engine!Bars /\ MadeOf(tf, h, bar) /\ bar.start < bar.end
    /\ \E q \in Nat : bar.start = q * tf

FormingOK(tf, h, bar) ==
    BarOK(tf, h, bar) /\ bar.end <= bar.start + tf /\ NoneAfter(tf, h, bar.start)

AnnouncedOK(tf, h, a, c) ==
    /\ a \in Seq(Engine!Bars)
    /\ \A n \in 1..Len(a) : BarOK(tf, h, a[n]) /\ a[n].end <= c.start
    /\ \A n \in 2..Len(a) : a[n - 1].end <= a[n].start

BarsOK(tf, h, a, c) ==
    /\ h \in Seq(Heard)
    /\ \/ c = None /\ h = <<>> /\ a = <<>>
       \/ c # None /\ FormingOK(tf, h, c) /\ AnnouncedOK(tf, h, a, c)

(* A late tick.                                                            *)
LEMMA LateTick ==
    ASSUME NEW tf \in Nat \ {0}, NEW h, NEW a, NEW c, NEW t \in Heard,
           BarsOK(tf, h, a, c), c # None, c.start > Engine!StartOf(tf, t.at)
    PROVE  BarsOK(tf, Append(h, t), a, c)
<1> DEFINE g == Append(h, t)
           S(x) == Engine!StartOf(tf, x.at)
<1>1. h \in Seq(Heard) /\ FormingOK(tf, h, c) /\ AnnouncedOK(tf, h, a, c)
  BY DEF BarsOK
<1>2. PICK j \in DOMAIN h : S(h[j]) = c.start
  BY <1>1 DEF FormingOK, BarOK, MadeOf, TicksOf
<1>3. c.start \in Int /\ S(t) \in Int /\ g \in Seq(Heard)
  <2>1. c.start \in Int
    BY <1>1 DEF FormingOK, BarOK, Engine!Bars
  <2>2. S(t) \in Int
    BY StartIs DEF Heard
  <2> QED BY <1>1, <2>1, <2>2, TickAppended
<1>4. ASSUME NEW bar, bar.start \in Int, bar.start < c.start \/ bar.start = c.start, BarOK(tf, h, bar)
      PROVE  BarOK(tf, g, bar)
  <2>1. TicksOf(tf, g, bar.start) = TicksOf(tf, h, bar.start)
    <3>1. CASE bar.start = c.start
      BY <1>1, <1>3, <3>1, TickElsewhere
    <3>2. CASE bar.start < c.start
      <4>1. S(h[j]) > bar.start
        BY <1>2, <1>3, <1>4, <3>2
      <4> QED BY <1>1, <1>4, <4>1, TickElsewhere
    <3> QED BY <1>4, <3>1, <3>2
  <2>2. MadeOf(tf, g, bar)
    BY <1>1, <1>4, <2>1, StillMade DEF BarOK
  <2> QED BY <1>4, <2>2 DEF BarOK
<1>5. FormingOK(tf, g, c)
  <2>1. BarOK(tf, g, c)
    BY <1>1, <1>3, <1>4 DEF FormingOK
  <2>2. NoneAfter(tf, g, c.start)
    <3>1. /\ Len(h) \in Nat /\ DOMAIN h = 1..Len(h) /\ DOMAIN g = 1..(Len(h) + 1)
          /\ g[Len(h) + 1] = t /\ \A k \in 1..Len(h) : g[k] = h[k]
      BY <1>1, TickAppended
    <3>2. S(t) <= c.start
      BY <1>3
    <3>3. \A k \in 1..Len(h) : S(h[k]) <= c.start
      BY <1>1, <3>1 DEF FormingOK, NoneAfter
    <3> SUFFICES ASSUME NEW k \in 1..(Len(h) + 1) PROVE Engine!StartOf(tf, g[k].at) <= c.start
      BY <3>1 DEF NoneAfter
    <3> HIDE DEF g
    <3>4. CASE k = Len(h) + 1
      BY <3>1, <3>2, <3>4
    <3>5. CASE k \in 1..Len(h)
      BY <3>1, <3>3, <3>5
    <3> QED BY <3>1, <3>4, <3>5
  <2> QED BY <1>1, <2>1, <2>2 DEF FormingOK
<1>6. AnnouncedOK(tf, g, a, c)
  <2>1. ASSUME NEW n \in 1..Len(a) PROVE BarOK(tf, g, a[n])
    <3>1. BarOK(tf, h, a[n]) /\ a[n].end <= c.start
      BY <1>1 DEF AnnouncedOK
    <3>2. a[n].start \in Int /\ a[n].end \in Int /\ a[n].start < a[n].end
      BY <3>1 DEF BarOK, Engine!Bars
    <3>3. a[n].start < c.start
      BY <1>3, <3>1, <3>2
    <3> QED BY <1>4, <3>1, <3>2, <3>3
  <2> QED BY <1>1, <2>1 DEF AnnouncedOK
<1> QED BY <1>3, <1>5, <1>6 DEF BarsOK

(* A bar of an older bucket is not touched by a later tick.                *)
LEMMA OlderKept ==
    ASSUME NEW tf \in Nat \ {0}, NEW h \in Seq(Heard), NEW t \in Heard, NEW bar,
           BarOK(tf, h, bar), bar.start # Engine!StartOf(tf, t.at)
    PROVE  BarOK(tf, Append(h, t), bar)
<1>1. bar.start \in Int
  BY DEF BarOK, Engine!Bars
<1>2. TicksOf(tf, Append(h, t), bar.start) = TicksOf(tf, h, bar.start)
  BY <1>1, TickElsewhere
<1>3. MadeOf(tf, Append(h, t), bar)
  BY <1>2, StillMade DEF BarOK
<1> QED BY <1>3 DEF BarOK

(* The first tick of a bar, with none before it in its bucket or later.    *)
LEMMA FirstTick ==
    ASSUME Engine!EngineAssumption, NEW tf \in Engine!Timeframes, NEW h \in Seq(Heard),
           NEW t \in Heard,
           \A k \in DOMAIN h : Engine!StartOf(tf, h[k].at) < Engine!StartOf(tf, t.at)
    PROVE  /\ FormingOK(tf, Append(h, t), Engine!NewBar(tf, t.at, t.price))
           /\ Engine!NewBar(tf, t.at, t.price) # None
           /\ Engine!NewBar(tf, t.at, t.price).start = Engine!StartOf(tf, t.at)
<1>1. PICK bar : bar = Engine!NewBar(tf, t.at, t.price)
  OBVIOUS
<1>2. t.at \in Nat /\ t.price \in Prices
  BY DEF Heard
<1>3. tf \in Nat \ {0} /\ Prices \subseteq Int /\ None \notin Engine!Bars
  BY EngineConstants
<1>4. /\ bar \in Engine!Bars /\ bar.start = Engine!StartOf(tf, t.at) /\ bar.start < bar.end
      /\ bar.end <= bar.start + tf
      /\ bar.open = t.price /\ bar.high = t.price /\ bar.low = t.price /\ bar.close = t.price
  <2>1. PICK at, ltp : at = t.at /\ ltp = t.price
    OBVIOUS
  <2>2. at \in Nat /\ ltp \in Prices /\ bar = Engine!NewBar(tf, at, ltp)
    BY <1>1, <1>2, <2>1
  <2>3. /\ bar \in Engine!Bars /\ bar.start = Engine!StartOf(tf, at) /\ bar.start < bar.end
        /\ bar.end <= Engine!StartOf(tf, at) + tf
        /\ bar.open = ltp /\ bar.high = ltp /\ bar.low = ltp /\ bar.close = ltp
    BY <2>2, NewBarIs
  <2> QED BY <2>1, <2>3
<1>5. \E q \in Nat : bar.start = q * tf
  <2>1. \E q \in Nat : Engine!StartOf(tf, t.at) = q * tf
    BY <1>2, <1>3, StartIs
  <2> QED BY <1>4, <2>1
<1>6. MadeOf(tf, Append(h, t), bar) /\ NoneAfter(tf, Append(h, t), bar.start)
  BY <1>3, <1>4, NewIsMade
<1>7. FormingOK(tf, Append(h, t), bar)
  BY <1>4, <1>5, <1>6 DEF FormingOK, BarOK
<1> QED BY <1>1, <1>3, <1>4, <1>7

(* A tick that begins a bar and closes the one before it.                  *)
LEMMA ClosingTick ==
    ASSUME Engine!EngineAssumption, NEW tf \in Engine!Timeframes, NEW h, NEW a, NEW c,
           NEW t \in Heard, BarsOK(tf, h, a, c), c # None, c.start < Engine!StartOf(tf, t.at)
    PROVE  BarsOK(tf, Append(h, t), Append(a, c), Engine!NewBar(tf, t.at, t.price))
<1>1. h \in Seq(Heard) /\ FormingOK(tf, h, c) /\ AnnouncedOK(tf, h, a, c)
  BY DEF BarsOK
<1>2. PICK bar : bar = Engine!NewBar(tf, t.at, t.price)
  OBVIOUS
<1>3. PICK s : s = Engine!StartOf(tf, t.at)
  OBVIOUS
<1>4. tf \in Nat \ {0}
  BY EngineConstants
<1>5. s \in Nat /\ \E q \in Nat : s = q * tf
  BY <1>3, <1>4, StartIs DEF Heard
<1>6. c \in Engine!Bars /\ c.start \in Int /\ c.end \in Int /\ c.start < s /\ c.start < c.end
  BY <1>1, <1>3 DEF FormingOK, BarOK, Engine!Bars
<1>7. \A k \in DOMAIN h : Engine!StartOf(tf, h[k].at) < s
  <2> TAKE k \in DOMAIN h
  <2>1. h[k] \in Heard
    BY <1>1
  <2>2. Engine!StartOf(tf, h[k].at) \in Nat
    BY <1>4, <2>1, StartIs DEF Heard
  <2>3. Engine!StartOf(tf, h[k].at) <= c.start
    BY <1>1 DEF FormingOK, NoneAfter
  <2> QED BY <1>5, <1>6, <2>2, <2>3
<1>8. FormingOK(tf, Append(h, t), bar) /\ bar # None /\ bar.start = s
  BY <1>1, <1>2, <1>3, <1>7, FirstTick
<1>9. c.end <= s
  <2>1. PICK p \in Nat : c.start = p * tf
    BY <1>1 DEF FormingOK, BarOK
  <2>2. PICK q \in Nat : s = q * tf
    BY <1>5
  <2>3. c.start + tf <= s
    BY <1>4, <1>6, <2>1, <2>2, NextMultiple
  <2>4. c.end <= c.start + tf
    BY <1>1 DEF FormingOK
  <2> QED BY <1>4, <1>5, <1>6, <2>3, <2>4
<1>10. AnnouncedOK(tf, Append(h, t), Append(a, c), bar)
  <2> DEFINE b == Append(a, c)
             n == Len(a)
  <2>1. /\ a \in Seq(Engine!Bars) /\ n \in Nat /\ b \in Seq(Engine!Bars) /\ Len(b) = n + 1
        /\ b[n + 1] = c /\ \A k \in 1..n : b[k] = a[k]
    BY <1>1, <1>6 DEF AnnouncedOK
  <2>2. /\ \A k \in 1..n : BarOK(tf, h, a[k]) /\ a[k].end <= c.start
        /\ \A k \in 2..n : a[k - 1].end <= a[k].start
    BY <1>1 DEF AnnouncedOK
  <2> HIDE DEF b, n
  <2>3. ASSUME NEW k \in 1..(n + 1) PROVE BarOK(tf, Append(h, t), b[k]) /\ b[k].end <= s
    <3>1. CASE k = n + 1
      <4>1. BarOK(tf, h, c) /\ c.start # s
        BY <1>1, <1>5, <1>6 DEF FormingOK
      <4>2. BarOK(tf, Append(h, t), c)
        BY <1>1, <1>3, <1>4, <4>1, OlderKept
      <4> QED BY <1>9, <2>1, <3>1, <4>2
    <3>2. CASE k \in 1..n
      <4>1. BarOK(tf, h, a[k]) /\ a[k].end <= c.start /\ b[k] = a[k]
        BY <2>1, <2>2, <3>2
      <4>2. a[k].start \in Int /\ a[k].end \in Int /\ a[k].start < a[k].end
        BY <4>1 DEF BarOK, Engine!Bars
      <4>3. a[k].start # s /\ a[k].end <= s
        BY <1>5, <1>6, <4>1, <4>2
      <4>4. BarOK(tf, Append(h, t), a[k])
        BY <1>1, <1>3, <1>4, <4>1, <4>3, OlderKept
      <4> QED BY <4>1, <4>3, <4>4
    <3> QED BY <2>1, <3>1, <3>2
  <2>4. ASSUME NEW k \in 2..(n + 1) PROVE b[k - 1].end <= b[k].start
    <3>1. k - 1 \in 1..n
      BY <2>1
    <3>2. CASE k = n + 1
      <4>1. k - 1 = n /\ n \in 1..n
        BY <2>1, <3>1, <3>2
      <4> QED BY <2>1, <2>2, <3>2, <4>1
    <3>3. CASE k \in 2..n
      <4>1. k \in 1..n
        BY <2>1, <3>3
      <4> QED BY <2>1, <2>2, <3>1, <3>3, <4>1
    <3> QED BY <2>1, <3>2, <3>3
  <2>5. AnnouncedOK(tf, Append(h, t), b, bar)
    BY <1>8, <2>1, <2>3, <2>4 DEF AnnouncedOK
  <2> QED BY <2>5 DEF b
<1>11. Append(h, t) \in Seq(Heard)
  BY <1>1, TickAppended
<1> QED BY <1>2, <1>8, <1>10, <1>11 DEF BarsOK

(* A tick of the bar that is forming.                                      *)
LEMMA SameTick ==
    ASSUME Engine!EngineAssumption, NEW tf \in Engine!Timeframes, NEW h, NEW a, NEW c,
           NEW t \in Heard, BarsOK(tf, h, a, c), c # None, c.start = Engine!StartOf(tf, t.at)
    PROVE  BarsOK(tf, Append(h, t), a, Engine!Extended(c, t.price))
<1>1. h \in Seq(Heard) /\ FormingOK(tf, h, c) /\ AnnouncedOK(tf, h, a, c)
  BY DEF BarsOK
<1>2. PICK bar : bar = Engine!Extended(c, t.price)
  OBVIOUS
<1>3. tf \in Nat \ {0} /\ Prices \subseteq Int /\ None \notin Engine!Bars
  BY EngineConstants
<1>4. c \in Engine!Bars /\ MadeOf(tf, h, c) /\ NoneAfter(tf, h, c.start) /\ c.start \in Int
  BY <1>1 DEF FormingOK, BarOK, Engine!Bars
<1>5. /\ bar \in Engine!Bars /\ bar.start = c.start /\ bar.end = c.end
      /\ MadeOf(tf, Append(h, t), bar) /\ NoneAfter(tf, Append(h, t), c.start)
  BY <1>1, <1>2, <1>3, <1>4, ExtendedIsMade
<1>6. FormingOK(tf, Append(h, t), bar) /\ bar # None
  BY <1>1, <1>3, <1>5 DEF FormingOK, BarOK
<1>7. AnnouncedOK(tf, Append(h, t), a, bar)
  <2>1. ASSUME NEW k \in 1..Len(a) PROVE BarOK(tf, Append(h, t), a[k]) /\ a[k].end <= bar.start
    <3>1. BarOK(tf, h, a[k]) /\ a[k].end <= c.start
      BY <1>1 DEF AnnouncedOK
    <3>2. a[k].start \in Int /\ a[k].end \in Int /\ a[k].start < a[k].end
      BY <3>1 DEF BarOK, Engine!Bars
    <3>3. a[k].start # Engine!StartOf(tf, t.at)
      BY <1>4, <3>1, <3>2
    <3> QED BY <1>1, <1>3, <1>5, <3>1, <3>3, OlderKept
  <2> QED BY <1>1, <2>1 DEF AnnouncedOK
<1>8. Append(h, t) \in Seq(Heard)
  BY <1>1, TickAppended
<1> QED BY <1>2, <1>6, <1>7, <1>8 DEF BarsOK

-----------------------------------------------------------------------------
(* The bars of every timeframe, and the steps of the engine.               *)
Current(tf) == series[tf].current
EngineInv ==
    /\ series = [tf \in Engine!Timeframes |->
                    [current |-> Current(tf), closed |-> series[tf].closed]]
    /\ \A tf \in Engine!Timeframes : BarsOK(tf, heard[tf], announced[tf], Current(tf))

LEMMA EngineStarts ==
    ASSUME Engine!Init
    PROVE  EngineInv
<1>1. \A tf \in Engine!Timeframes :
          /\ heard[tf] = <<>> /\ announced[tf] = <<>>
          /\ series[tf] = [current |-> None, closed |-> <<>>]
  BY DEF Engine!Init
<1>2. series = [tf \in Engine!Timeframes |->
                    [current |-> Current(tf), closed |-> series[tf].closed]]
  BY <1>1 DEF Engine!Init, Current
<1>3. \A tf \in Engine!Timeframes : BarsOK(tf, heard[tf], announced[tf], Current(tf))
  <2> TAKE tf \in Engine!Timeframes
  <2>1. heard[tf] = <<>> /\ announced[tf] = <<>> /\ Current(tf) = None
    BY <1>1 DEF Current
  <2>2. heard[tf] \in Seq(Heard)
    BY <2>1, EmptySeq
  <2> QED BY <2>1, <2>2 DEF BarsOK
<1> QED BY <1>2, <1>3 DEF EngineInv

(* What update_series makes of a tick.                                     *)
LEMMA UpdatedIs ==
    ASSUME NEW tf, NEW at, NEW ltp, NEW c, c = series[tf].current,
           Engine!Closes(tf, at) => c # None /\ c.start # Engine!StartOf(tf, at)
    PROVE  /\ c = None =>
                 Engine!Updated(tf, at, ltp)
                   = [series[tf] EXCEPT !.current = Engine!NewBar(tf, at, ltp)]
           /\ Engine!Closes(tf, at) =>
                 Engine!Updated(tf, at, ltp)
                   = [current |-> Engine!NewBar(tf, at, ltp),
                      closed  |-> Engine!Merged(series[tf].closed, c.end)]
           /\ c # None /\ ~Engine!Closes(tf, at) /\ c.start = Engine!StartOf(tf, at) =>
                 Engine!Updated(tf, at, ltp)
                   = [series[tf] EXCEPT !.current = Engine!Extended(@, ltp)]
           /\ c # None /\ ~Engine!Closes(tf, at) /\ c.start # Engine!StartOf(tf, at) =>
                 Engine!Updated(tf, at, ltp) = series[tf]
<1>1. c = None => Engine!Updated(tf, at, ltp)
                   = [series[tf] EXCEPT !.current = Engine!NewBar(tf, at, ltp)]
  BY DEF Engine!Updated
<1>2. ASSUME Engine!Closes(tf, at)
      PROVE  Engine!Updated(tf, at, ltp)
                   = [current |-> Engine!NewBar(tf, at, ltp),
                      closed  |-> Engine!Merged(series[tf].closed, c.end)]
  <2>1. series[tf].current # None /\ series[tf].current.start # Engine!StartOf(tf, at)
    BY <1>2
  <2>2. Engine!Updated(tf, at, ltp)
          = [current |-> Engine!NewBar(tf, at, ltp),
             closed  |-> Engine!Merged(series[tf].closed, series[tf].current.end)]
    BY <1>2, <2>1 DEF Engine!Updated
  <2> QED BY <2>2
<1>3. c # None /\ ~Engine!Closes(tf, at) /\ c.start = Engine!StartOf(tf, at) =>
                 Engine!Updated(tf, at, ltp)
                   = [series[tf] EXCEPT !.current = Engine!Extended(@, ltp)]
  BY DEF Engine!Updated
<1>4. c # None /\ ~Engine!Closes(tf, at) /\ c.start # Engine!StartOf(tf, at) =>
                 Engine!Updated(tf, at, ltp) = series[tf]
  BY DEF Engine!Updated
<1> QED BY <1>1, <1>2, <1>3, <1>4

(* One tick, for a timeframe that is required.                             *)
LEMMA TickKeepsBars ==
    ASSUME Engine!EngineAssumption, EngineInv, NEW at \in 0..MaxTime, NEW ltp \in Prices,
           Engine!Tick(at, ltp), NEW tf \in Engine!Timeframes, tf \in Engine!Required
    PROVE  BarsOK(tf, heard'[tf], announced'[tf], Current(tf)')
<1>1. PICK t : t = [at |-> at, price |-> ltp]
  OBVIOUS
<1>2. t \in Heard /\ t.at = at /\ t.price = ltp
  BY <1>1, EngineConstants DEF Heard
<1>3. PICK h, a, c : h = heard[tf] /\ a = announced[tf] /\ c = series[tf].current
  OBVIOUS
<1>4. BarsOK(tf, h, a, c)
  BY <1>3 DEF EngineInv, Current
<1>5. heard'[tf] = Append(h, t)
  BY <1>1, <1>3 DEF Engine!Tick
<1>6. announced'[tf] = IF Engine!Closes(tf, at) THEN Append(a, c) ELSE a
  BY <1>3 DEF Engine!Tick
<1>7. series'[tf] = Engine!Updated(tf, at, ltp)
  BY DEF Engine!Tick
<1>8. Engine!Closes(tf, at) <=> c # None /\ c.start < Engine!StartOf(tf, at)
  BY <1>3 DEF Engine!Closes
<1>9. series[tf] = [current |-> c, closed |-> series[tf].closed]
  BY <1>3 DEF EngineInv, Current
<1>10. c # None => c.start \in Int
  BY <1>4 DEF BarsOK, FormingOK, BarOK, Engine!Bars
<1>11. Engine!StartOf(tf, at) \in Int
  BY <1>2, EngineConstants, StartIs DEF Heard
<1>12. CASE c = None
  <2>1. Current(tf)' = Engine!NewBar(tf, at, ltp)
    BY <1>3, <1>7, <1>8, <1>9, <1>12 DEF Engine!Updated, Current
  <2>2. h = <<>> /\ a = <<>> /\ announced'[tf] = <<>>
    BY <1>4, <1>6, <1>8, <1>12 DEF BarsOK
  <2>3. h \in Seq(Heard) /\ DOMAIN h = {}
    BY <2>2
  <2>4. /\ FormingOK(tf, Append(h, t), Engine!NewBar(tf, t.at, t.price))
        /\ Engine!NewBar(tf, t.at, t.price) # None
    BY <1>2, <2>3, FirstTick
  <2>5. AnnouncedOK(tf, Append(h, t), <<>>, Engine!NewBar(tf, t.at, t.price))
    BY DEF AnnouncedOK
  <2>6. Append(h, t) \in Seq(Heard)
    BY <1>2, <2>3, TickAppended
  <2>7. BarsOK(tf, Append(h, t), <<>>, Engine!NewBar(tf, t.at, t.price))
    BY <2>4, <2>5, <2>6 DEF BarsOK
  <2> QED BY <1>2, <1>5, <2>1, <2>2, <2>7
<1>13. CASE c # None /\ c.start < Engine!StartOf(tf, at)
  <2>1. Current(tf)' = Engine!NewBar(tf, at, ltp)
    <3>1. series[tf].current # None /\ Engine!Closes(tf, at)
      BY <1>3, <1>8, <1>13
    <3>2. Engine!Updated(tf, at, ltp) =
             [current |-> Engine!NewBar(tf, at, ltp),
              closed  |-> Engine!Merged(series[tf].closed, c.end)]
      BY <1>3, <1>10, <1>11, <1>13, <3>1, UpdatedIs
    <3> QED BY <1>7, <3>2 DEF Current
  <2>2. announced'[tf] = Append(a, c)
    BY <1>6, <1>8, <1>13
  <2>3. BarsOK(tf, Append(h, t), Append(a, c), Engine!NewBar(tf, t.at, t.price))
    BY <1>2, <1>4, <1>13, ClosingTick
  <2> QED BY <1>2, <1>5, <2>1, <2>2, <2>3
<1>14. CASE c # None /\ c.start = Engine!StartOf(tf, at)
  <2>1. ~Engine!Closes(tf, at)
    BY <1>8, <1>10, <1>14
  <2>2. Engine!Updated(tf, at, ltp) = [series[tf] EXCEPT !.current = Engine!Extended(@, ltp)]
    BY <1>3, <1>14, <2>1 DEF Engine!Updated
  <2>3. Current(tf)' = Engine!Extended(c, ltp)
    BY <1>7, <1>9, <2>2 DEF Current
  <2>4. announced'[tf] = a
    BY <1>6, <2>1
  <2>5. BarsOK(tf, Append(h, t), a, Engine!Extended(c, t.price))
    BY <1>2, <1>4, <1>14, SameTick
  <2> QED BY <1>2, <1>5, <2>3, <2>4, <2>5
<1>15. CASE c # None /\ c.start > Engine!StartOf(tf, at)
  <2>1. ~Engine!Closes(tf, at) /\ c.start # Engine!StartOf(tf, at)
    BY <1>8, <1>10, <1>11, <1>15
  <2>2. Engine!Updated(tf, at, ltp) = series[tf]
    BY <1>3, <1>15, <2>1 DEF Engine!Updated
  <2>3. Current(tf)' = c /\ announced'[tf] = a
    BY <1>3, <1>6, <1>7, <2>1, <2>2 DEF Current
  <2>4. BarsOK(tf, Append(h, t), a, c)
    BY <1>2, <1>4, <1>15, EngineConstants, LateTick
  <2> QED BY <1>5, <2>3, <2>4
<1> QED BY <1>10, <1>11, <1>12, <1>13, <1>14, <1>15

LEMMA UpdatedShape ==
    ASSUME NEW tf, NEW at, NEW ltp,
           series[tf] = [current |-> series[tf].current, closed |-> series[tf].closed]
    PROVE  \E c, d : Engine!Updated(tf, at, ltp) = [current |-> c, closed |-> d]
<1>1. PICK c0, d0 : series[tf] = [current |-> c0, closed |-> d0]
  OBVIOUS
<1>2. CASE series[tf].current = None
  <2>1. ~Engine!Closes(tf, at)
    BY <1>2 DEF Engine!Closes
  <2>2. Engine!Updated(tf, at, ltp) = [series[tf] EXCEPT !.current = Engine!NewBar(tf, at, ltp)]
    BY <1>2, <2>1 DEF Engine!Updated
  <2> QED BY <1>1, <2>2
<1>3. CASE series[tf].current # None /\ Engine!Closes(tf, at)
  BY <1>3 DEF Engine!Updated
<1>4. CASE series[tf].current # None /\ ~Engine!Closes(tf, at)
  <2>1. CASE series[tf].current.start = Engine!StartOf(tf, at)
    <3>1. Engine!Updated(tf, at, ltp) = [series[tf] EXCEPT !.current = Engine!Extended(@, ltp)]
      BY <1>4, <2>1 DEF Engine!Updated
    <3> QED BY <1>1, <3>1
  <2>2. CASE series[tf].current.start # Engine!StartOf(tf, at)
    <3>1. Engine!Updated(tf, at, ltp) = series[tf]
      BY <1>4, <2>2 DEF Engine!Updated
    <3> QED BY <1>1, <3>1
  <2> QED BY <2>1, <2>2
<1> QED BY <1>2, <1>3, <1>4

LEMMA TickKeepsEngine ==
    ASSUME Engine!EngineAssumption, EngineInv, NEW at \in 0..MaxTime, NEW ltp \in Prices,
           Engine!Tick(at, ltp)
    PROVE  EngineInv'
<1>1. ASSUME NEW tf \in Engine!Timeframes
      PROVE  BarsOK(tf, heard[tf], announced[tf], Current(tf))'
  <2>1. CASE tf \in Engine!Required
    BY <2>1, TickKeepsBars
  <2>2. CASE tf \notin Engine!Required
    <3>1. heard'[tf] = heard[tf] /\ announced'[tf] = announced[tf] /\ series'[tf] = series[tf]
      BY <2>2 DEF Engine!Tick, Engine!Closes
    <3>2. BarsOK(tf, heard[tf], announced[tf], Current(tf))
      BY DEF EngineInv
    <3> QED BY <3>1, <3>2 DEF Current
  <2> QED BY <2>1, <2>2
<1>2. ASSUME NEW tf \in Engine!Timeframes
      PROVE  series'[tf] = [current |-> series'[tf].current, closed |-> series'[tf].closed]
  <2>1. series[tf] = [current |-> series[tf].current, closed |-> series[tf].closed]
    BY DEF EngineInv, Current
  <2>2. PICK c, d : Engine!Updated(tf, at, ltp) = [current |-> c, closed |-> d]
    BY <2>1, UpdatedShape
  <2>3. series'[tf] = IF tf \in Engine!Required THEN Engine!Updated(tf, at, ltp) ELSE series[tf]
    BY DEF Engine!Tick
  <2> QED BY <2>1, <2>2, <2>3
<1>3. series' = [tf \in Engine!Timeframes |-> series'[tf]]
  BY DEF Engine!Tick
<1>4. series' = [tf \in Engine!Timeframes |->
                    [current |-> Current(tf)', closed |-> series'[tf].closed]]
  BY <1>2, <1>3 DEF Current
<1> QED BY <1>1, <1>4 DEF EngineInv, Engine!Timeframes

LEMMA EngineSteps ==
    ASSUME Engine!EngineAssumption, EngineInv, [Engine!Next]_(Engine!vars)
    PROVE  EngineInv'
<1>1. ASSUME UNCHANGED <<series, heard, announced>> PROVE EngineInv'
  BY <1>1 DEF EngineInv, Current, Engine!Timeframes
<1>2. CASE \E at \in 0..MaxTime, ltp \in Prices : at >= now - MaxLag /\ Engine!Tick(at, ltp)
  BY <1>2, TickKeepsEngine
<1>3. CASE \E s \in Ssus : Engine!LoadSsu(s)
  <2>1. PICK s \in Ssus : Engine!LoadSsu(s)
    BY <1>3
  <2>2. PICK tf \in Engine!Timeframes : \E d : series' = [series EXCEPT ![tf].closed = d]
    <3>1. TimeframeOf[s] \in Engine!Timeframes
      BY DEF Engine!Timeframes
    <3> QED BY <2>1, <3>1 DEF Engine!LoadSsu
  <2>3. PICK d : series' = [series EXCEPT ![tf].closed = d]
    BY <2>2
  <2>4. \A r \in Engine!Timeframes :
            series[r] = [current |-> Current(r), closed |-> series[r].closed]
    BY DEF EngineInv
  <2>5. \A r \in Engine!Timeframes :
            series'[r] = [current |-> Current(r),
                          closed |-> IF r = tf THEN d ELSE series[r].closed]
    BY <2>3, <2>4 DEF EngineInv
  <2>6. series' = [r \in Engine!Timeframes |-> series'[r]]
    BY <2>3 DEF EngineInv
  <2>7. \A r \in Engine!Timeframes : Current(r)' = Current(r)
    <3>1. \A r \in Engine!Timeframes : series'[r].current = Current(r)
      <4> TAKE r \in Engine!Timeframes
      <4>1. PICK c, e : c = Current(r) /\ e = IF r = tf THEN d ELSE series[r].closed
        OBVIOUS
      <4>2. series'[r] = [current |-> c, closed |-> e]
        BY <2>5, <4>1
      <4> QED BY <4>1, <4>2
    <3>2. \A r \in Engine!Timeframes : Current(r)' = series'[r].current
      BY DEF Current
    <3> QED BY <3>1, <3>2
  <2>8. series' = [r \in Engine!Timeframes |->
                      [current |-> Current(r)', closed |-> series'[r].closed]]
    BY <2>5, <2>6, <2>7
  <2>9. heard' = heard /\ announced' = announced
    BY <2>1 DEF Engine!LoadSsu, Engine!observers
  <2> QED BY <2>7, <2>8, <2>9 DEF EngineInv, Engine!Timeframes
<1>4. CASE \/ Engine!Pass \/ Engine!StoreHistory \/ Engine!Install \/ Engine!AbortReload
           \/ \E rows \in SUBSET Ssus : Engine!BeginReload(rows)
  BY <1>1, <1>4 DEF Engine!Pass, Engine!StoreHistory, Engine!Install, Engine!AbortReload,
                    Engine!BeginReload, Engine!observers
<1>5. CASE UNCHANGED Engine!vars
  BY <1>1, <1>5 DEF Engine!vars, Engine!observers
<1> QED BY <1>2, <1>3, <1>4, <1>5 DEF Engine!Next

(* The assumption speaks of constants only.                                *)
LEMMA EngineInvariant ==
    ASSUME Engine!EngineAssumption
    PROVE  Engine!Spec => []EngineInv
<1>1. Engine!Init => EngineInv
  BY EngineStarts
<1>2. EngineInv /\ [Engine!Next]_(Engine!vars) => EngineInv'
  BY EngineSteps
<1> QED BY <1>1, <1>2, PTL DEF Engine!Spec

LEMMA InOrder ==
    ASSUME EngineInv
    PROVE  AnnouncedInOrder
<1> SUFFICES ASSUME NEW tf \in Timeframes
             PROVE  /\ \A n \in 2..Len(announced[tf]) :
                           announced[tf][n - 1].end <= announced[tf][n].start
                    /\ announced[tf] # <<>> =>
                           announced[tf][Len(announced[tf])].end <= series[tf].current.start
  BY DEF AnnouncedInOrder
<1>1. PICK h, a, c : h = heard[tf] /\ a = announced[tf] /\ c = series[tf].current
  OBVIOUS
<1>2. BarsOK(tf, h, a, c)
  BY <1>1 DEF EngineInv, Current, Timeframes, Engine!Timeframes
<1>3. CASE a = <<>>
  <2>1. Len(a) = 0
    BY <1>3
  <2> QED BY <1>1, <1>3, <2>1
<1>4. CASE a # <<>>
  <2>1. AnnouncedOK(tf, h, a, c)
    BY <1>2, <1>4 DEF BarsOK
  <2>2. Len(a) \in 1..Len(a)
    BY <1>4, <2>1 DEF AnnouncedOK
  <2>3. a[Len(a)].end <= c.start
    BY <2>1, <2>2 DEF AnnouncedOK
  <2> QED BY <1>1, <2>1, <2>3 DEF AnnouncedOK
<1> QED BY <1>3, <1>4

LEMMA TheirTicks ==
    ASSUME Engine!EngineAssumption, EngineInv
    PROVE  BarsAreTheirTicks
<1> SUFFICES ASSUME NEW tf \in Timeframes, NEW n \in DOMAIN announced[tf]
             PROVE  LET bar == announced[tf][n]
                        start(k) == StartOf(tf, heard[tf][k].at)
                        mine == {k \in DOMAIN heard[tf] :
                                    start(k) = bar.start /\ \A j \in 1..k : start(j) <= start(k)}
                        prices == {heard[tf][k].price : k \in mine}
                    IN  /\ mine # {}
                        /\ bar.open = heard[tf][Min(mine)].price
                        /\ bar.close = heard[tf][Max(mine)].price
                        /\ bar.high = Max(prices) /\ bar.low = Min(prices)
  BY DEF BarsAreTheirTicks
<1> DEFINE bar == announced[tf][n]
           start(k) == StartOf(tf, heard[tf][k].at)
           mine == {k \in DOMAIN heard[tf] :
                       start(k) = bar.start /\ \A j \in 1..k : start(j) <= start(k)}
           prices == {heard[tf][k].price : k \in mine}
<1>1. PICK h, a, c : h = heard[tf] /\ a = announced[tf] /\ c = series[tf].current
  OBVIOUS
<1>2. BarsOK(tf, h, a, c)
  BY <1>1 DEF EngineInv, Current, Timeframes, Engine!Timeframes
<1>3. h \in Seq(Heard) /\ AnnouncedOK(tf, h, a, c)
  BY <1>1, <1>2 DEF BarsOK
<1>4. MadeOf(tf, h, bar)
  <2>1. n \in 1..Len(a)
    BY <1>1, <1>3 DEF AnnouncedOK
  <2>2. BarOK(tf, h, a[n])
    BY <1>3, <2>1 DEF AnnouncedOK
  <2> QED BY <1>1, <2>2 DEF BarOK
<1>5. mine = TicksOf(tf, h, bar.start)
  BY <1>1 DEF TicksOf, StartOf, Engine!StartOf
<1>6. prices = {h[k].price : k \in mine}
  BY <1>1
<1>7. tf \in Nat \ {0} /\ Prices \subseteq Int
  BY EngineConstants DEF Timeframes, Engine!Timeframes
<1> HIDE DEF bar, mine, prices
<1>8. /\ mine # {}
      /\ bar.open = h[Min(mine)].price
      /\ bar.close = h[Max(mine)].price
      /\ bar.high = Max(prices) /\ bar.low = Min(prices)
  <2>1. SummedUpBy(h, mine, bar)
    BY <1>3, <1>4, <1>5, <1>7, MadeSays
  <2>2. /\ mine # {}
        /\ bar.open = h[Min(mine)].price
        /\ bar.close = h[Max(mine)].price
        /\ bar.high = Max({h[k].price : k \in mine})
        /\ bar.low = Min({h[k].price : k \in mine})
    BY <2>1 DEF SummedUpBy
  <2> QED BY <1>6, <2>2
<1>9. /\ mine # {}
      /\ bar.open = heard[tf][Min(mine)].price
      /\ bar.close = heard[tf][Max(mine)].price
      /\ bar.high = Max(prices) /\ bar.low = Min(prices)
  BY <1>1, <1>8
<1> QED BY <1>9 DEF bar, mine, prices

(* Bars are announced once, in order and without overlap, and the one that *)
(* is forming is later than all of them, whatever ticks come late and      *)
(* whichever reloads stop and resume a timeframe (update_series).          *)
THEOREM AnnouncedAlwaysInOrder ==
    ASSUME Engine!EngineAssumption
    PROVE  Engine!Spec => []AnnouncedInOrder
<1>1. EngineInv => AnnouncedInOrder
  BY InOrder
<1> QED BY <1>1, EngineInvariant, PTL

(* A bar that on_tick closes has the open, high, low and close of the ticks *)
(* of its bucket, without those that came after a later one had begun.     *)
THEOREM BarsAlwaysTheirTicks ==
    ASSUME Engine!EngineAssumption
    PROVE  Engine!Spec => []BarsAreTheirTicks
<1>1. EngineInv => BarsAreTheirTicks
  BY TheirTicks
<1> QED BY <1>1, EngineInvariant, PTL

-----------------------------------------------------------------------------
(* The newest closed bar.  A warmup replays a list of bars into a series,  *)
(* an EMA and a state, each a fold, which is a function defined by         *)
(* recursion over the subsets of its domain: that such a function exists,  *)
(* and what it is, is shown by counting.                                   *)

(* A set with 0 and every successor has every number.                      *)
LEMMA CountingUp ==
    ASSUME NEW G \in SUBSET Nat, 0 \in G, \A n \in G : n + 1 \in G
    PROVE  G = Nat
<1> SUFFICES ASSUME NEW m \in Nat, m \notin G PROVE FALSE
  OBVIOUS
<1> DEFINE T == {n \in 0..m : n \notin G}
<1>1. T \in SUBSET Int /\ IsFiniteSet(T) /\ T # {}
  <2>1. IsFiniteSet(0..m) /\ T \in SUBSET (0..m) /\ m \in T
    BY FS_Interval
  <2> HIDE DEF T
  <2>2. IsFiniteSet(T)
    BY <2>1, FS_Subset
  <2> QED BY <2>1, <2>2
<1> HIDE DEF T
<1>2. PICK n \in T : \A y \in T : n <= y
  BY <1>1, HasMin
<1> USE DEF T
<1>3. n \in 0..m /\ n \notin G /\ n # 0
  BY <1>2
<1>4. n - 1 \in G
  BY <1>2, <1>3
<1>5. (n - 1) + 1 = n
  BY <1>3
<1> QED BY <1>3, <1>4, <1>5

(* A function on the subsets of S that is defined by taking elements out   *)
(* one by one.                                                             *)
Picks(ch, S) == \A s \in SUBSET S : s # {} => ch[s] \in s

FoldsUp(f, base, ch, G, S, V) ==
    /\ f \in [SUBSET S -> V]
    /\ \A s \in SUBSET S :
          f[s] = IF s = {} THEN base ELSE G[<<s, f[s \ {ch[s]}]>>]

(* A function defined by recursion over the subsets of a set exists.       *)
LEMMA FoldExists ==
    ASSUME NEW S, IsFiniteSet(S), NEW V, NEW base \in V, NEW ch, Picks(ch, S),
           NEW G, G \in [(SUBSET S) \X V -> V]
    PROVE  \E f : FoldsUp(f, base, ch, G, S, V)
<1> DEFINE Folds(f, s) == f[s] = IF s = {} THEN base ELSE G[<<s, f[s \ {ch[s]}]>>]
           upto == {n \in Nat : \E f \in [SUBSET S -> V] :
                       \A s \in SUBSET S : Cardinality(s) <= n => Folds(f, s)}
<1>1. \A s \in SUBSET S : IsFiniteSet(s) /\ Cardinality(s) \in Nat
                         /\ Cardinality(s) <= Cardinality(S) /\ (Cardinality(s) = 0 => s = {})
  BY FS_Subset, FS_CardinalityType, FS_EmptySet
<1>2. \A s \in SUBSET S : s # {} => s \ {ch[s]} \in SUBSET S
                                    /\ Cardinality(s \ {ch[s]}) = Cardinality(s) - 1
  BY <1>1, FS_RemoveElement DEF Picks
<1>3. 0 \in upto
  <2> DEFINE f == [s \in SUBSET S |-> base]
  <2>1. \A s \in SUBSET S : Cardinality(s) <= 0 => Folds(f, s)
    <3> SUFFICES ASSUME NEW s \in SUBSET S, Cardinality(s) <= 0 PROVE Folds(f, s)
      OBVIOUS
    <3>1. s = {}
      BY <1>1
    <3> QED BY <3>1
  <2>2. f \in [SUBSET S -> V]
    OBVIOUS
  <2> HIDE DEF f, Folds
  <2> QED BY <2>1, <2>2
<1>4. ASSUME NEW n \in upto PROVE n + 1 \in upto
  <2>1. PICK f \in [SUBSET S -> V] : \A s \in SUBSET S : Cardinality(s) <= n => Folds(f, s)
    OBVIOUS
  <2> DEFINE g == [s \in SUBSET S |-> IF s = {} THEN base ELSE G[<<s, f[s \ {ch[s]}]>>]]
  <2>2. g \in [SUBSET S -> V]
    <3>1. \A s \in SUBSET S : s # {} => f[s \ {ch[s]}] \in V
      BY <1>2
    <3> QED BY <3>1
  <2>3. \A s \in SUBSET S : Cardinality(s) <= n + 1 => Folds(g, s)
    <3> SUFFICES ASSUME NEW s \in SUBSET S, Cardinality(s) <= n + 1, s # {}
                 PROVE  g[s] = G[<<s, g[s \ {ch[s]}]>>]
      <4>1. g[{}] = base
        OBVIOUS
      <4> QED BY <4>1
    <3> DEFINE r == s \ {ch[s]}
    <3>1. r \in SUBSET S /\ Cardinality(r) <= n
      BY <1>1, <1>2
    <3>2. Folds(f, r)
      BY <2>1, <3>1
    <3>3. g[r] = f[r]
      <4>1. g[r] = IF r = {} THEN base ELSE G[<<r, f[r \ {ch[r]}]>>]
        BY <3>1
      <4> HIDE DEF g, r
      <4> QED BY <3>2, <4>1
    <3>4. g[s] = G[<<s, f[r]>>]
      OBVIOUS
    <3> HIDE DEF g
    <3> QED BY <3>3, <3>4
  <2> HIDE DEF g, Folds
  <2> QED BY <2>2, <2>3
<1>5. upto = Nat
  <2> HIDE DEF Folds
  <2>1. upto \in SUBSET Nat
    OBVIOUS
  <2> HIDE DEF upto
  <2> QED BY <1>3, <1>4, <2>1, CountingUp
<1>6. Cardinality(S) \in upto
  BY <1>1, <1>5
<1> QED BY <1>1, <1>6 DEF FoldsUp

LEMMA LastIs ==
    ASSUME NEW n \in Nat, NEW s \in SUBSET (1..n), s # {}
    PROVE  Engine!Max(s) \in s /\ \A y \in s : Engine!Max(s) >= y
<1>1. s \in SUBSET Int /\ IsFiniteSet(s)
  <2>1. IsFiniteSet(1..n)
    BY FS_Interval
  <2>2. IsFiniteSet(s)
    BY <2>1, FS_Subset
  <2> QED BY <2>2
<1>2. Max(s) \in s /\ \A y \in s : Max(s) >= y
  BY <1>1, HasMax
<1> QED BY <1>2 DEF Max, Engine!Max

LEMMA LastOfFirst ==
    ASSUME NEW k \in Nat \ {0}
    PROVE  Engine!Max(1..k) = k /\ (1..k) \ {k} = 1..(k - 1)
<1>1. 1..k # {} /\ k \in 1..k
  OBVIOUS
<1>2. Engine!Max(1..k) \in 1..k /\ \A y \in 1..k : Engine!Max(1..k) >= y
  BY <1>1, LastIs
<1>3. Engine!Max(1..k) = k
  <2>1. PICK m : m = Engine!Max(1..k)
    OBVIOUS
  <2>2. m \in 1..k /\ m >= k
    BY <1>1, <1>2, <2>1
  <2> QED BY <2>1, <2>2
<1>4. (1..k) \ {k} = 1..(k - 1)
  OBVIOUS
<1> QED BY <1>3, <1>4

(* What a fold has after k elements is in Ok[k], if a step leads from one  *)
(* to the next.                                                            *)
LEMMA FoldReaches ==
    ASSUME NEW n \in Nat, NEW it, NEW Ok, it[{}] \in Ok[0],
           \A k \in 1..n : it[1..(k - 1)] \in Ok[k - 1] => it[1..k] \in Ok[k]
    PROVE  it[1..n] \in Ok[n]
<1> DEFINE upto == {k \in Nat : k <= n => it[1..k] \in Ok[k]}
<1>1. 0 \in upto
  <2>1. 1..0 = {}
    OBVIOUS
  <2> QED BY <2>1
<1>2. ASSUME NEW k \in upto PROVE k + 1 \in upto
  <2> SUFFICES ASSUME k + 1 <= n PROVE it[1..(k + 1)] \in Ok[k + 1]
    OBVIOUS
  <2>1. PICK m : m = k + 1
    OBVIOUS
  <2>2. m \in 1..n /\ m - 1 = k /\ it[1..k] \in Ok[k]
    BY <2>1
  <2> QED BY <2>1, <2>2
<1>3. upto = Nat
  <2>1. upto \in SUBSET Nat
    OBVIOUS
  <2> HIDE DEF upto
  <2> QED BY <1>1, <1>2, <2>1, CountingUp
<1>4. n \in upto
  <2> HIDE DEF upto
  <2> QED BY <1>3
<1> QED BY <1>4

(* A fold over a list of n elements, whose step with the k-th is G.        *)
FoldsList(f, base, G, n, V) ==
    /\ f \in [SUBSET (1..n) -> V] /\ f[{}] = base
    /\ \A s \in SUBSET (1..n) : s # {} =>
          /\ Engine!Max(s) \in 1..n /\ f[s \ {Engine!Max(s)}] \in V
          /\ f[s] = G[<<Engine!Max(s), f[s \ {Engine!Max(s)}]>>]

LEMMA FoldIs ==
    ASSUME NEW n \in Nat, NEW V, NEW base \in V, NEW G \in [(1..n) \X V -> V]
    PROVE  \E f : FoldsList(f, base, G, n, V)
<1> DEFINE S == 1..n
           ch == [s \in SUBSET S |-> Engine!Max(s)]
           H == [sv \in (SUBSET S) \X V |->
                    IF sv[1] = {} THEN base ELSE G[<<ch[sv[1]], sv[2]>>]]
<1>1. \A s \in SUBSET S : s # {} => ch[s] \in s /\ ch[s] = Engine!Max(s)
  BY LastIs
<1>2. Picks(ch, S) /\ IsFiniteSet(S)
  <2>1. IsFiniteSet(S)
    BY FS_Interval
  <2> QED BY <1>1, <2>1 DEF Picks
<1> HIDE DEF ch
<1>3. H \in [(SUBSET S) \X V -> V]
  <2>1. \A sv \in (SUBSET S) \X V : sv[1] # {} => ch[sv[1]] \in 1..n
    BY <1>1
  <2> QED BY <2>1
<1>4. \A s \in SUBSET S, x \in V : s # {} => H[<<s, x>>] = G[<<ch[s], x>>]
  OBVIOUS
<1> HIDE DEF H
<1>5. PICK f : FoldsUp(f, base, ch, H, S, V)
  BY <1>2, <1>3, FoldExists
<1>6. f \in [SUBSET S -> V]
  BY <1>5 DEF FoldsUp
<1>7. ASSUME NEW s \in SUBSET S, s # {}
      PROVE  /\ Engine!Max(s) \in 1..n /\ f[s \ {Engine!Max(s)}] \in V
             /\ f[s] = G[<<Engine!Max(s), f[s \ {Engine!Max(s)}]>>]
  <2>1. PICK m : m = Engine!Max(s)
    OBVIOUS
  <2>2. m \in s /\ ch[s] = m
    BY <1>1, <1>7, <2>1
  <2>3. f[s] = H[<<s, f[s \ {m}]>>]
    BY <1>5, <1>7, <2>2 DEF FoldsUp
  <2>4. f[s \ {m}] \in V /\ m \in 1..n
    BY <1>6, <2>2
  <2>5. f[s] = G[<<m, f[s \ {m}]>>]
    BY <1>4, <1>7, <2>2, <2>3, <2>4
  <2> QED BY <2>1, <2>4, <2>5
<1>8. f[{}] = base
  BY <1>5 DEF FoldsUp
<1> QED BY <1>6, <1>7, <1>8 DEF FoldsList

(* The folds of the engine.                                                *)
EmaAfter(ssu, base, list) ==
    Engine!FoldLeft(LAMBDA ind, end : Engine!Applied(ssu, ind, end), base, list)
BarsOf(tf, base, list) ==
    Engine!FoldLeft(LAMBDA ends, end : Engine!WithBar(tf, ends, end), base, list)
Earlier(e, ends, end) == IF end < e THEN Engine!Processed(ends, end) ELSE ends
ReplayOf(e, base, list) ==
    Engine!FoldLeft(LAMBDA ends, end : IF end < e THEN Engine!Processed(ends, end) ELSE ends,
                    base, list)

LEMMA MergedAll ==
    ASSUME NEW n \in Nat, NEW v, DOMAIN v = 1..n, NEW V, NEW base \in V, NEW Ok,
           \A k \in 1..n : \A c \in V : Engine!Merged(c, v[k]) \in V, base \in Ok[0],
           \A k \in 1..n : \A c \in Ok[k - 1] : Engine!Merged(c, v[k]) \in Ok[k]
    PROVE  Engine!FoldLeft(Engine!Merged, base, v) \in Ok[n]
<1> DEFINE Of(it) == [s \in SUBSET (1..n) |-> IF s = {} THEN base
                          ELSE Engine!Merged(it[s \ {Engine!Max(s)}], v[Engine!Max(s)])]
           iter == CHOOSE it : it = Of(it)
<1>1. Engine!FoldLeft(Engine!Merged, base, v) = iter[1..n]
  BY DEF Engine!FoldLeft, Engine!MapThenFoldSet
<1>2. \E it : it = Of(it)
  <2> DEFINE G == [kc \in (1..n) \X V |-> Engine!Merged(kc[2], v[kc[1]])]
  <2>1. /\ G \in [(1..n) \X V -> V]
        /\ \A k \in 1..n, c \in V : G[<<k, c>>] = Engine!Merged(c, v[k])
    OBVIOUS
  <2> HIDE DEF G
  <2>2. PICK f : FoldsList(f, base, G, n, V)
    BY <2>1, FoldIs
  <2>3. \A s \in SUBSET (1..n) : s # {} =>
          f[s] = Engine!Merged(f[s \ {Engine!Max(s)}], v[Engine!Max(s)])
    BY <2>1, <2>2 DEF FoldsList
  <2>4. f = Of(f)
    BY <2>2, <2>3 DEF FoldsList
  <2> HIDE DEF Of
  <2> QED BY <2>4
<1>3. iter = Of(iter)
  <2> HIDE DEF Of
  <2> QED BY <1>2
<1>4. \A s \in SUBSET (1..n) : iter[s] = IF s = {} THEN base
          ELSE Engine!Merged(iter[s \ {Engine!Max(s)}], v[Engine!Max(s)])
  <2> HIDE DEF iter
  <2> QED BY <1>3
<1> HIDE DEF iter, Of
<1>5. iter[{}] = base
  BY <1>4
<1>6. ASSUME NEW k \in 1..n, iter[1..(k - 1)] \in Ok[k - 1] PROVE iter[1..k] \in Ok[k]
  <2>1. 1..k \in SUBSET (1..n) /\ k \in 1..k /\ k \in Nat \ {0}
    OBVIOUS
  <2>2. iter[1..k] = Engine!Merged(iter[1..(k - 1)], v[k])
    BY <1>4, <2>1, LastOfFirst
  <2> QED BY <1>6, <2>2
<1>7. iter[1..n] \in Ok[n]
  BY <1>5, <1>6, FoldReaches
<1> QED BY <1>1, <1>7

LEMMA AppliedAll ==
    ASSUME NEW n \in Nat, NEW v, DOMAIN v = 1..n, NEW V, NEW base \in V, NEW Ok, NEW ssu,
           \A k \in 1..n : \A c \in V : Engine!Applied(ssu, c, v[k]) \in V, base \in Ok[0],
           \A k \in 1..n : \A c \in Ok[k - 1] : Engine!Applied(ssu, c, v[k]) \in Ok[k]
    PROVE  EmaAfter(ssu, base, v) \in Ok[n]
<1> DEFINE Of(it) == [s \in SUBSET (1..n) |-> IF s = {} THEN base
                          ELSE Engine!Applied(ssu, it[s \ {Engine!Max(s)}], v[Engine!Max(s)])]
           iter == CHOOSE it : it = Of(it)
<1>1. EmaAfter(ssu, base, v) = iter[1..n]
  BY DEF EmaAfter, Engine!FoldLeft, Engine!MapThenFoldSet
<1>2. \E it : it = Of(it)
  <2> DEFINE G == [kc \in (1..n) \X V |-> Engine!Applied(ssu, kc[2], v[kc[1]])]
  <2>1. /\ G \in [(1..n) \X V -> V]
        /\ \A k \in 1..n, c \in V : G[<<k, c>>] = Engine!Applied(ssu, c, v[k])
    OBVIOUS
  <2> HIDE DEF G
  <2>2. PICK f : FoldsList(f, base, G, n, V)
    BY <2>1, FoldIs
  <2>3. \A s \in SUBSET (1..n) : s # {} =>
          f[s] = Engine!Applied(ssu, f[s \ {Engine!Max(s)}], v[Engine!Max(s)])
    BY <2>1, <2>2 DEF FoldsList
  <2>4. f = Of(f)
    BY <2>2, <2>3 DEF FoldsList
  <2> HIDE DEF Of
  <2> QED BY <2>4
<1>3. iter = Of(iter)
  <2> HIDE DEF Of
  <2> QED BY <1>2
<1>4. \A s \in SUBSET (1..n) : iter[s] = IF s = {} THEN base
          ELSE Engine!Applied(ssu, iter[s \ {Engine!Max(s)}], v[Engine!Max(s)])
  <2> HIDE DEF iter
  <2> QED BY <1>3
<1> HIDE DEF iter, Of
<1>5. iter[{}] = base
  BY <1>4
<1>6. ASSUME NEW k \in 1..n, iter[1..(k - 1)] \in Ok[k - 1] PROVE iter[1..k] \in Ok[k]
  <2>1. 1..k \in SUBSET (1..n) /\ k \in 1..k /\ k \in Nat \ {0}
    OBVIOUS
  <2>2. iter[1..k] = Engine!Applied(ssu, iter[1..(k - 1)], v[k])
    BY <1>4, <2>1, LastOfFirst
  <2> QED BY <1>6, <2>2
<1>7. iter[1..n] \in Ok[n]
  BY <1>5, <1>6, FoldReaches
<1> QED BY <1>1, <1>7

LEMMA ProcessedAll ==
    ASSUME NEW n \in Nat, NEW v, DOMAIN v = 1..n, NEW V, NEW base \in V, NEW Ok,
           \A k \in 1..n : \A c \in V : Engine!Processed(c, v[k]) \in V, base \in Ok[0],
           \A k \in 1..n : \A c \in Ok[k - 1] : Engine!Processed(c, v[k]) \in Ok[k]
    PROVE  Engine!FoldLeft(Engine!Processed, base, v) \in Ok[n]
<1> DEFINE Of(it) == [s \in SUBSET (1..n) |-> IF s = {} THEN base
                          ELSE Engine!Processed(it[s \ {Engine!Max(s)}], v[Engine!Max(s)])]
           iter == CHOOSE it : it = Of(it)
<1>1. Engine!FoldLeft(Engine!Processed, base, v) = iter[1..n]
  BY DEF Engine!FoldLeft, Engine!MapThenFoldSet
<1>2. \E it : it = Of(it)
  <2> DEFINE G == [kc \in (1..n) \X V |-> Engine!Processed(kc[2], v[kc[1]])]
  <2>1. /\ G \in [(1..n) \X V -> V]
        /\ \A k \in 1..n, c \in V : G[<<k, c>>] = Engine!Processed(c, v[k])
    OBVIOUS
  <2> HIDE DEF G
  <2>2. PICK f : FoldsList(f, base, G, n, V)
    BY <2>1, FoldIs
  <2>3. \A s \in SUBSET (1..n) : s # {} =>
          f[s] = Engine!Processed(f[s \ {Engine!Max(s)}], v[Engine!Max(s)])
    BY <2>1, <2>2 DEF FoldsList
  <2>4. f = Of(f)
    BY <2>2, <2>3 DEF FoldsList
  <2> HIDE DEF Of
  <2> QED BY <2>4
<1>3. iter = Of(iter)
  <2> HIDE DEF Of
  <2> QED BY <1>2
<1>4. \A s \in SUBSET (1..n) : iter[s] = IF s = {} THEN base
          ELSE Engine!Processed(iter[s \ {Engine!Max(s)}], v[Engine!Max(s)])
  <2> HIDE DEF iter
  <2> QED BY <1>3
<1> HIDE DEF iter, Of
<1>5. iter[{}] = base
  BY <1>4
<1>6. ASSUME NEW k \in 1..n, iter[1..(k - 1)] \in Ok[k - 1] PROVE iter[1..k] \in Ok[k]
  <2>1. 1..k \in SUBSET (1..n) /\ k \in 1..k /\ k \in Nat \ {0}
    OBVIOUS
  <2>2. iter[1..k] = Engine!Processed(iter[1..(k - 1)], v[k])
    BY <1>4, <2>1, LastOfFirst
  <2> QED BY <1>6, <2>2
<1>7. iter[1..n] \in Ok[n]
  BY <1>5, <1>6, FoldReaches
<1> QED BY <1>1, <1>7

LEMMA WithBarAll ==
    ASSUME NEW n \in Nat, NEW v, DOMAIN v = 1..n, NEW V, NEW base \in V, NEW Ok, NEW tf,
           \A k \in 1..n : \A c \in V : Engine!WithBar(tf, c, v[k]) \in V, base \in Ok[0],
           \A k \in 1..n : \A c \in Ok[k - 1] : Engine!WithBar(tf, c, v[k]) \in Ok[k]
    PROVE  BarsOf(tf, base, v) \in Ok[n]
<1> DEFINE Of(it) == [s \in SUBSET (1..n) |-> IF s = {} THEN base
                          ELSE Engine!WithBar(tf, it[s \ {Engine!Max(s)}], v[Engine!Max(s)])]
           iter == CHOOSE it : it = Of(it)
<1>1. BarsOf(tf, base, v) = iter[1..n]
  BY DEF BarsOf, Engine!FoldLeft, Engine!MapThenFoldSet
<1>2. \E it : it = Of(it)
  <2> DEFINE G == [kc \in (1..n) \X V |-> Engine!WithBar(tf, kc[2], v[kc[1]])]
  <2>1. /\ G \in [(1..n) \X V -> V]
        /\ \A k \in 1..n, c \in V : G[<<k, c>>] = Engine!WithBar(tf, c, v[k])
    OBVIOUS
  <2> HIDE DEF G
  <2>2. PICK f : FoldsList(f, base, G, n, V)
    BY <2>1, FoldIs
  <2>3. \A s \in SUBSET (1..n) : s # {} =>
          f[s] = Engine!WithBar(tf, f[s \ {Engine!Max(s)}], v[Engine!Max(s)])
    BY <2>1, <2>2 DEF FoldsList
  <2>4. f = Of(f)
    BY <2>2, <2>3 DEF FoldsList
  <2> HIDE DEF Of
  <2> QED BY <2>4
<1>3. iter = Of(iter)
  <2> HIDE DEF Of
  <2> QED BY <1>2
<1>4. \A s \in SUBSET (1..n) : iter[s] = IF s = {} THEN base
          ELSE Engine!WithBar(tf, iter[s \ {Engine!Max(s)}], v[Engine!Max(s)])
  <2> HIDE DEF iter
  <2> QED BY <1>3
<1> HIDE DEF iter, Of
<1>5. iter[{}] = base
  BY <1>4
<1>6. ASSUME NEW k \in 1..n, iter[1..(k - 1)] \in Ok[k - 1] PROVE iter[1..k] \in Ok[k]
  <2>1. 1..k \in SUBSET (1..n) /\ k \in 1..k /\ k \in Nat \ {0}
    OBVIOUS
  <2>2. iter[1..k] = Engine!WithBar(tf, iter[1..(k - 1)], v[k])
    BY <1>4, <2>1, LastOfFirst
  <2> QED BY <1>6, <2>2
<1>7. iter[1..n] \in Ok[n]
  BY <1>5, <1>6, FoldReaches
<1> QED BY <1>1, <1>7

LEMMA ReplayedAll ==
    ASSUME NEW n \in Nat, NEW v, DOMAIN v = 1..n, NEW V, NEW base \in V, NEW Ok, NEW e,
           \A k \in 1..n : \A c \in V : Earlier(e, c, v[k]) \in V, base \in Ok[0],
           \A k \in 1..n : \A c \in Ok[k - 1] : Earlier(e, c, v[k]) \in Ok[k]
    PROVE  ReplayOf(e, base, v) \in Ok[n]
<1> DEFINE Of(it) == [s \in SUBSET (1..n) |-> IF s = {} THEN base
                          ELSE Earlier(e, it[s \ {Engine!Max(s)}], v[Engine!Max(s)])]
           iter == CHOOSE it : it = Of(it)
<1>1. ReplayOf(e, base, v) = iter[1..n]
  BY DEF ReplayOf, Earlier, Engine!FoldLeft, Engine!MapThenFoldSet
<1>2. \E it : it = Of(it)
  <2> DEFINE G == [kc \in (1..n) \X V |-> Earlier(e, kc[2], v[kc[1]])]
  <2>1. /\ G \in [(1..n) \X V -> V]
        /\ \A k \in 1..n, c \in V : G[<<k, c>>] = Earlier(e, c, v[k])
    OBVIOUS
  <2> HIDE DEF G
  <2>2. PICK f : FoldsList(f, base, G, n, V)
    BY <2>1, FoldIs
  <2>3. \A s \in SUBSET (1..n) : s # {} =>
          f[s] = Earlier(e, f[s \ {Engine!Max(s)}], v[Engine!Max(s)])
    BY <2>1, <2>2 DEF FoldsList
  <2>4. f = Of(f)
    BY <2>2, <2>3 DEF FoldsList
  <2> HIDE DEF Of
  <2> QED BY <2>4
<1>3. iter = Of(iter)
  <2> HIDE DEF Of
  <2> QED BY <1>2
<1>4. \A s \in SUBSET (1..n) : iter[s] = IF s = {} THEN base
          ELSE Earlier(e, iter[s \ {Engine!Max(s)}], v[Engine!Max(s)])
  <2> HIDE DEF iter
  <2> QED BY <1>3
<1> HIDE DEF iter, Of
<1>5. iter[{}] = base
  BY <1>4
<1>6. ASSUME NEW k \in 1..n, iter[1..(k - 1)] \in Ok[k - 1] PROVE iter[1..k] \in Ok[k]
  <2>1. 1..k \in SUBSET (1..n) /\ k \in 1..k /\ k \in Nat \ {0}
    OBVIOUS
  <2>2. iter[1..k] = Earlier(e, iter[1..(k - 1)], v[k])
    BY <1>4, <2>1, LastOfFirst
  <2> QED BY <1>6, <2>2
<1>7. iter[1..n] \in Ok[n]
  BY <1>5, <1>6, FoldReaches
<1> QED BY <1>1, <1>7

-----------------------------------------------------------------------------
(* Lists of ends of bars: what is in them, the newest, and how far it is   *)
(* from the end of the list.                                               *)
HasEnd(c, e) == \E i \in 1..Len(c) : c[i] = e
UpTo(c, e) == \A i \in 1..Len(c) : c[i] <= e
Newest(c, e) == HasEnd(c, e) /\ UpTo(c, e)
Near(c, e, d) == \E i \in 1..Len(c) : c[i] = e /\ Len(c) - i <= d

LEMMA EndAppended ==
    ASSUME NEW c \in Seq(Int), NEW x \in Int
    PROVE  /\ Append(c, x) \in Seq(Int) /\ Len(c) \in Nat /\ Len(Append(c, x)) = Len(c) + 1
           /\ Append(c, x)[Len(c) + 1] = x /\ \A i \in 1..Len(c) : Append(c, x)[i] = c[i]
BY AppendProperties, LenProperties

LEMMA RecentIs ==
    ASSUME NEW c \in Seq(Int), NEW n \in Nat \ {0}
    PROVE  /\ Engine!Recent(c, n) \in Seq(Int)
           /\ Len(Engine!Recent(c, n)) = IF Len(c) > n THEN n ELSE Len(c)
           /\ \A i \in 1..Len(Engine!Recent(c, n)) :
                 Engine!Recent(c, n)[i] = c[Len(c) - Len(Engine!Recent(c, n)) + i]
<1> DEFINE m == IF Len(c) > n THEN Len(c) - n + 1 ELSE 1
           r == SubSeq(c, m, Len(c))
<1>1. Len(c) \in Nat /\ m \in 1..(Len(c) + 1) /\ m \in Int
  OBVIOUS
<1>2. Engine!Recent(c, n) = r
  BY DEF Engine!Recent
<1>3. r \in Seq(Int) /\ Len(r) = Len(c) - m + 1 /\ \A i \in 1..Len(r) : r[i] = c[m + i - 1]
  <2>1. Len(c) \in Int /\ m \in Int
    BY <1>1
  <2> HIDE DEF m
  <2>2. r \in Seq(Int)
    BY <1>1, SubSeqProperties
  <2> QED BY <1>1, <2>2, SubSeqProperties
<1>4. Len(r) = IF Len(c) > n THEN n ELSE Len(c)
  <2> HIDE DEF r
  <2> QED BY <1>1, <1>3
<1>5. ASSUME NEW i \in 1..Len(r) PROVE r[i] = c[Len(c) - Len(r) + i]
  <2>1. m + i - 1 = Len(c) - Len(r) + i
    <3> HIDE DEF r, m
    <3>1. Len(r) \in Nat
      BY <1>3
    <3> QED BY <1>1, <1>3, <3>1
  <2> QED BY <1>3, <2>1
<1> QED BY <1>2, <1>3, <1>4, <1>5

LEMMA RecentKeeps ==
    ASSUME NEW c \in Seq(Int), NEW n \in Nat \ {0}, NEW e \in Int
    PROVE  /\ Engine!Recent(c, n) \in Seq(Int)
           /\ UpTo(c, e) => UpTo(Engine!Recent(c, n), e)
           /\ \A d \in Nat : Near(c, e, d) /\ d < n => Near(Engine!Recent(c, n), e, d)
           /\ c # <<>> => Engine!Recent(c, n) # <<>>
           /\ Engine!Recent(<<>>, n) = <<>>
<1> DEFINE r == Engine!Recent(c, n)
<1>1. /\ r \in Seq(Int) /\ Len(r) = IF Len(c) > n THEN n ELSE Len(c)
      /\ \A i \in 1..Len(r) : r[i] = c[Len(c) - Len(r) + i]
  BY RecentIs
<1>2. Len(c) \in Nat /\ Len(r) \in Nat /\ Len(r) <= Len(c)
  BY <1>1
<1>3. Engine!Recent(<<>>, n) = <<>>
  <2>1. PICK z : z = <<>>
    OBVIOUS
  <2>2. z \in Seq(Int) /\ Len(z) = 0 /\ ~(Len(z) > n)
    BY <2>1
  <2> HIDE DEF r
  <2>3. Engine!Recent(z, n) \in Seq(Int) /\ Len(Engine!Recent(z, n)) = 0
    BY <2>2, RecentIs
  <2> QED BY <2>1, <2>3, EmptySeq
<1> HIDE DEF r
<1>4. ASSUME UpTo(c, e) PROVE UpTo(r, e)
  <2> SUFFICES ASSUME NEW i \in 1..Len(r) PROVE r[i] <= e
    BY DEF UpTo
  <2>1. Len(c) - Len(r) + i \in 1..Len(c)
    BY <1>2
  <2> QED BY <1>1, <1>4, <2>1 DEF UpTo
<1>5. ASSUME NEW d \in Nat, Near(c, e, d), d < n PROVE Near(r, e, d)
  <2>1. PICK i \in 1..Len(c) : c[i] = e /\ Len(c) - i <= d
    BY <1>5 DEF Near
  <2>2. PICK lc, lr, k : lc = Len(c) /\ lr = Len(r) /\ k = i - (lc - lr)
    OBVIOUS
  <2>3. lc \in Nat /\ lr \in Nat /\ lr <= lc /\ (lr = lc \/ lr = n)
    BY <1>1, <1>2, <2>2
  <2>4. i \in 1..lc /\ lc - i <= d
    BY <2>1, <2>2
  <2>5. k \in 1..lr /\ lc - lr + k = i /\ lr - k <= d
    BY <1>5, <2>2, <2>3, <2>4
  <2>6. r[k] = e
    BY <1>1, <2>1, <2>2, <2>5
  <2> QED BY <2>2, <2>5, <2>6 DEF Near
<1>6. ASSUME c # <<>> PROVE r # <<>>
  <2>1. Len(c) > 0
    BY <1>2, <1>6, EmptySeq
  <2>2. Len(r) > 0
    BY <1>1, <1>2, <2>1
  <2> QED BY <2>2, EmptySeq
<1> QED BY <1>1, <1>3, <1>4, <1>5, <1>6 DEF r

(* What merge_closed_bar does to the newest of a list.                     *)
LEMMA MergedKeeps ==
    ASSUME NEW c \in Seq(Int), NEW x \in Int, MaxRecent \in Nat \ {0, 1}
    PROVE  /\ Engine!Merged(c, x) \in Seq(Int) /\ Near(Engine!Merged(c, x), x, 0)
           /\ \A e \in Int : UpTo(c, e) /\ x <= e => UpTo(Engine!Merged(c, x), e)
           /\ \A e \in Int, d \in Nat : Near(c, e, d) /\ d + 1 < MaxRecent =>
                 Near(Engine!Merged(c, x), e, d + 1)
<1> DEFINE a == Append(c, x)
<1>1. /\ a \in Seq(Int) /\ Len(c) \in Nat /\ Len(a) = Len(c) + 1
      /\ a[Len(c) + 1] = x /\ \A i \in 1..Len(c) : a[i] = c[i]
  BY EndAppended
<1>2. CASE c # <<>> /\ Engine!Last(c) = x
  <2>1. Engine!Merged(c, x) = c /\ c[Len(c)] = x /\ Len(c) \in 1..Len(c)
    BY <1>1, <1>2, EmptySeq DEF Engine!Merged, Engine!Last
  <2>2. Near(c, x, 0)
    BY <1>1, <2>1 DEF Near
  <2>3. \A e \in Int, d \in Nat : Near(c, e, d) => Near(c, e, d + 1)
    BY <1>1 DEF Near
  <2> QED BY <2>1, <2>2, <2>3
<1>3. CASE ~(c # <<>> /\ Engine!Last(c) = x)
  <2>1. Engine!Merged(c, x) = Engine!Recent(a, MaxRecent)
    BY <1>3 DEF Engine!Merged
  <2> HIDE DEF a
  <2>2. Near(a, x, 0)
    <3>1. Len(a) \in 1..Len(a) /\ a[Len(a)] = x /\ Len(a) - Len(a) <= 0
      BY <1>1
    <3> QED BY <3>1 DEF Near
  <2>3. ASSUME NEW e \in Int, UpTo(c, e), x <= e PROVE UpTo(a, e)
    <3>1. ASSUME NEW i \in 1..Len(a) PROVE a[i] <= e
      <4>1. CASE i = Len(c) + 1
        BY <1>1, <2>3, <4>1
      <4>2. CASE i \in 1..Len(c)
        BY <1>1, <2>3, <4>2 DEF UpTo
      <4> QED BY <1>1, <4>1, <4>2
    <3> QED BY <3>1 DEF UpTo
  <2>4. ASSUME NEW e \in Int, NEW d \in Nat, Near(c, e, d) PROVE Near(a, e, d + 1)
    <3>1. PICK i \in 1..Len(c) : c[i] = e /\ Len(c) - i <= d
      BY <2>4 DEF Near
    <3>2. i \in 1..Len(a) /\ a[i] = e /\ Len(a) - i <= d + 1
      BY <1>1, <3>1
    <3> QED BY <3>2 DEF Near
  <2>5. PICK r : r = Engine!Recent(a, MaxRecent)
    OBVIOUS
  <2>6. r \in Seq(Int) /\ Near(r, x, 0)
    BY <1>1, <2>2, <2>5, RecentKeeps
  <2>7. \A e \in Int : UpTo(c, e) /\ x <= e => UpTo(r, e)
    BY <1>1, <2>3, <2>5, RecentKeeps
  <2>8. ASSUME NEW e \in Int, NEW d \in Nat, Near(c, e, d), d + 1 < MaxRecent
        PROVE  Near(r, e, d + 1)
    <3>1. Near(a, e, d + 1) /\ d + 1 \in Nat
      BY <2>4, <2>8
    <3> QED BY <1>1, <2>5, <2>8, <3>1, RecentKeeps
  <2> QED BY <2>1, <2>5, <2>6, <2>7, <2>8
<1> QED BY <1>2, <1>3

(* What a warmup makes of a series: the newest of the bars replayed is as  *)
(* near to the end as it was among them.                                   *)
LEMMA WarmedSeries ==
    ASSUME NEW c \in Seq(Int), NEW list \in Seq(Int), MaxRecent \in Nat \ {0, 1},
           NEW e \in Int, UpTo(c, e), UpTo(list, e), NEW d \in Nat, Near(list, e, d),
           d < MaxRecent
    PROVE  /\ Engine!FoldLeft(Engine!Merged, c, list) \in Seq(Int)
           /\ UpTo(Engine!FoldLeft(Engine!Merged, c, list), e)
           /\ Near(Engine!FoldLeft(Engine!Merged, c, list), e, d)
<1>1. PICK n : n = Len(list)
  OBVIOUS
<1>2. n \in Nat /\ DOMAIN list = 1..n /\ \A k \in 1..n : list[k] \in Int /\ list[k] <= e
  BY <1>1 DEF UpTo
<1>3. PICK i \in 1..n : list[i] = e /\ n - i <= d
  BY <1>1 DEF Near
<1> DEFINE Ok == [k \in 0..n |->
                    {x \in Seq(Int) : UpTo(x, e) /\ (k >= i => Near(x, e, k - i))}]
<1>4. c \in Ok[0]
  BY <1>2, <1>3
<1>5. ASSUME NEW k \in 1..n, NEW x \in Ok[k - 1] PROVE Engine!Merged(x, list[k]) \in Ok[k]
  <2>1. k - 1 \in 0..n /\ k \in 0..n /\ k - 1 \in Int
    BY <1>2
  <2>2. x \in Seq(Int) /\ UpTo(x, e) /\ (k - 1 >= i => Near(x, e, (k - 1) - i))
    BY <2>1
  <2>3. PICK y : y = Engine!Merged(x, list[k])
    OBVIOUS
  <2>4. y \in Seq(Int) /\ UpTo(y, e) /\ Near(y, list[k], 0)
    BY <1>2, <2>2, <2>3, MergedKeeps
  <2>5. ASSUME k >= i PROVE Near(y, e, k - i)
    <3>1. CASE k = i
      <4>1. k - i = 0
        BY <3>1
      <4> QED BY <1>3, <2>4, <3>1, <4>1
    <3>2. CASE k > i
      <4>1. PICK j : j = (k - 1) - i
        OBVIOUS
      <4>2. j \in Nat /\ j + 1 = k - i /\ j + 1 < MaxRecent /\ k - 1 >= i
        BY <1>2, <1>3, <3>2, <4>1
      <4>3. Near(x, e, j)
        BY <2>2, <4>1, <4>2
      <4>4. Near(y, e, j + 1)
        BY <1>2, <2>2, <2>3, <4>2, <4>3, MergedKeeps
      <4> QED BY <4>2, <4>4
    <3> QED BY <2>5, <3>1, <3>2
  <2> QED BY <2>1, <2>3, <2>4, <2>5
<1>6. \A k \in 1..n : \A x \in Seq(Int) : Engine!Merged(x, list[k]) \in Seq(Int)
  BY <1>2, MergedKeeps
<1>7. PICK F : F = Engine!FoldLeft(Engine!Merged, c, list)
  OBVIOUS
<1>8. F \in Ok[n]
  <2> HIDE DEF Ok
  <2>1. PICK V : V = Seq(Int)
    OBVIOUS
  <2>2. c \in V /\ \A k \in 1..n : \A x \in V : Engine!Merged(x, list[k]) \in V
    BY <1>6, <2>1
  <2>3. \A k \in 1..n : \A x \in Ok[k - 1] : Engine!Merged(x, list[k]) \in Ok[k]
    BY <1>5
  <2>4. Engine!FoldLeft(Engine!Merged, c, list) \in Ok[n]
    BY <1>2, <1>4, <2>2, <2>3, MergedAll
  <2> QED BY <1>7, <2>4
<1>9. F \in Seq(Int) /\ UpTo(F, e) /\ Near(F, e, n - i) /\ n - i \in Nat
  <2>1. n \in 0..n /\ n >= i
    BY <1>2
  <2> QED BY <1>8, <2>1, <1>2
<1>10. Near(F, e, d)
  <2>1. PICK k \in 1..Len(F) : F[k] = e /\ Len(F) - k <= n - i
    BY <1>9 DEF Near
  <2>2. Len(F) - k <= d
    <3>1. Len(F) \in Nat
      BY <1>9, LenProperties
    <3> QED BY <1>3, <1>9, <2>1, <3>1
  <2> QED BY <2>1, <2>2 DEF Near
<1> QED BY <1>7, <1>9, <1>10

LEMMA NothingMerged ==
    ASSUME NEW c
    PROVE  Engine!FoldLeft(Engine!Merged, c, <<>>) = c
<1>1. PICK V, n, list : V = {c} /\ n = 0 /\ list = <<>>
  OBVIOUS
<1> DEFINE Ok == [k \in 0..0 |-> {c}]
<1>2. c \in V /\ c \in Ok[0] /\ n \in Nat /\ 1..n = {} /\ DOMAIN list = 1..n
  BY <1>1
<1> HIDE DEF Ok
<1>3. Engine!FoldLeft(Engine!Merged, c, list) \in Ok[n]
  <2>1. \A k \in 1..n : \A x \in V : Engine!Merged(x, list[k]) \in V
    BY <1>2
  <2>2. \A k \in 1..n : \A x \in Ok[k - 1] : Engine!Merged(x, list[k]) \in Ok[k]
    BY <1>2
  <2> QED BY <1>1, <1>2, <2>1, <2>2, MergedAll
<1> QED BY <1>1, <1>3 DEF Ok

(* The bars an EMA has been computed from.                                 *)
Emas == [applied : Seq(Int), lastClosed : Int \cup {None}]
EmaOK(ind) ==
    ind \in Emas /\ (ind.lastClosed # None => HasEnd(ind.applied, ind.lastClosed))

LEMMA AppliedKeeps ==
    ASSUME None \notin Int, NEW ind, EmaOK(ind), NEW x \in Int, NEW ssu
    PROVE  /\ EmaOK(Engine!Applied(ssu, ind, x))
           /\ UpTo(ind.applied, x) => HasEnd(Engine!Applied(ssu, ind, x).applied, x)
           /\ \A e \in Int :
                 /\ UpTo(ind.applied, e) /\ x <= e =>
                        UpTo(Engine!Applied(ssu, ind, x).applied, e)
                 /\ HasEnd(ind.applied, e) => HasEnd(Engine!Applied(ssu, ind, x).applied, e)
<1>1. PICK c, l, y : c = ind.applied /\ l = ind.lastClosed /\ y = Engine!Applied(ssu, ind, x)
  OBVIOUS
<1>2. c \in Seq(Int) /\ l \in Int \cup {None} /\ (l # None => HasEnd(c, l))
  BY <1>1 DEF EmaOK, Emas
<1>3. CASE l # None /\ x <= l
  <2>1. y = ind
    BY <1>1, <1>3 DEF Engine!Applied
  <2>2. ASSUME UpTo(c, x) PROVE HasEnd(c, x)
    <3>1. PICK i \in 1..Len(c) : c[i] = l
      BY <1>2, <1>3 DEF HasEnd
    <3>2. l <= x /\ l \in Int
      BY <1>2, <1>3, <2>2, <3>1 DEF UpTo
    <3>3. l = x
      BY <1>3, <3>2
    <3> QED BY <1>2, <1>3, <3>3
  <2> QED BY <1>1, <2>1, <2>2
<1>4. CASE ~(l # None /\ x <= l)
  <2> DEFINE a == Append(c, x)
             m == IF Len(a) >= PeriodOf[ssu] THEN x ELSE None
  <2>1. y = [applied |-> a, lastClosed |-> m]
    BY <1>1, <1>4 DEF Engine!Applied
  <2>2. /\ a \in Seq(Int) /\ Len(c) \in Nat /\ Len(a) = Len(c) + 1
        /\ a[Len(c) + 1] = x /\ \A i \in 1..Len(c) : a[i] = c[i]
    BY <1>2, EndAppended
  <2>3. m \in {x, None}
    OBVIOUS
  <2> HIDE DEF a, m
  <2>4. HasEnd(a, x)
    <3>1. Len(a) \in 1..Len(a) /\ a[Len(a)] = x
      BY <2>2
    <3> QED BY <3>1 DEF HasEnd
  <2>5. y.applied = a /\ y.lastClosed = m /\ EmaOK(y)
    BY <2>1, <2>2, <2>3, <2>4 DEF EmaOK, Emas
  <2>6. ASSUME NEW e \in Int PROVE /\ UpTo(c, e) /\ x <= e => UpTo(a, e)
                                   /\ HasEnd(c, e) => HasEnd(a, e)
    BY <2>2 DEF UpTo, HasEnd
  <2> QED BY <1>1, <2>4, <2>5, <2>6
<1> QED BY <1>3, <1>4

LEMMA WarmedEma ==
    ASSUME None \notin Int, NEW list \in Seq(Int), NEW ssu, NEW e \in Int, Newest(list, e)
    PROVE  /\ EmaOK(EmaAfter(ssu, Engine!NoIndicator, list))
           /\ Newest(EmaAfter(ssu, Engine!NoIndicator, list).applied, e)
<1>1. PICK n, base : n = Len(list) /\ base = Engine!NoIndicator
  OBVIOUS
<1>2. n \in Nat /\ DOMAIN list = 1..n /\ \A k \in 1..n : list[k] \in Int /\ list[k] <= e
  BY <1>1 DEF Newest, UpTo
<1>3. PICK i \in 1..n : list[i] = e
  BY <1>1 DEF Newest, HasEnd
<1> DEFINE V == {ind \in Emas : EmaOK(ind)}
           Ok == [k \in 0..n |-> {ind \in V : /\ UpTo(ind.applied, e)
                                              /\ k >= i => HasEnd(ind.applied, e)}]
<1>4. base \in V /\ base \in Ok[0]
  <2>1. base = [applied |-> <<>>, lastClosed |-> None]
    BY <1>1 DEF Engine!NoIndicator
  <2>2. base \in Emas /\ base.lastClosed = None /\ base.applied = <<>> /\ Len(base.applied) = 0
    BY <2>1 DEF Emas
  <2>3. EmaOK(base) /\ UpTo(base.applied, e)
    BY <2>2 DEF EmaOK, UpTo
  <2> QED BY <1>2, <1>3, <2>2, <2>3
<1>5. \A k \in 1..n : \A x \in V : Engine!Applied(ssu, x, list[k]) \in V
  <2> TAKE k \in 1..n
  <2> TAKE x \in V
  <2>1. EmaOK(Engine!Applied(ssu, x, list[k]))
    BY <1>2, AppliedKeeps
  <2> QED BY <2>1 DEF EmaOK
<1>6. ASSUME NEW k \in 1..n, NEW x \in Ok[k - 1]
      PROVE  Engine!Applied(ssu, x, list[k]) \in Ok[k]
  <2>1. k - 1 \in 0..n /\ k \in 0..n /\ k - 1 \in Int
    BY <1>2
  <2>2. /\ x \in V /\ EmaOK(x) /\ UpTo(x.applied, e)
        /\ k - 1 >= i => HasEnd(x.applied, e)
    BY <2>1
  <2>3. PICK y : y = Engine!Applied(ssu, x, list[k])
    OBVIOUS
  <2>4. list[k] \in Int /\ list[k] <= e
    BY <1>2
  <2>5. y \in V /\ UpTo(y.applied, e) /\ (HasEnd(x.applied, e) => HasEnd(y.applied, e))
    BY <1>5, <2>2, <2>3, <2>4, AppliedKeeps
  <2>6. ASSUME k >= i PROVE HasEnd(y.applied, e)
    <3>1. CASE k = i
      BY <1>3, <2>2, <2>3, <2>4, <3>1, AppliedKeeps
    <3>2. CASE k > i
      BY <2>1, <2>2, <2>5, <3>2
    <3> QED BY <2>1, <2>6, <3>1, <3>2
  <2> QED BY <2>1, <2>3, <2>5, <2>6
<1>7. PICK F : F = EmaAfter(ssu, base, list)
  OBVIOUS
<1>8. F \in Ok[n]
  <2> HIDE DEF Ok, V
  <2> QED BY <1>2, <1>4, <1>5, <1>6, <1>7, AppliedAll
<1>9. n \in 0..n /\ n >= i
  BY <1>2
<1>10. EmaOK(F) /\ UpTo(F.applied, e) /\ HasEnd(F.applied, e)
  BY <1>8, <1>9
<1> QED BY <1>1, <1>7, <1>10 DEF Newest

LEMMA NothingApplied ==
    ASSUME NEW ssu, NEW base
    PROVE  EmaAfter(ssu, base, <<>>) = base
<1>1. PICK V, n, list : V = {base} /\ n = 0 /\ list = <<>>
  OBVIOUS
<1> DEFINE Ok == [k \in 0..0 |-> {base}]
<1>2. base \in V /\ base \in Ok[0] /\ n \in Nat /\ 1..n = {} /\ DOMAIN list = 1..n
  BY <1>1
<1> HIDE DEF Ok
<1>3. EmaAfter(ssu, base, list) \in Ok[n]
  <2>1. \A k \in 1..n : \A x \in V : Engine!Applied(ssu, x, list[k]) \in V
    BY <1>2
  <2>2. \A k \in 1..n : \A x \in Ok[k - 1] : Engine!Applied(ssu, x, list[k]) \in Ok[k]
    BY <1>2
  <2> QED BY <1>1, <1>2, <2>1, <2>2, AppliedAll
<1> QED BY <1>1, <1>3 DEF Ok

(* The bars an indicator state has processed: the last is the newest.      *)
LEMMA ProcessedKeeps ==
    ASSUME NEW y \in Seq(Int), NEW x \in Int
    PROVE  /\ Engine!Processed(y, x) \in Seq(Int) /\ Engine!Processed(y, x) # <<>>
           /\ UpTo(y, x) => Engine!Last(Engine!Processed(y, x)) = x
           /\ \A e \in Int :
                 /\ UpTo(y, e) /\ x <= e => UpTo(Engine!Processed(y, x), e)
                 /\ y # <<>> /\ Engine!Last(y) = e /\ x <= e => Engine!Processed(y, x) = y
<1> DEFINE a == Append(y, x)
<1>1. /\ a \in Seq(Int) /\ Len(y) \in Nat /\ Len(a) = Len(y) + 1
      /\ a[Len(y) + 1] = x /\ \A i \in 1..Len(y) : a[i] = y[i]
  BY EndAppended
<1>2. y # <<>> => Len(y) \in 1..Len(y) /\ Engine!Last(y) = y[Len(y)]
  BY <1>1, EmptySeq DEF Engine!Last
<1>3. CASE y # <<>> /\ x <= Engine!Last(y)
  <2>1. Engine!Processed(y, x) = y
    BY <1>3 DEF Engine!Processed
  <2>2. ASSUME UpTo(y, x) PROVE Engine!Last(y) = x
    <3>1. y[Len(y)] <= x /\ y[Len(y)] \in Int
      BY <1>2, <1>3, <2>2 DEF UpTo
    <3> QED BY <1>2, <1>3, <3>1
  <2> QED BY <1>3, <2>1, <2>2
<1>4. CASE ~(y # <<>> /\ x <= Engine!Last(y))
  <2>1. Engine!Processed(y, x) = a
    BY <1>4 DEF Engine!Processed
  <2> HIDE DEF a
  <2>2. a # <<>> /\ Engine!Last(a) = x
    BY <1>1, EmptySeq DEF Engine!Last
  <2>3. ASSUME NEW e \in Int, UpTo(y, e), x <= e PROVE UpTo(a, e)
    <3>1. ASSUME NEW i \in 1..Len(a) PROVE a[i] <= e
      <4>1. CASE i = Len(y) + 1
        BY <1>1, <2>3, <4>1
      <4>2. CASE i \in 1..Len(y)
        BY <1>1, <2>3, <4>2 DEF UpTo
      <4> QED BY <1>1, <4>1, <4>2
    <3> QED BY <3>1 DEF UpTo
  <2> QED BY <1>1, <1>4, <2>1, <2>2, <2>3
<1> QED BY <1>3, <1>4

LEMMA WarmedState ==
    ASSUME NEW list \in Seq(Int), NEW e \in Int, Newest(list, e)
    PROVE  /\ Engine!FoldLeft(Engine!Processed, <<>>, list) \in Seq(Int)
           /\ Engine!FoldLeft(Engine!Processed, <<>>, list) # <<>>
           /\ Engine!Last(Engine!FoldLeft(Engine!Processed, <<>>, list)) = e
<1>1. PICK n, base, V : n = Len(list) /\ base = <<>> /\ V = Seq(Int)
  OBVIOUS
<1>2. n \in Nat /\ DOMAIN list = 1..n /\ \A k \in 1..n : list[k] \in Int /\ list[k] <= e
  BY <1>1 DEF Newest, UpTo
<1>3. PICK i \in 1..n : list[i] = e
  BY <1>1 DEF Newest, HasEnd
<1> DEFINE Ok == [k \in 0..n |-> {y \in V : /\ UpTo(y, e)
                                            /\ k >= i => y # <<>> /\ Engine!Last(y) = e}]
<1>4. base \in V /\ base \in Ok[0]
  <2>1. base \in V /\ Len(base) = 0
    BY <1>1
  <2>2. UpTo(base, e)
    BY <2>1 DEF UpTo
  <2> QED BY <1>2, <1>3, <2>1, <2>2
<1>5. \A k \in 1..n : \A x \in V : Engine!Processed(x, list[k]) \in V
  BY <1>1, <1>2, ProcessedKeeps
<1>6. ASSUME NEW k \in 1..n, NEW x \in Ok[k - 1] PROVE Engine!Processed(x, list[k]) \in Ok[k]
  <2>1. k - 1 \in 0..n /\ k \in 0..n /\ k - 1 \in Int
    BY <1>2
  <2>2. x \in V /\ UpTo(x, e) /\ (k - 1 >= i => x # <<>> /\ Engine!Last(x) = e)
    BY <2>1
  <2>3. PICK y : y = Engine!Processed(x, list[k])
    OBVIOUS
  <2>4. list[k] \in Int /\ list[k] <= e /\ x \in Seq(Int)
    BY <1>1, <1>2, <2>2
  <2>5. y \in V /\ UpTo(y, e) /\ y # <<>>
    BY <1>1, <2>2, <2>3, <2>4, ProcessedKeeps
  <2>6. ASSUME k >= i PROVE Engine!Last(y) = e
    <3>1. CASE k = i
      BY <1>3, <2>2, <2>3, <2>4, <3>1, ProcessedKeeps
    <3>2. CASE k > i
      <4>1. x # <<>> /\ Engine!Last(x) = e
        BY <2>1, <2>2, <3>2
      <4>2. y = x
        BY <2>3, <2>4, <4>1, ProcessedKeeps
      <4> QED BY <4>1, <4>2
    <3> QED BY <2>1, <2>6, <3>1, <3>2
  <2> QED BY <2>1, <2>3, <2>5, <2>6
<1>7. PICK F : F = Engine!FoldLeft(Engine!Processed, base, list)
  OBVIOUS
<1>8. F \in Ok[n]
  <2> HIDE DEF Ok
  <2> QED BY <1>2, <1>4, <1>5, <1>6, <1>7, ProcessedAll
<1>9. n \in 0..n /\ n >= i
  BY <1>2
<1>10. F \in Seq(Int) /\ F # <<>> /\ Engine!Last(F) = e
  BY <1>1, <1>8, <1>9
<1> QED BY <1>1, <1>7, <1>10

LEMMA NothingProcessed ==
    ASSUME NEW base
    PROVE  Engine!FoldLeft(Engine!Processed, base, <<>>) = base
<1>1. PICK V, n, list : V = {base} /\ n = 0 /\ list = <<>>
  OBVIOUS
<1> DEFINE Ok == [k \in 0..0 |-> {base}]
<1>2. base \in V /\ base \in Ok[0] /\ n \in Nat /\ 1..n = {} /\ DOMAIN list = 1..n
  BY <1>1
<1> HIDE DEF Ok
<1>3. Engine!FoldLeft(Engine!Processed, base, list) \in Ok[n]
  <2>1. \A k \in 1..n : \A x \in V : Engine!Processed(x, list[k]) \in V
    BY <1>2
  <2>2. \A k \in 1..n : \A x \in Ok[k - 1] : Engine!Processed(x, list[k]) \in Ok[k]
    BY <1>2
  <2> QED BY <1>1, <1>2, <2>1, <2>2, ProcessedAll
<1> QED BY <1>1, <1>3 DEF Ok

(* load_bars: the newest is the last.                                      *)
Ending(c, m) == c # <<>> => \E e \in Int : e <= m /\ UpTo(c, e) /\ Near(c, e, 0)

LEMMA LoadBarsAre ==
    ASSUME NEW tf, NEW m \in Nat, WarmupBars \in Nat \ {0}
    PROVE  Engine!LoadBars(tf, m) \in Seq(Int) /\ Ending(Engine!LoadBars(tf, m), m)
<1>1. PICK v, base, V : v = [end \in 1..m |-> end] /\ base = <<>> /\ V = Seq(Int)
  OBVIOUS
<1>2. DOMAIN v = 1..m /\ \A k \in 1..m : v[k] = k
  BY <1>1
<1>3. ASSUME NEW x \in V, NEW k \in Nat PROVE Engine!WithBar(tf, x, k) \in V
  <2>1. Append(x, k) \in V
    BY <1>1
  <2>2. Engine!WithBar(tf, x, k) \in {x, Append(x, k)}
    BY DEF Engine!WithBar
  <2> QED BY <2>1, <2>2
<1> DEFINE Ok == [k \in 0..m |-> {x \in V : Ending(x, k)}]
<1>4. base \in V /\ base \in Ok[0]
  BY <1>1 DEF Ending
<1>5. ASSUME NEW k \in 1..m, NEW x \in Ok[k - 1] PROVE Engine!WithBar(tf, x, v[k]) \in Ok[k]
  <2>1. k - 1 \in 0..m /\ k \in 0..m /\ k \in Nat /\ k - 1 \in Int
    OBVIOUS
  <2>2. x \in V /\ Ending(x, k - 1)
    BY <2>1
  <2> DEFINE a == Append(x, k)
  <2>3. /\ a \in V /\ Len(x) \in Nat /\ Len(a) = Len(x) + 1
        /\ a[Len(x) + 1] = k /\ \A i \in 1..Len(x) : a[i] = x[i] /\ x[i] \in Int
    BY <1>1, <2>2, EndAppended
  <2>4. Engine!WithBar(tf, x, v[k]) \in {x, a}
    BY <1>2 DEF Engine!WithBar
  <2> HIDE DEF a
  <2>5. Ending(x, k)
    <3> SUFFICES ASSUME x # <<>> PROVE Ending(x, k)
      BY DEF Ending
    <3>1. PICK e \in Int : e <= k - 1 /\ UpTo(x, e) /\ Near(x, e, 0)
      BY <2>2 DEF Ending
    <3>2. e <= k
      BY <3>1
    <3> QED BY <3>1, <3>2 DEF Ending
  <2>6. Ending(a, k)
    <3>1. \A i \in 1..Len(x) : x[i] <= k
      <4>1. CASE x = <<>>
        <5>1. Len(x) = 0
          BY <4>1
        <5> QED BY <5>1
      <4>2. CASE x # <<>>
        <5>1. PICK e \in Int : e <= k - 1 /\ UpTo(x, e)
          BY <2>2, <4>2 DEF Ending
        <5> QED BY <2>3, <5>1 DEF UpTo
      <4> QED BY <4>1, <4>2
    <3>2. UpTo(a, k)
      BY <2>3, <3>1 DEF UpTo
    <3>3. Near(a, k, 0)
      <4>1. Len(a) \in 1..Len(a) /\ a[Len(a)] = k /\ Len(a) - Len(a) <= 0
        BY <2>3
      <4> QED BY <4>1 DEF Near
    <3>4. k \in Int /\ k <= k
      OBVIOUS
    <3> QED BY <3>2, <3>3, <3>4 DEF Ending
  <2> QED BY <2>1, <2>2, <2>3, <2>4, <2>5, <2>6
<1>6. BarsOf(tf, base, v) \in Ok[m]
  <2>1. \A k \in 1..m : \A x \in V : Engine!WithBar(tf, x, v[k]) \in V
    BY <1>2, <1>3
  <2> HIDE DEF Ok
  <2> QED BY <1>2, <1>4, <1>5, <2>1, WithBarAll
<1>7. PICK c : c = BarsOf(tf, base, v)
  OBVIOUS
<1>8. c \in Seq(Int) /\ Ending(c, m)
  BY <1>1, <1>6, <1>7
<1>9. Engine!LoadBars(tf, m) = Engine!Recent(c, WarmupBars)
  BY <1>1, <1>7 DEF Engine!LoadBars, BarsOf
<1>10. PICK r : r = Engine!Recent(c, WarmupBars)
  OBVIOUS
<1>11. r \in Seq(Int)
  BY <1>8, <1>10, RecentIs
<1>12. Ending(r, m)
  <2> SUFFICES ASSUME r # <<>> PROVE Ending(r, m)
    BY DEF Ending
  <2>1. c # <<>>
    BY <1>8, <1>10, RecentKeeps
  <2>2. PICK e \in Int : e <= m /\ UpTo(c, e) /\ Near(c, e, 0)
    BY <1>8, <2>1 DEF Ending
  <2>3. UpTo(r, e) /\ Near(r, e, 0)
    BY <1>8, <1>10, <2>2, RecentKeeps
  <2> QED BY <2>2, <2>3 DEF Ending
<1> QED BY <1>9, <1>10, <1>11, <1>12

(* A state that has processed nothing, handed the only bar there is.       *)
LEMMA FirstAdvance ==
    ASSUME NEW e \in Int, StateCapacity \in Nat \ {0}, NEW c, c = <<e>>
    PROVE  Engine!Advanced(<<>>, c) \in Seq(Int) /\ Engine!Advanced(<<>>, c) # <<>>
           /\ Engine!Last(Engine!Advanced(<<>>, c)) = e
<1>1. c \in Seq(Int) /\ Len(c) = 1 /\ c[1] = e /\ Engine!Last(c) = e
  BY DEF Engine!Last
<1>2. PICK v, n, base, V : v = Engine!Recent(c, StateCapacity) /\ n = Len(v)
                           /\ base = <<>> /\ V = {base}
  OBVIOUS
<1>3. v \in Seq(Int) /\ n \in Nat /\ DOMAIN v = 1..n /\ UpTo(v, e)
  <2>1. UpTo(c, e)
    BY <1>1 DEF UpTo
  <2>2. v \in Seq(Int) /\ UpTo(v, e)
    BY <1>1, <1>2, <2>1, RecentKeeps
  <2> QED BY <1>2, <2>2
<1>4. \A k \in 1..n : v[k] = e
  <2>1. Len(v) = 1 /\ v[1] = c[1]
    <3>1. ~(Len(c) > StateCapacity)
      BY <1>1
    <3>2. Len(v) = Len(c) /\ \A i \in 1..Len(v) : v[i] = c[Len(c) - Len(v) + i]
      BY <1>1, <1>2, <3>1, RecentIs
    <3>3. Len(v) = 1
      BY <1>1, <3>2
    <3>4. PICK j : j = Len(c) - Len(v) + 1
      OBVIOUS
    <3>5. j = 1 /\ 1 \in 1..Len(v)
      BY <1>1, <3>3, <3>4
    <3>6. v[1] = c[j]
      BY <3>2, <3>4, <3>5
    <3> QED BY <3>3, <3>5, <3>6
  <2>2. n = 1 /\ v[1] = e
    BY <1>1, <1>2, <2>1
  <2>3. \A k \in 1..n : k = 1
    BY <2>2
  <2> QED BY <2>2, <2>3
<1> DEFINE Ok == [k \in 0..n |-> V]
<1>5. /\ base \in V /\ base \in Ok[0]
      /\ \A k \in 1..n : \A x \in V : Earlier(e, x, v[k]) \in V
      /\ \A k \in 1..n : \A x \in Ok[k - 1] : Earlier(e, x, v[k]) \in Ok[k]
  <2>1. \A k \in 1..n : \A x \in V : Earlier(e, x, v[k]) \in V
    BY <1>4 DEF Earlier
  <2>2. \A k \in 0..n : Ok[k] = V
    OBVIOUS
  <2> HIDE DEF Ok
  <2>3. \A k \in 1..n : Ok[k - 1] = V /\ Ok[k] = V
    <3> TAKE k \in 1..n
    <3>1. k - 1 \in 0..n /\ k \in 0..n
      BY <1>3
    <3> QED BY <2>2, <3>1
  <2>4. Ok[0] = V
    BY <1>3, <2>2
  <2> QED BY <1>2, <2>1, <2>3, <2>4
<1>6. ReplayOf(e, base, v) \in Ok[n]
  <2> HIDE DEF Ok
  <2> QED BY <1>3, <1>5, ReplayedAll
<1>7. ReplayOf(e, base, v) = <<>>
  BY <1>2, <1>3, <1>6
<1>8. Engine!Replayed(c, e) = <<>>
  BY <1>2, <1>7 DEF Engine!Replayed, ReplayOf
<1>9. PICK none : none = <<>>
  OBVIOUS
<1>10. Engine!Advanced(none, c) = Engine!Processed(none, e)
  BY <1>1, <1>8, <1>9 DEF Engine!Advanced
<1>11. none \in Seq(Int) /\ UpTo(none, e)
  <2>1. Len(none) = 0 /\ 1..0 = {}
    BY <1>9
  <2>2. UpTo(none, e)
    BY <2>1 DEF UpTo
  <2>3. none \in Seq(Int)
    BY <1>9
  <2> QED BY <2>2, <2>3
<1>12. PICK y : y = Engine!Processed(none, e)
  OBVIOUS
<1>13. y \in Seq(Int) /\ y # <<>> /\ Engine!Last(y) = e
  BY <1>11, <1>12, ProcessedKeeps
<1>14. Engine!Advanced(<<>>, c) = y
  BY <1>9, <1>10, <1>12
<1> QED BY <1>13, <1>14

-----------------------------------------------------------------------------
(* How far the newest bar is from the end of the recent ones.  A tick is   *)
(* not later than MaxLag, so that after some bars the engine has formed    *)
(* none is older than the newest any more.                                 *)
WideWindows ==
    \A tf \in Engine!Timeframes : \A k \in {MaxRecent, WarmupBars, StateCapacity} :
        MaxLag <= (k - 3) * tf

Depth(tf, c, cur, t) ==
    \E e \in Int, d \in Nat :
        /\ UpTo(c, e) /\ Near(c, e, d) /\ e <= t
        /\ d * tf < MaxLag + 3 * tf
        /\ d > 0 => cur # None /\ cur.start > e - MaxLag - 2 * tf + d * tf
KeptOf(tf, c, cur, t) == c \in Seq(Int) /\ (c # <<>> => Depth(tf, c, cur, t))

LEMMA Products ==
    ASSUME NEW tf \in Nat \ {0}, NEW d \in Nat
    PROVE  /\ d * tf \in Nat /\ (d + 1) * tf = d * tf + tf
           /\ \A k \in Int : (k - 3) * tf = k * tf - 3 * tf /\ k * tf \in Int
           /\ \A k \in Nat : d * tf < k * tf => d < k
<1>1. d * tf \in Nat /\ (d + 1) * tf = d * tf + tf
  OBVIOUS
<1>2. ASSUME NEW k \in Int PROVE (k - 3) * tf = k * tf - 3 * tf /\ k * tf \in Int
  OBVIOUS
<1>3. ASSUME NEW k \in Nat, d * tf < k * tf PROVE d < k
  <2> SUFFICES ASSUME k <= d PROVE FALSE
    OBVIOUS
  <2>1. PICK j \in Nat : d = k + j
    BY d - k \in Nat, d = k + (d - k)
  <2>2. d * tf = k * tf + j * tf /\ j * tf \in Nat /\ k * tf \in Nat
    BY <2>1
  <2> QED BY <1>3, <2>2
<1> QED BY <1>1, <1>2, <1>3

LEMMA DepthBound ==
    ASSUME Engine!EngineAssumption, WideWindows, NEW tf \in Engine!Timeframes, NEW d \in Nat,
           d * tf < MaxLag + 3 * tf
    PROVE  d < MaxRecent /\ d < WarmupBars /\ d < StateCapacity
<1> SUFFICES ASSUME NEW k \in {MaxRecent, WarmupBars, StateCapacity} PROVE d < k
  OBVIOUS
<1>1. tf \in Nat \ {0} /\ k \in Nat /\ MaxLag \in Nat
  BY DEF Engine!EngineAssumption
<1>2. MaxLag <= (k - 3) * tf
  BY DEF WideWindows
<1>3. PICK a, b : a = d * tf /\ b = k * tf
  OBVIOUS
<1>4. (k - 3) * tf = b - 3 * tf /\ a \in Int /\ b \in Int
  BY <1>1, <1>3, Products
<1>5. a < b
  BY <1>1, <1>2, <1>3, <1>4
<1> QED BY <1>1, <1>3, <1>5, Products

(* The newest when a bar is closed.                                        *)
LEMMA ClosingKeeps ==
    ASSUME Engine!EngineAssumption, WideWindows, NEW tf \in Engine!Timeframes,
           NEW c, NEW cur, NEW new, NEW t \in Int, KeptOf(tf, c, cur, t),
           NEW end \in Int, cur.start \in Int, cur.start < end, end <= t,
           new # None, new.start \in Int, cur.start + tf <= new.start,
           new.start > t - MaxLag - tf
    PROVE  /\ KeptOf(tf, Engine!Merged(c, end), new, t)
           /\ UpTo(c, end) => Newest(Engine!Merged(c, end), end)
           /\ \A e \in Int : Newest(c, e) /\ end < e => Newest(Engine!Merged(c, end), e)
<1>1. tf \in Nat \ {0} /\ MaxLag \in Nat /\ MaxRecent \in Nat \ {0, 1}
  BY DEF Engine!EngineAssumption
<1>2. c \in Seq(Int)
  BY DEF KeptOf
<1>3. PICK m : m = Engine!Merged(c, end)
  OBVIOUS
<1>4. /\ m \in Seq(Int) /\ Near(m, end, 0)
      /\ \A e \in Int : UpTo(c, e) /\ end <= e => UpTo(m, e)
      /\ \A e \in Int, d \in Nat : Near(c, e, d) /\ d + 1 < MaxRecent => Near(m, e, d + 1)
  BY <1>1, <1>2, <1>3, MergedKeeps
<1>5. ASSUME UpTo(c, end)
      PROVE  Depth(tf, m, new, t) /\ Newest(m, end) /\ ~(\E e \in Int : Newest(c, e) /\ end < e)
  <2>1. PICK d : d = 0
    OBVIOUS
  <2>2. d \in Nat /\ ~(d > 0) /\ d * tf < MaxLag + 3 * tf
    BY <1>1, <2>1
  <2>3. UpTo(m, end) /\ Near(m, end, d)
    BY <1>4, <1>5, <2>1
  <2>4. \A e \in Int : Newest(c, e) => e <= end
    BY <1>5 DEF Newest, HasEnd, UpTo
  <2>5. Newest(m, end)
    BY <2>3 DEF Newest, HasEnd, Near
  <2> QED BY <2>2, <2>3, <2>4, <2>5 DEF Depth
<1>6. CASE c = <<>>
  <2>1. Len(c) = 0 /\ 1..0 = {}
    BY <1>6
  <2>2. UpTo(c, end)
    BY <2>1 DEF UpTo
  <2> QED BY <1>3, <1>4, <1>5, <2>2 DEF KeptOf
<1>7. CASE c # <<>>
  <2>1. PICK e \in Int : \E d \in Nat :
            /\ UpTo(c, e) /\ Near(c, e, d) /\ e <= t
            /\ d * tf < MaxLag + 3 * tf
            /\ d > 0 => cur # None /\ cur.start > e - MaxLag - 2 * tf + d * tf
    BY <1>7 DEF KeptOf, Depth
  <2>2. PICK d \in Nat :
            /\ UpTo(c, e) /\ Near(c, e, d) /\ e <= t
            /\ d * tf < MaxLag + 3 * tf
            /\ d > 0 => cur # None /\ cur.start > e - MaxLag - 2 * tf + d * tf
    BY <2>1
  <2>3. CASE e <= end
    <3>1. UpTo(c, end)
      <4>1. ASSUME NEW i \in 1..Len(c) PROVE c[i] \in Int /\ c[i] <= e
        <5>1. c[i] \in Int
          BY <1>2, ElementOfSeq
        <5> QED BY <2>2, <5>1 DEF UpTo
      <4>2. ASSUME NEW i \in 1..Len(c) PROVE c[i] <= end
        <5>1. PICK x \in Int : x = c[i]
          BY <4>1
        <5>2. x <= e
          BY <4>1, <5>1
        <5>3. x <= end
          BY <2>3, <5>2
        <5> QED BY <5>1, <5>3
      <4> QED BY <4>2 DEF UpTo
    <3> QED BY <1>3, <1>4, <1>5, <3>1 DEF KeptOf
  <2>4. CASE end < e
    <3>1. PICK p, q, s, r : p = d * tf /\ q = (d + 1) * tf /\ s = cur.start /\ r = new.start
      OBVIOUS
    <3>2. p \in Nat /\ q = p + tf /\ s \in Int /\ r \in Int
      BY <1>1, <3>1, Products
    <3>3. /\ q < MaxLag + 3 * tf
          /\ r > e - MaxLag - 2 * tf + q
      <4>1. CASE d = 0
        <5>1. p = 0
          BY <1>1, <3>1, <4>1
        <5>2. r > t - MaxLag - tf /\ e <= t
          BY <2>2, <3>1
        <5> QED BY <1>1, <3>2, <5>1, <5>2
      <4>2. CASE d > 0
        <5>1. s > e - MaxLag - 2 * tf + p /\ s < e /\ s + tf <= r
          BY <2>2, <2>4, <3>1, <4>2
        <5> QED BY <1>1, <3>2, <5>1
      <4> QED BY <4>1, <4>2
    <3>4. PICK f : f = d + 1
      OBVIOUS
    <3>5. f \in Nat /\ f * tf = q /\ f * tf < MaxLag + 3 * tf
      BY <3>1, <3>3, <3>4
    <3>6. f < MaxRecent
      BY <3>5, DepthBound
    <3>7. Near(m, e, f) /\ UpTo(m, e)
      BY <1>4, <2>2, <2>4, <3>4, <3>6
    <3>8. Depth(tf, m, new, t)
      <4>1. f * tf < MaxLag + 3 * tf /\ e <= t /\ new # None
        BY <2>2, <3>5
      <4>2. new.start > e - MaxLag - 2 * tf + f * tf
        BY <3>1, <3>3, <3>5
      <4> QED BY <3>5, <3>7, <4>1, <4>2 DEF Depth
    <3>9. HasEnd(c, e) /\ ~UpTo(c, end)
      <4>1. PICK i \in 1..Len(c) : c[i] = e
        BY <2>2 DEF Near
      <4>2. ~(c[i] <= end)
        BY <2>4, <4>1
      <4> QED BY <4>1, <4>2 DEF HasEnd, UpTo
    <3>10. \A x \in Int : Newest(c, x) => x = e
      <4> TAKE x \in Int
      <4>1. Newest(c, x) => x <= e /\ e <= x
        BY <2>2, <3>9 DEF Newest, HasEnd, UpTo
      <4> QED BY <4>1
    <3>11. Newest(m, e)
      BY <3>7 DEF Newest, HasEnd, Near
    <3> QED BY <1>3, <1>4, <3>8, <3>9, <3>10, <3>11 DEF KeptOf
  <2> QED BY <2>3, <2>4
<1> QED BY <1>6, <1>7

-----------------------------------------------------------------------------
(* What a tick does to a series.                                           *)
LEMMA SeriesTicks ==
    ASSUME Engine!EngineAssumption, EngineInv, NEW at \in 0..MaxTime, NEW ltp \in Prices,
           Engine!Tick(at, ltp), NEW tf \in Engine!Timeframes,
           NEW c, c = series[tf].current, NEW new, new = series'[tf].current
    PROVE  /\ ~Engine!Closes(tf, at) =>
                 /\ series'[tf].closed = series[tf].closed
                 /\ c # None => new # None /\ new.start = c.start
           /\ Engine!Closes(tf, at) =>
                 /\ tf \in Engine!Required /\ c # None /\ c.start \in Int /\ c.end \in Int
                 /\ c.start < c.end /\ c.end <= at
                 /\ new # None /\ new.start \in Int /\ c.start + tf <= new.start
                 /\ at < new.start + tf
                 /\ series'[tf].closed = Engine!Merged(series[tf].closed, c.end)
<1>1. tf \in Nat \ {0} /\ None \notin Engine!Bars /\ at \in Nat
  <2>1. Engine!Timeframes \subseteq Nat \ {0} /\ None \notin Engine!Bars /\ MaxTime \in Nat
    BY EngineConstants
  <2> QED BY <2>1
<1>2. PICK s : s = Engine!StartOf(tf, at)
  OBVIOUS
<1>3. s \in Nat /\ s <= at /\ at < s + tf /\ \E q \in Nat : s = q * tf
  BY <1>1, <1>2, StartIs
<1>4. PICK d : d = series[tf].closed
  OBVIOUS
<1>5. series[tf] = [current |-> c, closed |-> d]
  BY <1>4 DEF EngineInv, Current
<1>6. series'[tf] = IF tf \in Engine!Required THEN Engine!Updated(tf, at, ltp) ELSE series[tf]
  BY DEF Engine!Tick
<1>7. Engine!Closes(tf, at) <=> tf \in Engine!Required /\ c # None /\ c.start < s
  BY <1>2 DEF Engine!Closes
<1>8. c # None => /\ c \in Engine!Bars /\ c.start \in Int /\ c.end \in Int /\ c.start < c.end
                  /\ c.end <= c.start + tf /\ \E p \in Nat : c.start = p * tf
  <2>1. BarsOK(tf, heard[tf], announced[tf], c)
    BY DEF EngineInv, Current
  <2> QED BY <2>1 DEF BarsOK, FormingOK, BarOK, Engine!Bars
<1>9. Engine!Closes(tf, at) => c # None /\ c.start # Engine!StartOf(tf, at)
  BY <1>2, <1>3, <1>7, <1>8
<1>10. CASE tf \notin Engine!Required
  BY <1>4, <1>5, <1>6, <1>7, <1>10
<1>11. CASE tf \in Engine!Required /\ Engine!Closes(tf, at)
  <2>1. Engine!Updated(tf, at, ltp) = [current |-> Engine!NewBar(tf, at, ltp),
                                       closed  |-> Engine!Merged(d, c.end)]
    BY <1>4, <1>9, <1>11, UpdatedIs
  <2>2. new = Engine!NewBar(tf, at, ltp) /\ series'[tf].closed = Engine!Merged(d, c.end)
    BY <1>6, <1>11, <2>1
  <2>3. new # None /\ new.start = s
    <3>1. Engine!NewBar(tf, at, ltp) \in Engine!Bars /\ Engine!NewBar(tf, at, ltp).start = s
      BY <1>1, <1>2, NewBarIs
    <3> QED BY <1>1, <2>2, <3>1
  <2>4. c # None /\ c.start < s
    BY <1>7, <1>11
  <2>5. c.start + tf <= s
    <3>1. PICK p \in Nat : c.start = p * tf
      BY <1>8, <2>4
    <3>2. PICK q \in Nat : s = q * tf
      BY <1>3
    <3> QED BY <1>1, <2>4, <3>1, <3>2, NextMultiple
  <2>6. PICK x, y : x = c.start /\ y = c.end
    OBVIOUS
  <2>7. x \in Int /\ y \in Int /\ x < y /\ y <= x + tf /\ x + tf <= s
    BY <1>8, <2>4, <2>5, <2>6
  <2>8. y <= at /\ s \in Int
    BY <1>1, <1>3, <2>7
  <2> QED BY <1>3, <1>4, <1>11, <2>2, <2>3, <2>4, <2>6, <2>7, <2>8
<1>12. CASE tf \in Engine!Required /\ ~Engine!Closes(tf, at)
  <2>1. CASE c = None
    <3>1. Engine!Updated(tf, at, ltp)
            = [series[tf] EXCEPT !.current = Engine!NewBar(tf, at, ltp)]
      BY <1>7, <2>1 DEF Engine!Updated
    <3> QED BY <1>4, <1>5, <1>6, <1>12, <2>1, <3>1
  <2>2. CASE c # None /\ c.start = Engine!StartOf(tf, at)
    <3>1. Engine!Updated(tf, at, ltp) = [series[tf] EXCEPT !.current = Engine!Extended(@, ltp)]
      BY <1>9, <1>12, <2>2, UpdatedIs
    <3>2. new = Engine!Extended(c, ltp) /\ series'[tf].closed = d
      BY <1>5, <1>6, <1>12, <3>1
    <3>3. ltp \in Int
      BY EngineConstants
    <3>4. new \in Engine!Bars /\ new.start = c.start
      BY <1>8, <2>2, <3>2 DEF Engine!Extended, Engine!Bars
    <3> QED BY <1>1, <1>4, <1>12, <3>2, <3>4
  <2>3. CASE c # None /\ c.start # Engine!StartOf(tf, at)
    <3>1. Engine!Updated(tf, at, ltp) = series[tf]
      BY <1>9, <1>12, <2>3, UpdatedIs
    <3> QED BY <1>4, <1>5, <1>6, <1>12, <2>3, <3>1
  <2> QED BY <2>1, <2>2, <2>3
<1> QED BY <1>10, <1>11, <1>12

(* A later clock.                                                          *)
LEMMA StillKept ==
    ASSUME NEW tf, NEW c, NEW cur, NEW new, NEW t \in Int, NEW u \in Int, t <= u,
           cur # None => new # None /\ new.start = cur.start, KeptOf(tf, c, cur, t)
    PROVE  KeptOf(tf, c, new, u)
<1> SUFFICES ASSUME c # <<>> PROVE Depth(tf, c, new, u)
  BY DEF KeptOf
<1>1. PICK e \in Int : \E d \in Nat :
          /\ UpTo(c, e) /\ Near(c, e, d) /\ e <= t
          /\ d * tf < MaxLag + 3 * tf
          /\ d > 0 => cur # None /\ cur.start > e - MaxLag - 2 * tf + d * tf
  BY DEF KeptOf, Depth
<1>2. e <= u
  BY <1>1
<1> QED BY <1>1, <1>2 DEF Depth

(* What the recent bars of a series have, which a warmup takes.            *)
LEMMA RecentDepth ==
    ASSUME Engine!EngineAssumption, WideWindows, NEW tf \in Engine!Timeframes,
           NEW c, NEW cur, NEW t \in Int, KeptOf(tf, c, cur, t), c # <<>>,
           NEW k \in {MaxRecent, WarmupBars, StateCapacity}
    PROVE  /\ Engine!Recent(c, k) \in Seq(Int) /\ Engine!Recent(c, k) # <<>>
           /\ \E e \in Int : Newest(c, e) /\ Newest(Engine!Recent(c, k), e)
           /\ KeptOf(tf, Engine!Recent(c, k), cur, t)
<1>1. c \in Seq(Int) /\ k \in Nat \ {0}
  BY DEF KeptOf, Engine!EngineAssumption
<1>2. PICK e \in Int : \E d \in Nat :
          /\ UpTo(c, e) /\ Near(c, e, d) /\ e <= t
          /\ d * tf < MaxLag + 3 * tf
          /\ d > 0 => cur # None /\ cur.start > e - MaxLag - 2 * tf + d * tf
  BY DEF KeptOf, Depth
<1>3. PICK d \in Nat :
          /\ UpTo(c, e) /\ Near(c, e, d) /\ e <= t
          /\ d * tf < MaxLag + 3 * tf
          /\ d > 0 => cur # None /\ cur.start > e - MaxLag - 2 * tf + d * tf
  BY <1>2
<1>4. d < k
  BY <1>3, DepthBound
<1>5. PICK r : r = Engine!Recent(c, k)
  OBVIOUS
<1>6. r \in Seq(Int) /\ r # <<>> /\ UpTo(r, e) /\ Near(r, e, d)
  BY <1>1, <1>3, <1>4, <1>5, RecentKeeps
<1>7. Newest(c, e) /\ Newest(r, e)
  BY <1>3, <1>6 DEF Newest, HasEnd, Near
<1>8. KeptOf(tf, r, cur, t)
  BY <1>3, <1>6 DEF KeptOf, Depth
<1> QED BY <1>5, <1>6, <1>7, <1>8

-----------------------------------------------------------------------------
(* What the EMA of an SSU, and the state of its strategy, have of the      *)
(* closed bars of its timeframe: the newest.                               *)
Sound(ind, y, c) ==
    /\ EmaOK(ind) /\ y \in Seq(Int)
    /\ c = <<>> => ind.applied = <<>> /\ y = <<>>
    /\ \A e \in Int : Newest(c, e) =>
          Newest(ind.applied, e) /\ y # <<>> /\ Engine!Last(y) = e

LEMMA OneNewest ==
    ASSUME NEW c, NEW a \in Int, NEW b \in Int, Newest(c, a), Newest(c, b)
    PROVE  a = b
<1>1. a <= b /\ b <= a
  BY DEF Newest, HasEnd, UpTo
<1> QED BY <1>1

LEMMA HasNewest ==
    ASSUME NEW tf, NEW c, NEW cur, NEW t, KeptOf(tf, c, cur, t), c # <<>>
    PROVE  \E e \in Int : Newest(c, e)
BY DEF KeptOf, Depth, Newest, HasEnd, Near

(* What a warmup makes of the series, and of the first SSU that has it.    *)
WarmupOf(tf, c, h) ==
    IF Engine!Recent(c, WarmupBars) = <<>> THEN Engine!LoadBars(tf, h)
    ELSE Engine!Recent(c, WarmupBars)

WarmedBy(tf, c, cur, t, h, list, m) ==
    /\ list \in Seq(Int) /\ KeptOf(tf, m, cur, t)
    /\ list = <<>> => m = c /\ c = <<>>
    /\ list # <<>> => \E e \in Int : Newest(list, e) /\ Newest(m, e)
    /\ c # <<>> => \A e \in Int : Newest(c, e) => Newest(m, e)
    /\ c = <<>> /\ Engine!LoadBars(tf, h) = <<>> => m = c
    /\ c # <<>> => m # <<>>

LEMMA Warmup ==
    ASSUME Engine!EngineAssumption, WideWindows, NEW tf \in Engine!Timeframes,
           NEW c, NEW cur, NEW t \in Nat, NEW h \in Nat, h <= t, KeptOf(tf, c, cur, t),
           NEW list, list = WarmupOf(tf, c, h),
           NEW m, m = Engine!FoldLeft(Engine!Merged, c, list)
    PROVE  WarmedBy(tf, c, cur, t, h, list, m)
<1>1. /\ c \in Seq(Int) /\ {MaxRecent, WarmupBars} \subseteq Nat \ {0, 1}
      /\ tf \in Nat \ {0} /\ MaxLag \in Nat
  BY DEF KeptOf, Engine!EngineAssumption
<1>2. Engine!Recent(<<>>, WarmupBars) = <<>> /\ (c # <<>> => Engine!Recent(c, WarmupBars) # <<>>)
  <2>1. PICK k : k = WarmupBars
    OBVIOUS
  <2>2. k \in Nat \ {0} /\ 0 \in Int
    BY <1>1, <2>1
  <2>3. Engine!Recent(<<>>, k) = <<>> /\ (c # <<>> => Engine!Recent(c, k) # <<>>)
    BY <1>1, <2>2, RecentKeeps
  <2> QED BY <2>1, <2>3
<1>3. ASSUME NEW e \in Int, NEW d \in Nat, list \in Seq(Int), UpTo(c, e), UpTo(list, e),
             Near(list, e, d), d < MaxRecent, e <= t, d * tf < MaxLag + 3 * tf,
             d > 0 => cur # None /\ cur.start > e - MaxLag - 2 * tf + d * tf
      PROVE  KeptOf(tf, m, cur, t) /\ Newest(list, e) /\ Newest(m, e) /\ list # <<>> /\ m # <<>>
  <2>1. m \in Seq(Int) /\ UpTo(m, e) /\ Near(m, e, d)
    BY <1>1, <1>3, WarmedSeries
  <2>2. Newest(list, e) /\ Newest(m, e)
    BY <1>3, <2>1 DEF Newest, HasEnd, Near
  <2>3. KeptOf(tf, m, cur, t)
    BY <1>3, <2>1 DEF KeptOf, Depth
  <2>4. ASSUME NEW x, x = <<>> PROVE ~Newest(x, e)
    <3>1. Len(x) = 0
      BY <2>4
    <3> QED BY <3>1 DEF Newest, HasEnd
  <2> QED BY <2>2, <2>3, <2>4
<1>4. CASE c = <<>>
  <2>1. list = Engine!LoadBars(tf, h)
    BY <1>2, <1>4 DEF WarmupOf
  <2>2. list \in Seq(Int) /\ Ending(list, h)
    BY <1>1, <2>1, LoadBarsAre
  <2>3. CASE list = <<>>
    BY <1>4, <2>2, <2>3, NothingMerged DEF WarmedBy
  <2>4. CASE list # <<>>
    <3>1. PICK e \in Int : e <= h /\ UpTo(list, e) /\ Near(list, e, 0)
      BY <2>2, <2>4 DEF Ending
    <3>2. PICK d : d = 0
      OBVIOUS
    <3>3. d \in Nat /\ d < MaxRecent /\ d * tf < MaxLag + 3 * tf /\ ~(d > 0) /\ e <= t
      BY <1>1, <3>1, <3>2
    <3>4. UpTo(c, e)
      <4>1. Len(c) = 0
        BY <1>4
      <4> QED BY <4>1 DEF UpTo
    <3>5. KeptOf(tf, m, cur, t) /\ Newest(list, e) /\ Newest(m, e) /\ m # <<>>
      BY <1>3, <2>2, <3>1, <3>2, <3>3, <3>4
    <3> QED BY <1>4, <2>1, <2>2, <2>4, <3>5 DEF WarmedBy
  <2> QED BY <2>3, <2>4
<1>5. CASE c # <<>>
  <2>1. list = Engine!Recent(c, WarmupBars)
    BY <1>2, <1>5 DEF WarmupOf
  <2>2. PICK e \in Int : \E d \in Nat :
            /\ UpTo(c, e) /\ Near(c, e, d) /\ e <= t
            /\ d * tf < MaxLag + 3 * tf
            /\ d > 0 => cur # None /\ cur.start > e - MaxLag - 2 * tf + d * tf
    BY <1>5 DEF KeptOf, Depth
  <2>3. PICK d \in Nat :
            /\ UpTo(c, e) /\ Near(c, e, d) /\ e <= t
            /\ d * tf < MaxLag + 3 * tf
            /\ d > 0 => cur # None /\ cur.start > e - MaxLag - 2 * tf + d * tf
    BY <2>2
  <2>4. d < MaxRecent /\ d < WarmupBars
    BY <2>3, DepthBound
  <2>5. list \in Seq(Int) /\ UpTo(list, e) /\ Near(list, e, d)
    BY <1>1, <2>1, <2>3, <2>4, RecentKeeps
  <2>6. KeptOf(tf, m, cur, t) /\ Newest(list, e) /\ Newest(m, e) /\ list # <<>> /\ m # <<>>
    BY <1>3, <2>3, <2>4, <2>5
  <2>7. \A x \in Int : Newest(c, x) => x = e
    <3>1. Newest(c, e)
      BY <2>3 DEF Newest, HasEnd, Near
    <3> QED BY <3>1, OneNewest
  <2> QED BY <1>5, <2>5, <2>6, <2>7 DEF WarmedBy
<1> QED BY <1>4, <1>5

(* An SSU that is warmed up.                                               *)
LEMMA WarmedSound ==
    ASSUME Engine!EngineAssumption, WideWindows, NEW tf \in Engine!Timeframes,
           NEW cur, NEW t \in Nat, NEW list \in Seq(Int), NEW m, KeptOf(tf, m, cur, t),
           list = <<>> => m = <<>>,
           list # <<>> => \E e \in Int : Newest(list, e) /\ Newest(m, e),
           NEW ssu
    PROVE  Sound(EmaAfter(ssu, Engine!NoIndicator, list),
                 Engine!FoldLeft(Engine!Processed, <<>>, Engine!Recent(m, StateCapacity)), m)
<1>1. PICK ind, y : /\ ind = EmaAfter(ssu, Engine!NoIndicator, list)
                    /\ y = Engine!FoldLeft(Engine!Processed, <<>>,
                                           Engine!Recent(m, StateCapacity))
  OBVIOUS
<1>2. None \notin Int /\ StateCapacity \in Nat \ {0, 1} /\ m \in Seq(Int)
  BY DEF Engine!EngineAssumption, KeptOf
<1>3. CASE list = <<>>
  <2>1. m = <<>>
    BY <1>3
  <2>2. ind = Engine!NoIndicator
    BY <1>1, <1>3, NothingApplied
  <2>3. ind = [applied |-> <<>>, lastClosed |-> None]
    BY <2>2 DEF Engine!NoIndicator
  <2>4. EmaOK(ind) /\ ind.applied = <<>>
    <3>1. <<>> \in Seq(Int)
      BY EmptySeq
    <3>2. ind.applied = <<>> /\ ind.lastClosed = None
      BY <2>3
    <3>3. ind \in Emas
      BY <2>3, <3>1 DEF Emas
    <3> QED BY <3>2, <3>3 DEF EmaOK
  <2>5. Engine!Recent(m, StateCapacity) = <<>>
    BY <1>2, <2>1, RecentKeeps
  <2>6. y = <<>>
    BY <1>1, <2>5, NothingProcessed
  <2>7. y \in Seq(Int)
    BY <2>6, EmptySeq
  <2>8. \A e \in Int : ~Newest(m, e)
    <3>1. Len(m) = 0
      BY <2>1
    <3> QED BY <3>1 DEF Newest, HasEnd
  <2> QED BY <1>1, <2>4, <2>6, <2>7, <2>8 DEF Sound
<1>4. CASE list # <<>>
  <2>1. PICK e \in Int : Newest(list, e) /\ Newest(m, e)
    BY <1>4
  <2>2. m # <<>>
    <3>1. ASSUME m = <<>> PROVE FALSE
      <4>1. Len(m) = 0
        BY <3>1
      <4> QED BY <2>1, <4>1 DEF Newest, HasEnd
    <3> QED BY <3>1
  <2>3. EmaOK(ind) /\ Newest(ind.applied, e)
    BY <1>1, <1>2, <2>1, WarmedEma
  <2>4. PICK r : r = Engine!Recent(m, StateCapacity)
    OBVIOUS
  <2>5. r \in Seq(Int) /\ \E x \in Int : Newest(m, x) /\ Newest(r, x)
    <3>1. PICK k \in {MaxRecent, WarmupBars, StateCapacity} : k = StateCapacity
      OBVIOUS
    <3>2. t \in Int
      OBVIOUS
    <3>3. /\ Engine!Recent(m, k) \in Seq(Int)
          /\ \E x \in Int : Newest(m, x) /\ Newest(Engine!Recent(m, k), x)
      BY <2>2, <3>2, RecentDepth
    <3> QED BY <2>4, <3>1, <3>3
  <2>6. Newest(r, e)
    BY <2>1, <2>5, OneNewest
  <2>7. y \in Seq(Int) /\ y # <<>> /\ Engine!Last(y) = e
    BY <1>1, <2>4, <2>5, <2>6, WarmedState
  <2>8. \A x \in Int : Newest(m, x) => x = e
    BY <2>1, OneNewest
  <2> QED BY <1>1, <2>2, <2>3, <2>7, <2>8 DEF Sound
<1> QED BY <1>3, <1>4

(* A bar that an EMA is applied to and a state advanced with.              *)
LEMMA ClosingSound ==
    ASSUME Engine!EngineAssumption, NEW c \in Seq(Int), NEW end \in Int,
           NEW ind, NEW y, Sound(ind, y, c), NEW m, m = Engine!Merged(c, end),
           c # <<>> => \E e \in Int : Newest(c, e),
           UpTo(c, end) => Newest(m, end),
           \A e \in Int : Newest(c, e) /\ end < e => Newest(m, e),
           NEW ssu
    PROVE  Sound(Engine!Applied(ssu, ind, end), Engine!Advanced(y, m), m)
<1>1. PICK a, z : a = Engine!Applied(ssu, ind, end) /\ z = Engine!Advanced(y, m)
  OBVIOUS
<1>2. None \notin Int /\ {StateCapacity, MaxRecent} \subseteq Nat \ {0, 1}
  BY DEF Engine!EngineAssumption
<1>3. EmaOK(ind) /\ y \in Seq(Int)
  BY DEF Sound
<1>4. EmaOK(a) /\ (UpTo(ind.applied, end) => HasEnd(a.applied, end))
  BY <1>1, <1>2, <1>3, AppliedKeeps
<1>5. \A e \in Int :
          /\ UpTo(ind.applied, e) /\ end <= e => UpTo(a.applied, e)
          /\ HasEnd(ind.applied, e) => HasEnd(a.applied, e)
  BY <1>1, <1>2, <1>3, AppliedKeeps
<1>6. m \in Seq(Int) /\ Near(m, end, 0)
  BY <1>2, MergedKeeps
<1>7. m # <<>> /\ Engine!Last(m) = end
  <2>1. PICK i \in 1..Len(m) : m[i] = end /\ Len(m) - i <= 0
    BY <1>6 DEF Near
  <2>2. Len(m) \in Nat
    BY <1>6, LenProperties
  <2>3. i = Len(m)
    BY <2>1, <2>2
  <2>4. m # <<>>
    <3>1. ASSUME m = <<>> PROVE FALSE
      <4>1. Len(m) = 0
        BY <3>1
      <4> QED BY <2>1, <4>1
    <3> QED BY <3>1
  <2> QED BY <2>1, <2>3, <2>4 DEF Engine!Last
<1>8. SUFFICES ASSUME NEW e \in Int, Newest(m, e), Newest(a.applied, e),
                      z \in Seq(Int), z # <<>>, Engine!Last(z) = e
               PROVE  Sound(a, z, m)
  <2>1. CASE c = <<>>
    <3>1. ind.applied = <<>> /\ y = <<>>
      BY <2>1 DEF Sound
    <3>2. ASSUME NEW x, x = <<>> PROVE UpTo(x, end)
      <4>1. Len(x) = 0
        BY <3>2
      <4> QED BY <4>1 DEF UpTo
    <3>3. Newest(m, end) /\ Newest(a.applied, end)
      BY <1>4, <1>5, <2>1, <3>1, <3>2 DEF Newest
    <3>4. m = <<end>>
      <4>1. PICK b : b = Append(c, end)
        OBVIOUS
      <4>2. m = Engine!Recent(b, MaxRecent)
        BY <2>1, <4>1 DEF Engine!Merged
      <4>3. b \in Seq(Int) /\ Len(c) = 0 /\ Len(b) = 1 /\ b[1] = end
        <5>1. Len(c) = 0
          BY <2>1
        <5>2. b \in Seq(Int) /\ Len(b) = Len(c) + 1 /\ b[Len(c) + 1] = end
          BY <4>1, EndAppended
        <5> QED BY <5>1, <5>2
      <4>4. Len(m) = 1
        <5>1. PICK n \in Nat \ {0, 1} : n = MaxRecent
          BY <1>2
        <5>2. Len(Engine!Recent(b, n)) = IF Len(b) > n THEN n ELSE Len(b)
          BY <4>3, <5>1, RecentIs
        <5> QED BY <4>2, <4>3, <5>1, <5>2
      <4>5. m[1] = end
        <5>1. PICK i \in 1..Len(m) : m[i] = end
          BY <1>6 DEF Near
        <5>2. i = 1
          BY <4>4, <5>1
        <5> QED BY <5>1, <5>2
      <4> QED BY <1>6, <4>4, <4>5
    <3>5. z \in Seq(Int) /\ z # <<>> /\ Engine!Last(z) = end
      BY <1>1, <1>2, <3>1, <3>4, FirstAdvance
    <3> QED BY <1>1, <1>8, <3>3, <3>5
  <2>2. CASE c # <<>>
    <3>1. PICK e \in Int : Newest(c, e)
      BY <2>2
    <3>2. Newest(ind.applied, e) /\ y # <<>> /\ Engine!Last(y) = e
      BY <3>1 DEF Sound
    <3>3. z = IF end <= e THEN y ELSE Append(y, end)
      BY <1>1, <1>7, <3>2 DEF Engine!Advanced, Engine!Processed
    <3>4. CASE end < e
      <4>1. Newest(m, e) /\ UpTo(a.applied, e) /\ HasEnd(a.applied, e)
        BY <1>5, <3>1, <3>2, <3>4 DEF Newest
      <4>2. z = y
        BY <3>3, <3>4
      <4> QED BY <1>1, <1>3, <1>8, <3>2, <4>1, <4>2 DEF Newest
    <3>5. CASE e <= end
      <4>1. ASSUME NEW x, UpTo(x, e), x \in Seq(Int) PROVE UpTo(x, end)
        <5>1. ASSUME NEW i \in 1..Len(x) PROVE x[i] <= end
          <6>1. x[i] \in Int
            BY <4>1, ElementOfSeq
          <6>2. x[i] <= e
            BY <4>1 DEF UpTo
          <6> QED BY <3>5, <6>1, <6>2
        <5> QED BY <5>1 DEF UpTo
      <4>2. UpTo(c, end) /\ UpTo(ind.applied, end)
        <5>1. ind.applied \in Seq(Int)
          BY <1>3 DEF EmaOK, Emas
        <5> QED BY <3>1, <3>2, <4>1, <5>1 DEF Newest
      <4>3. Newest(m, end) /\ Newest(a.applied, end)
        BY <1>4, <1>5, <4>2 DEF Newest
      <4>4. z \in Seq(Int) /\ z # <<>> /\ Engine!Last(z) = end
        <5>1. CASE end = e
          BY <1>3, <3>2, <3>3, <5>1
        <5>2. CASE e < end
          <6>1. z = Append(y, end)
            BY <3>3, <5>2
          <6>2. z \in Seq(Int) /\ Len(y) \in Nat /\ Len(z) = Len(y) + 1 /\ z[Len(y) + 1] = end
            BY <1>3, <6>1, EndAppended
          <6>3. z # <<>>
            <7>1. ASSUME z = <<>> PROVE FALSE
              <8>1. Len(z) = 0
                BY <7>1
              <8> QED BY <6>2, <8>1
            <7> QED BY <7>1
          <6> QED BY <6>2, <6>3 DEF Engine!Last
        <5> QED BY <3>5, <5>1, <5>2
      <4> QED BY <1>1, <1>8, <4>3, <4>4
    <3> QED BY <3>4, <3>5
  <2> QED BY <2>1, <2>2
<1>9. \A x \in Int : Newest(m, x) => x = e
  BY <1>8, OneNewest
<1> QED BY <1>4, <1>7, <1>8, <1>9 DEF Sound

-----------------------------------------------------------------------------
(* What is kept of the newest bars while nothing is reloaded, during a     *)
(* reload, and after one.                                                  *)
ClosedOf(s) == series[TimeframeOf[s]].closed

ClockOK ==
    /\ now \in Nat /\ historyEnd \in Nat /\ historyEnd <= now
    /\ indicator = [s \in Ssus |-> indicator[s]]
KeptOK ==
    \A tf \in Engine!Timeframes : KeptOf(tf, series[tf].closed, series[tf].current, now)

ReloadShape ==
    /\ reload = [todo |-> reload.todo, loaded |-> reload.loaded,
                 from |-> reload.from, states |-> reload.states]
    /\ reload.states = [s \in Ssus |-> reload.states[s]]
    /\ reload.todo \subseteq Ssus /\ reload.loaded \subseteq Ssus
    /\ reload.loaded \cap reload.todo = {} /\ registered = reload.loaded
    /\ reload.from \in Nat /\ reload.from <= historyEnd
    /\ \A s \in reload.todo : indicator[s] = Engine!NoIndicator
LoadedOK ==
    \A s \in reload.loaded :
        /\ Sound(indicator[s], reload.states[s], ClosedOf(s))
        /\ ClosedOf(s) = <<>> => Engine!LoadBars(TimeframeOf[s], historyEnd) = <<>>
ReloadOK ==
    reload # None =>
        /\ ~settled /\ ReloadShape
        /\ reload.from = historyEnd => LoadedOK

SettledOK ==
    settled =>
        /\ registered = active /\ active \subseteq Ssus
        /\ \A s \in active : Sound(indicator[s], states[s], ClosedOf(s))

NewestInv == EngineInv /\ ClockOK /\ KeptOK /\ ReloadOK /\ SettledOK

LEMMA NewestStarts ==
    ASSUME Engine!EngineAssumption, Engine!Init
    PROVE  NewestInv
<1>1. EngineInv
  BY EngineStarts
<1>2. ClockOK
  BY DEF Engine!Init, ClockOK
<1>3. KeptOK
  <2> SUFFICES ASSUME NEW tf \in Engine!Timeframes
               PROVE  KeptOf(tf, series[tf].closed, series[tf].current, now)
    BY DEF KeptOK
  <2>1. series[tf].closed = <<>>
    BY DEF Engine!Init
  <2>2. <<>> \in Seq(Int)
    BY EmptySeq
  <2> QED BY <2>1, <2>2 DEF KeptOf
<1>4. reload = None /\ ~settled
  BY DEF Engine!Init
<1>5. ReloadOK /\ SettledOK
  BY <1>4 DEF ReloadOK, SettledOK
<1> QED BY <1>1, <1>2, <1>3, <1>5 DEF NewestInv

(* Nothing happens but that time passes, or minutes are stored.            *)
LEMMA QuietKeeps ==
    ASSUME Engine!EngineAssumption, NewestInv,
           UNCHANGED <<series, registered, indicator, reload, active, states, settled>>,
           \/ now' = now + 1 /\ historyEnd' = historyEnd
           \/ now' = now /\ historyEnd < now /\ historyEnd' = now
           \/ now' = now /\ historyEnd' = historyEnd
    PROVE  ClockOK' /\ KeptOK' /\ ReloadOK' /\ SettledOK'
<1>1. ClockOK /\ KeptOK /\ ReloadOK /\ SettledOK
  BY DEF NewestInv
<1>2. ClockOK' /\ now' \in Nat /\ now <= now'
  BY <1>1 DEF ClockOK
<1>3. KeptOK'
  <2>1. ASSUME NEW tf \in Engine!Timeframes
        PROVE  KeptOf(tf, series'[tf].closed, series'[tf].current, now')
    <3>1. KeptOf(tf, series[tf].closed, series[tf].current, now)
      BY <1>1 DEF KeptOK
    <3>2. now \in Int /\ now' \in Int
      BY <1>1, <1>2 DEF ClockOK
    <3>3. KeptOf(tf, series[tf].closed, series[tf].current, now')
      BY <1>2, <3>1, <3>2, StillKept
    <3> QED BY <3>3
  <2> QED BY <2>1 DEF KeptOK, Engine!Timeframes
<1>4. ReloadOK'
  <2> SUFFICES ASSUME reload # None
               PROVE  /\ ~settled /\ ReloadShape'
                      /\ reload.from = historyEnd' => LoadedOK'
    BY DEF ReloadOK
  <2>1. ~settled /\ ReloadShape /\ (reload.from = historyEnd => LoadedOK)
    BY <1>1 DEF ReloadOK
  <2>2. reload.from \in Nat /\ reload.from <= historyEnd
    BY <2>1 DEF ReloadShape
  <2>3. historyEnd' \in Nat /\ historyEnd <= historyEnd' /\ historyEnd \in Nat
    BY <1>1 DEF ClockOK
  <2>4. ReloadShape'
    <3>1. reload.from <= historyEnd'
      BY <2>2, <2>3
    <3> QED BY <2>1, <3>1 DEF ReloadShape, Engine!NoIndicator
  <2>5. ASSUME reload.from = historyEnd' PROVE LoadedOK'
    <3>1. historyEnd' = historyEnd
      BY <2>2, <2>3, <2>5
    <3>2. LoadedOK
      BY <2>1, <2>5, <3>1
    <3> QED BY <3>1, <3>2 DEF LoadedOK, ClosedOf
  <2> QED BY <2>1, <2>4, <2>5
<1>5. SettledOK'
  BY <1>1 DEF SettledOK, ClosedOf
<1> QED BY <1>2, <1>3, <1>4, <1>5

(* A tick.                                                                 *)
LEMMA TickKeepsNewest ==
    ASSUME Engine!EngineAssumption, WideWindows, NewestInv,
           NEW at \in 0..MaxTime, NEW ltp \in Prices, at >= now - MaxLag, Engine!Tick(at, ltp)
    PROVE  ClockOK' /\ KeptOK' /\ ReloadOK' /\ SettledOK'
<1>1. EngineInv /\ ClockOK /\ KeptOK /\ ReloadOK /\ SettledOK
  BY DEF NewestInv
<1>2. /\ reload = None /\ at <= now
      /\ UNCHANGED <<now, historyEnd, registered, reload, active, settled, reloads>>
  BY DEF Engine!Tick
<1>3. now \in Nat /\ at \in Nat /\ MaxLag \in Nat
  <2>1. MaxTime \in Nat /\ MaxLag \in Nat
    BY DEF Engine!EngineAssumption
  <2> QED BY <1>1, <2>1 DEF ClockOK
<1>4. ASSUME NEW tf \in Engine!Timeframes
      PROVE  /\ KeptOf(tf, series'[tf].closed, series'[tf].current, now)
             /\ ~Engine!Closes(tf, at) => series'[tf].closed = series[tf].closed
             /\ Engine!Closes(tf, at) =>
                   \A ssu, ind, y : Sound(ind, y, series[tf].closed) =>
                       Sound(Engine!Applied(ssu, ind, series[tf].current.end),
                             Engine!Advanced(y, series'[tf].closed), series'[tf].closed)
  <2>1. PICK c, cur : c = series[tf].closed /\ cur = series[tf].current
    OBVIOUS
  <2>2. PICK m, new : m = series'[tf].closed /\ new = series'[tf].current
    OBVIOUS
  <2>3. KeptOf(tf, c, cur, now)
    BY <1>1, <2>1 DEF KeptOK
  <2>4. CASE ~Engine!Closes(tf, at)
    <3>1. m = c /\ (cur # None => new # None /\ new.start = cur.start)
      BY <1>1, <2>1, <2>2, <2>4, SeriesTicks
    <3>2. now \in Int /\ now <= now
      BY <1>3
    <3>3. KeptOf(tf, c, new, now)
      BY <2>3, <3>1, <3>2, StillKept
    <3> QED BY <2>1, <2>2, <2>4, <3>1, <3>3
  <2>5. CASE Engine!Closes(tf, at)
    <3>1. /\ cur # None /\ cur.start \in Int /\ cur.end \in Int
          /\ cur.start < cur.end /\ cur.end <= at
          /\ new # None /\ new.start \in Int /\ cur.start + tf <= new.start
          /\ at < new.start + tf
          /\ m = Engine!Merged(c, cur.end)
      BY <1>1, <2>1, <2>2, <2>5, SeriesTicks
    <3>2. PICK end, start : end = cur.end /\ start = new.start
      OBVIOUS
    <3>3. tf \in Nat \ {0}
      BY EngineConstants
    <3>4. end \in Int /\ end <= now /\ now \in Int /\ start > now - MaxLag - tf
      BY <1>2, <1>3, <3>1, <3>2, <3>3
    <3>5. /\ KeptOf(tf, m, new, now)
          /\ UpTo(c, end) => Newest(m, end)
          /\ \A e \in Int : Newest(c, e) /\ end < e => Newest(m, e)
      BY <2>3, <3>1, <3>2, <3>4, ClosingKeeps
    <3>6. c \in Seq(Int) /\ (c # <<>> => \E e \in Int : Newest(c, e))
      <4>1. c \in Seq(Int)
        BY <2>3 DEF KeptOf
      <4> QED BY <2>3, <4>1, HasNewest
    <3>7. ASSUME NEW ssu, NEW ind, NEW y, Sound(ind, y, c)
          PROVE  Sound(Engine!Applied(ssu, ind, end), Engine!Advanced(y, m), m)
      BY <3>1, <3>2, <3>4, <3>5, <3>6, <3>7, ClosingSound
    <3> QED BY <2>1, <2>2, <2>5, <3>2, <3>5, <3>7
  <2> QED BY <2>4, <2>5
<1>5. ClockOK'
  <2>1. \A s \in Ssus : indicator'[s] = indicator'[s]
    OBVIOUS
  <2>2. indicator' = [s \in Ssus |-> indicator'[s]]
    BY DEF Engine!Tick
  <2> QED BY <1>1, <1>2, <2>2 DEF ClockOK
<1>6. KeptOK'
  BY <1>2, <1>4 DEF KeptOK, Engine!Timeframes
<1>7. ReloadOK'
  BY <1>2 DEF ReloadOK
<1>8. SettledOK'
  <2> SUFFICES ASSUME settled
               PROVE  /\ registered = active /\ active \subseteq Ssus
                      /\ \A s \in active : Sound(indicator'[s], states'[s], ClosedOf(s)')
    BY <1>2 DEF SettledOK
  <2>1. /\ registered = active /\ active \subseteq Ssus
        /\ \A s \in active : Sound(indicator[s], states[s], ClosedOf(s))
    BY <1>1 DEF SettledOK
  <2>2. ASSUME NEW s \in active PROVE Sound(indicator'[s], states'[s], ClosedOf(s)')
    <3>1. PICK tf \in Engine!Timeframes : tf = TimeframeOf[s]
      BY <2>1 DEF Engine!Timeframes
    <3>2. Sound(indicator[s], states[s], series[tf].closed) /\ ClosedOf(s)' = series'[tf].closed
      BY <2>1, <3>1 DEF ClosedOf
    <3>3. s \in Ssus /\ s \in registered
      BY <2>1
    <3>4. CASE Engine!Closes(tf, at)
      <4>1. indicator'[s] = Engine!Applied(s, indicator[s], series[tf].current.end)
        BY <3>1, <3>3, <3>4 DEF Engine!Tick
      <4>2. states'[s] = Engine!Advanced(states[s], series'[tf].closed)
        BY <3>1, <3>3, <3>4 DEF Engine!Tick
      <4> QED BY <1>4, <3>2, <3>4, <4>1, <4>2
    <3>5. CASE ~Engine!Closes(tf, at)
      <4>1. indicator'[s] = indicator[s] /\ states'[s] = states[s]
        BY <3>1, <3>3, <3>5 DEF Engine!Tick
      <4>2. series'[tf].closed = series[tf].closed
        BY <1>4, <3>5
      <4> QED BY <3>2, <4>1, <4>2
    <3> QED BY <3>4, <3>5
  <2> QED BY <2>1, <2>2
<1> QED BY <1>5, <1>6, <1>7, <1>8

(* reset_ssus.                                                             *)
LEMMA BeginKeepsNewest ==
    ASSUME Engine!EngineAssumption, NewestInv, NEW rows \in SUBSET Ssus,
           Engine!BeginReload(rows)
    PROVE  ClockOK' /\ KeptOK' /\ ReloadOK' /\ SettledOK'
<1>1. ClockOK /\ KeptOK
  BY DEF NewestInv
<1>2. /\ reload' = [todo |-> rows, loaded |-> {}, from |-> historyEnd,
                    states |-> [s \in Ssus |-> <<>>]]
      /\ registered' = {} /\ indicator' = [s \in Ssus |-> Engine!NoIndicator]
      /\ settled' = FALSE /\ UNCHANGED <<now, historyEnd, series>>
  BY DEF Engine!BeginReload
<1>3. ClockOK' /\ KeptOK' /\ SettledOK'
  BY <1>1, <1>2 DEF ClockOK, KeptOK, SettledOK, Engine!Timeframes
<1>4. ReloadShape' /\ LoadedOK'
  <2>1. /\ reload'.todo = rows /\ reload'.loaded = {} /\ reload'.from = historyEnd
        /\ reload'.states = [s \in Ssus |-> <<>>]
    BY <1>2
  <2>2. historyEnd \in Nat
    BY <1>1 DEF ClockOK
  <2>3. reload' = [todo |-> reload'.todo, loaded |-> reload'.loaded,
                   from |-> reload'.from, states |-> reload'.states]
    BY <1>2, <2>1
  <2>4. reload'.states = [s \in Ssus |-> reload'.states[s]]
    BY <2>1
  <2>5. \A s \in rows : indicator'[s] = Engine!NoIndicator
    BY <1>2
  <2>6. LoadedOK'
    BY <2>1 DEF LoadedOK
  <2>7. reload'.from <= historyEnd'
    BY <1>2, <2>1, <2>2
  <2>8. Engine!NoIndicator' = Engine!NoIndicator
    BY DEF Engine!NoIndicator
  <2> QED BY <1>2, <2>1, <2>2, <2>3, <2>4, <2>5, <2>6, <2>7, <2>8 DEF ReloadShape
<1>5. ReloadOK'
  BY <1>2, <1>4 DEF ReloadOK
<1> QED BY <1>3, <1>5

(* The reload ends, or fails.                                              *)
LEMMA InstallKeepsNewest ==
    ASSUME NewestInv, Engine!Install
    PROVE  ClockOK' /\ KeptOK' /\ ReloadOK' /\ SettledOK'
<1>1. ClockOK /\ KeptOK /\ ReloadOK
  BY DEF NewestInv
<1>2. /\ reload # None /\ active' = reload.loaded /\ states' = reload.states
      /\ settled' = (historyEnd = reload.from) /\ reload' = None
      /\ UNCHANGED <<now, historyEnd, series, registered, indicator>>
  BY DEF Engine!Install
<1>3. ClockOK' /\ KeptOK' /\ ReloadOK'
  BY <1>1, <1>2 DEF ClockOK, KeptOK, ReloadOK, Engine!Timeframes
<1>4. SettledOK'
  <2> SUFFICES ASSUME historyEnd = reload.from
               PROVE  /\ registered = active' /\ active' \subseteq Ssus
                      /\ \A s \in active' : Sound(indicator[s], states'[s], ClosedOf(s)')
    BY <1>2 DEF SettledOK
  <2>1. ReloadShape /\ LoadedOK
    BY <1>1, <1>2 DEF ReloadOK
  <2>2. \A s \in reload.loaded : Sound(indicator[s], reload.states[s], ClosedOf(s))
    BY <2>1 DEF LoadedOK
  <2>3. \A s \in reload.loaded : ClosedOf(s)' = ClosedOf(s)
    BY <1>2 DEF ClosedOf
  <2> QED BY <1>2, <2>1, <2>2, <2>3 DEF ReloadShape
<1> QED BY <1>3, <1>4

LEMMA AbortKeepsNewest ==
    ASSUME NewestInv, Engine!AbortReload
    PROVE  ClockOK' /\ KeptOK' /\ ReloadOK' /\ SettledOK'
<1>1. ClockOK /\ KeptOK /\ ReloadOK
  BY DEF NewestInv
<1>2. /\ reload # None /\ reload' = None
      /\ UNCHANGED <<now, historyEnd, series, indicator, settled>>
  BY DEF Engine!AbortReload, Engine!ssus
<1>3. ~settled
  BY <1>1, <1>2 DEF ReloadOK
<1> QED BY <1>1, <1>2, <1>3 DEF ClockOK, KeptOK, ReloadOK, SettledOK, Engine!Timeframes

(* An SSU is warmed up.                                                    *)
LEMMA LoadKeepsNewest ==
    ASSUME Engine!EngineAssumption, WideWindows, NewestInv, NEW s \in Ssus, Engine!LoadSsu(s)
    PROVE  ClockOK' /\ KeptOK' /\ ReloadOK' /\ SettledOK'
<1>1. EngineInv /\ ClockOK /\ KeptOK /\ ReloadOK
  BY DEF NewestInv
<1>2. reload # None /\ s \in reload.todo /\ UNCHANGED <<now, historyEnd, active, states, settled>>
  BY DEF Engine!LoadSsu, Engine!ssus
<1>3. ~settled /\ ReloadShape /\ (reload.from = historyEnd => LoadedOK)
  BY <1>1, <1>2 DEF ReloadOK
<1>4. PICK tf \in Engine!Timeframes : tf = TimeframeOf[s]
  BY DEF Engine!Timeframes
<1>5. PICK c, cur : c = series[tf].closed /\ cur = series[tf].current
  OBVIOUS
<1>6. PICK list : list = WarmupOf(tf, c, historyEnd)
  OBVIOUS
<1>7. PICK m : m = Engine!FoldLeft(Engine!Merged, c, list)
  OBVIOUS
<1>8. PICK y : y = Engine!FoldLeft(Engine!Processed, <<>>, Engine!Recent(m, StateCapacity))
  OBVIOUS
<1>9. PICK i : i = EmaAfter(s, Engine!NoIndicator, list)
  OBVIOUS
<1>10. series' = [series EXCEPT ![tf].closed = m]
  BY <1>4, <1>5, <1>6, <1>7 DEF Engine!LoadSsu, WarmupOf
<1>11. indicator' = [indicator EXCEPT ![s] = EmaAfter(s, @, list)]
  BY <1>4, <1>5, <1>6 DEF Engine!LoadSsu, WarmupOf, EmaAfter
<1>12. reload' = [reload EXCEPT !.todo = @ \ {s}, !.loaded = @ \cup {s}, !.states[s] = y]
  BY <1>4, <1>5, <1>6, <1>7, <1>8 DEF Engine!LoadSsu, WarmupOf
<1>13. registered' = registered \cup {s}
  BY DEF Engine!LoadSsu
<1>14. /\ now \in Nat /\ historyEnd \in Nat /\ historyEnd <= now
       /\ KeptOf(tf, c, cur, now)
  BY <1>1, <1>5 DEF ClockOK, KeptOK
<1>15. /\ list \in Seq(Int) /\ KeptOf(tf, m, cur, now)
       /\ list = <<>> => m = c /\ c = <<>>
       /\ list # <<>> => \E e \in Int : Newest(list, e) /\ Newest(m, e)
       /\ c # <<>> => \A e \in Int : Newest(c, e) => Newest(m, e)
       /\ c = <<>> /\ Engine!LoadBars(tf, historyEnd) = <<>> => m = c
       /\ c # <<>> => m # <<>>
  <2>1. PICK h, t : h = historyEnd /\ t = now
    OBVIOUS
  <2>2. h \in Nat /\ t \in Nat /\ h <= t /\ KeptOf(tf, c, cur, t) /\ list = WarmupOf(tf, c, h)
    BY <1>6, <1>14, <2>1
  <2>3. WarmedBy(tf, c, cur, t, h, list, m)
    BY <1>7, <2>2, Warmup
  <2> QED BY <2>1, <2>3 DEF WarmedBy
<1>16. Sound(i, y, m)
  BY <1>8, <1>9, <1>14, <1>15, WarmedSound
<1>17. \A r \in Engine!Timeframes :
           /\ series'[r].closed = (IF r = tf THEN m ELSE series[r].closed)
           /\ series'[r].current = series[r].current
  <2> TAKE r \in Engine!Timeframes
  <2>1. series[r] = [current |-> series[r].current, closed |-> series[r].closed]
    BY <1>1 DEF EngineInv, Current
  <2>2. r \in DOMAIN series
    BY <1>1 DEF EngineInv
  <2>3. PICK a, b : a = series[r].current /\ b = series[r].closed
    OBVIOUS
  <2>4. series[r] = [current |-> a, closed |-> b]
    BY <2>1, <2>3
  <2>5. series'[r] = IF r = tf THEN [series[r] EXCEPT !.closed = m] ELSE series[r]
    BY <1>10, <2>2
  <2> QED BY <2>3, <2>4, <2>5
<1>18. KeptOK'
  <2>1. ASSUME NEW r \in Engine!Timeframes
        PROVE  KeptOf(r, series'[r].closed, series'[r].current, now)
    <3>1. KeptOf(r, series[r].closed, series[r].current, now)
      BY <1>1 DEF KeptOK
    <3> QED BY <1>5, <1>15, <1>17, <3>1
  <2> QED BY <1>2, <2>1 DEF KeptOK, Engine!Timeframes
<1>19. ReloadShape'
  <2>1. PICK todo, loaded, from, st : reload = [todo |-> todo, loaded |-> loaded,
                                                from |-> from, states |-> st]
    BY <1>3 DEF ReloadShape
  <2>2. reload' = [todo |-> todo \ {s}, loaded |-> loaded \cup {s},
                   from |-> from, states |-> [st EXCEPT ![s] = y]]
    BY <1>12, <2>1
  <2>3. /\ reload'.todo = todo \ {s} /\ reload'.loaded = loaded \cup {s}
        /\ reload'.from = from /\ reload'.states = [st EXCEPT ![s] = y]
    BY <2>2
  <2>4. /\ st = [r \in Ssus |-> st[r]] /\ todo \subseteq Ssus /\ loaded \subseteq Ssus
        /\ loaded \cap todo = {} /\ registered = loaded
        /\ from \in Nat /\ from <= historyEnd
        /\ \A r \in todo : indicator[r] = Engine!NoIndicator
    BY <1>3, <2>1 DEF ReloadShape
  <2>5. reload' = [todo |-> reload'.todo, loaded |-> reload'.loaded,
                   from |-> reload'.from, states |-> reload'.states]
    BY <2>2, <2>3
  <2>6. reload'.states = [r \in Ssus |-> reload'.states[r]]
    BY <2>3, <2>4
  <2>7. \A r \in todo \ {s} : indicator'[r] = Engine!NoIndicator
    BY <1>11, <2>4
  <2>8. Engine!NoIndicator' = Engine!NoIndicator
    BY DEF Engine!NoIndicator
  <2> QED BY <1>2, <1>13, <2>3, <2>4, <2>5, <2>6, <2>7, <2>8 DEF ReloadShape
<1>20. ClockOK'
  <2>1. indicator' = [r \in Ssus |-> indicator'[r]]
    BY <1>1, <1>11 DEF ClockOK
  <2> QED BY <1>1, <1>2, <2>1 DEF ClockOK
<1>21. ASSUME reload'.from = historyEnd PROVE LoadedOK'
  <2>1. reload.from = historyEnd
    <3>1. reload'.from = reload.from
      BY <1>3, <1>12 DEF ReloadShape
    <3> QED BY <1>21, <3>1
  <2>2. LoadedOK
    BY <1>3, <2>1
  <2>3. reload'.loaded = reload.loaded \cup {s} /\ reload.loaded \subseteq Ssus /\ s \notin reload.loaded
    BY <1>2, <1>3, <1>12 DEF ReloadShape
  <2>4. /\ \A r \in Ssus : reload'.states[r] = IF r = s THEN y ELSE reload.states[r]
        /\ \A r \in Ssus : indicator'[r] = IF r = s THEN i ELSE indicator[r]
    <3>1. reload.states = [r \in Ssus |-> reload.states[r]] /\ indicator[s] = Engine!NoIndicator
      BY <1>2, <1>3 DEF ReloadShape
    <3>2. reload'.states = [reload.states EXCEPT ![s] = y]
      BY <1>3, <1>12 DEF ReloadShape
    <3>3. indicator = [r \in Ssus |-> indicator[r]]
      BY <1>1 DEF ClockOK
    <3>4. indicator' = [indicator EXCEPT ![s] = i]
      BY <1>9, <1>11, <3>1
    <3> QED BY <3>1, <3>2, <3>3, <3>4
  <2>5. ASSUME NEW r \in reload.loaded \cup {s}
        PROVE  /\ Sound(indicator'[r], reload'.states[r], ClosedOf(r)')
               /\ ClosedOf(r)' = <<>> => Engine!LoadBars(TimeframeOf[r], historyEnd) = <<>>
    <3>1. PICK rf \in Engine!Timeframes : rf = TimeframeOf[r]
      BY <2>3 DEF Engine!Timeframes
    <3>2. ClosedOf(r)' = IF rf = tf THEN m ELSE series[rf].closed
      BY <1>17, <3>1 DEF ClosedOf
    <3>3. CASE r = s
      <4>1. Sound(indicator'[r], reload'.states[r], ClosedOf(r)')
        BY <1>4, <1>16, <2>4, <3>1, <3>2, <3>3
      <4>2. ASSUME m = <<>> PROVE Engine!LoadBars(tf, historyEnd) = <<>>
        <5>1. c = <<>>
          BY <1>15, <4>2
        <5>2. Engine!Recent(c, WarmupBars) = <<>>
          <6>1. WarmupBars \in Nat \ {0} /\ c \in Seq(Int) /\ 0 \in Int
            BY <1>14 DEF Engine!EngineAssumption, KeptOf
          <6> QED BY <5>1, <6>1, RecentKeeps
        <5>3. list = Engine!LoadBars(tf, historyEnd)
          BY <1>6, <5>2 DEF WarmupOf
        <5>4. ASSUME list # <<>> PROVE FALSE
          <6>1. PICK e \in Int : Newest(m, e)
            BY <1>15, <5>4
          <6>2. Len(m) = 0
            BY <4>2
          <6> QED BY <6>1, <6>2 DEF Newest, HasEnd
        <5> QED BY <5>3, <5>4
      <4> QED BY <1>4, <3>1, <3>2, <3>3, <4>1, <4>2
    <3>4. CASE r # s
      <4>1. /\ Sound(indicator[r], reload.states[r], series[rf].closed)
            /\ series[rf].closed = <<>> => Engine!LoadBars(rf, historyEnd) = <<>>
        BY <2>2, <3>1, <3>4 DEF LoadedOK, ClosedOf
      <4>2. indicator'[r] = indicator[r] /\ reload'.states[r] = reload.states[r]
        BY <2>3, <2>4, <3>4
      <4>3. CASE rf # tf
        BY <3>1, <3>2, <4>1, <4>2, <4>3
      <4>4. CASE rf = tf
        <5>1. PICK p, q : p = indicator[r] /\ q = reload.states[r]
          OBVIOUS
        <5>2. Sound(p, q, c) /\ (c = <<>> => Engine!LoadBars(tf, historyEnd) = <<>>)
          BY <1>5, <4>1, <4>4, <5>1
        <5>3. CASE c = <<>>
          <6>1. m = c
            BY <1>15, <5>2, <5>3
          <6> QED BY <3>1, <3>2, <4>2, <4>4, <5>1, <5>2, <6>1
        <5>4. CASE c # <<>>
          <6>1. PICK e \in Int : Newest(c, e)
            BY <1>14, <5>4, HasNewest
          <6>2. Newest(m, e) /\ m # <<>>
            BY <1>15, <5>4, <6>1
          <6>3. \A x \in Int : Newest(m, x) => x = e
            BY <6>2, OneNewest
          <6>4. Sound(p, q, m)
            BY <5>2, <6>1, <6>2, <6>3 DEF Sound
          <6> QED BY <3>1, <3>2, <4>2, <4>4, <5>1, <6>2, <6>4
        <5> QED BY <5>3, <5>4
      <4> QED BY <4>3, <4>4
    <3> QED BY <3>3, <3>4
  <2> QED BY <1>2, <2>3, <2>5 DEF LoadedOK
<1>22. ReloadOK' /\ SettledOK'
  BY <1>2, <1>3, <1>19, <1>21 DEF ReloadOK, SettledOK
<1> QED BY <1>18, <1>20, <1>22

LEMMA NewestSteps ==
    ASSUME Engine!EngineAssumption, WideWindows, NewestInv, [Engine!Next]_(Engine!vars)
    PROVE  NewestInv'
<1>1. EngineInv'
  BY EngineSteps DEF NewestInv
<1>2. ClockOK
  BY DEF NewestInv
<1> SUFFICES ClockOK' /\ KeptOK' /\ ReloadOK' /\ SettledOK'
  BY <1>1 DEF NewestInv
<1>3. CASE Engine!Pass
  <2>1. /\ now' = now + 1 /\ historyEnd' = historyEnd
        /\ UNCHANGED <<series, registered, indicator, reload, active, states, settled>>
    BY <1>3 DEF Engine!Pass, Engine!ssus
  <2> QED BY <2>1, QuietKeeps
<1>4. CASE Engine!StoreHistory
  <2>1. /\ historyEnd < now /\ historyEnd' = now /\ now' = now
        /\ UNCHANGED <<series, registered, indicator, reload, active, states, settled>>
    BY <1>4 DEF Engine!StoreHistory, Engine!ssus
  <2> QED BY <2>1, QuietKeeps
<1>5. CASE Engine!Install
  BY <1>5, InstallKeepsNewest
<1>6. CASE Engine!AbortReload
  BY <1>6, AbortKeepsNewest
<1>7. CASE \E at \in 0..MaxTime, ltp \in Prices : at >= now - MaxLag /\ Engine!Tick(at, ltp)
  BY <1>7, TickKeepsNewest
<1>8. CASE \E rows \in SUBSET Ssus : Engine!BeginReload(rows)
  BY <1>8, BeginKeepsNewest
<1>9. CASE \E s \in Ssus : Engine!LoadSsu(s)
  BY <1>9, LoadKeepsNewest
<1>10. CASE UNCHANGED Engine!vars
  <2>1. /\ historyEnd' = historyEnd /\ now' = now
        /\ UNCHANGED <<series, registered, indicator, reload, active, states, settled>>
    BY <1>10 DEF Engine!vars, Engine!ssus
  <2> QED BY <2>1, QuietKeeps
<1> QED BY <1>3, <1>4, <1>5, <1>6, <1>7, <1>8, <1>9, <1>10 DEF Engine!Next

LEMMA NewestInvariant ==
    ASSUME Engine!EngineAssumption, WideWindows
    PROVE  Engine!Spec => []NewestInv
<1>1. Engine!Init => NewestInv
  BY NewestStarts
<1>2. NewestInv /\ [Engine!Next]_(Engine!vars) => NewestInv'
  BY NewestSteps
<1> QED BY <1>1, <1>2, PTL DEF Engine!Spec

LEMMA NewestSays ==
    ASSUME NewestInv
    PROVE  NewestIsApplied
<1> SUFFICES ASSUME settled, NEW s \in active, series[TimeframeOf[s]].closed # <<>>
             PROVE  LET closed == series[TimeframeOf[s]].closed
                        newest == Max({closed[k] : k \in DOMAIN closed})
                        applied == indicator[s].applied
                    IN  /\ \E k \in DOMAIN applied : applied[k] = newest
                        /\ states[s] # <<>> /\ states[s][Len(states[s])] = newest
  BY DEF NewestIsApplied
<1>1. PICK tf \in Engine!Timeframes : tf = TimeframeOf[s]
  BY DEF NewestInv, SettledOK, Engine!Timeframes
<1>2. PICK c, ind, y : c = series[tf].closed /\ ind = indicator[s] /\ y = states[s]
  OBVIOUS
<1>3. Sound(ind, y, c) /\ c # <<>>
  BY <1>1, <1>2 DEF NewestInv, SettledOK, ClosedOf
<1>4. KeptOf(tf, c, series[tf].current, now)
  BY <1>2 DEF NewestInv, KeptOK
<1>5. c \in Seq(Int)
  BY <1>4 DEF KeptOf
<1>6. PICK e \in Int : Newest(c, e)
  BY <1>3, <1>4, HasNewest
<1>7. Newest(ind.applied, e) /\ y # <<>> /\ Engine!Last(y) = e
  BY <1>3, <1>6 DEF Sound
<1>8. Max({c[k] : k \in DOMAIN c}) = e
  <2>1. DOMAIN c = 1..Len(c) /\ \A k \in 1..Len(c) : c[k] \in Int /\ c[k] <= e
    BY <1>5, <1>6, LenProperties, ElementOfSeq DEF Newest, UpTo
  <2>2. PICK k \in 1..Len(c) : c[k] = e
    BY <1>6 DEF Newest, HasEnd
  <2> DEFINE S == {c[j] : j \in DOMAIN c}
  <2>3. e \in S /\ \A x \in S : x \in Int /\ e >= x
    BY <2>1, <2>2
  <2> HIDE DEF S
  <2>4. Max(S) \in S /\ \A x \in S : Max(S) >= x
    BY <2>3 DEF Max
  <2>5. Max(S) = e
    <3>1. PICK x : x = Max(S)
      OBVIOUS
    <3>2. x \in Int /\ e >= x /\ x >= e
      BY <2>3, <2>4, <3>1
    <3> QED BY <3>1, <3>2
  <2> QED BY <2>5 DEF S
<1>9. \E k \in DOMAIN ind.applied : ind.applied[k] = e
  <2>1. ind.applied \in Seq(Int)
    BY <1>3 DEF Sound, EmaOK, Emas
  <2>2. DOMAIN ind.applied = 1..Len(ind.applied)
    BY <2>1, LenProperties
  <2> QED BY <1>7, <2>2 DEF Newest, HasEnd
<1>10. y[Len(y)] = e
  BY <1>7 DEF Engine!Last
<1> QED BY <1>1, <1>2, <1>7, <1>8, <1>9, <1>10

(* After a successful reload, during which nothing was stored, the newest  *)
(* closed bar of a timeframe has been applied to the EMA and processed by  *)
(* the state of every active SSU (reload_ssus, update_indicators,          *)
(* advance_state), if no tick is late by as many bars as are kept.         *)
THEOREM NewestAlwaysApplied ==
    ASSUME Engine!EngineAssumption, WideWindows
    PROVE  Engine!Spec => []NewestIsApplied
<1>1. NewestInv => NewestIsApplied
  BY NewestSays
<1> QED BY <1>1, NewestInvariant, PTL
=============================================================================
