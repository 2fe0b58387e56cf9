-------------------------- MODULE BrokerDay_proofs --------------------------
(***************************************************************************)
(* What the clockwork keeps for every configuration of brokers, exchanges  *)
(* and times of the day: masters are whole, the files of the day are of    *)
(* the day, no expired contract is picked, a feed sleeps no longer than    *)
(* its exchanges.                                                          *)
(***************************************************************************)
EXTENDS BrokerDay, FiniteSetTheorems, SequenceTheorems, WellFoundedInduction,
        NaturalsInduction, TLAPS

-----------------------------------------------------------------------------
(* The calendar.                                                           *)

(* Later moments are on later days, by both clocks.                        *)
LEMMA DaysAscend ==
    ASSUME NEW x \in Nat, NEW y \in Nat, x <= y
    PROVE  /\ UtcDay(x) \in Nat /\ UtcDay(x) <= UtcDay(y)
           /\ IstDay(x) \in Nat /\ IstDay(x) <= IstDay(y)
<1>1. Day \in Nat \ {0} /\ Ist \in Nat
  BY DayAssumption
<1> DEFINE D == Day
<1>2. D \in Nat \ {0}
  BY <1>1
<1> HIDE DEF D
<1>3. x \div D \in Nat /\ x \div D <= y \div D
  BY <1>2
<1>4. (x + Ist) \div D \in Nat /\ (x + Ist) \div D <= (y + Ist) \div D
  <2> DEFINE a == x + Ist
             b == y + Ist
  <2>1. a \in Nat /\ b \in Nat /\ a <= b
    BY <1>1
  <2> HIDE DEF a, b
  <2>2. a \div D \in Nat /\ a \div D <= b \div D
    BY <1>2, <2>1
  <2> QED BY <2>2 DEF a, b
<1> QED BY <1>3, <1>4 DEF D, UtcDay, IstDay

(* The run of an Indian day falls on the same day in UTC: no run is before *)
(* 05:30 local time.                                                       *)
LEMMA RunTimeDay ==
    ASSUME NEW j \in Jobs, NEW d \in Nat
    PROVE  RunTime(j, d) \in Nat /\ UtcDay(RunTime(j, d)) = d /\ IstDay(RunTime(j, d)) = d
<1>1. Day \in Nat /\ Ist \in Nat /\ RunsAt[j] \in Ist..(Day - 1) /\ 0 < Ist /\ Ist < Day
  BY DayAssumption
<1> DEFINE m == d * Day
           r == RunsAt[j]
<1>2. m \in Nat /\ r \in Int /\ Ist <= r /\ r < Day
  BY <1>1
<1>3. RunTime(j, d) = m + (r - Ist) /\ m + (r - Ist) \in Nat
  BY <1>2, <1>1 DEF RunTime
<1>4. \A k \in 0..(Day - 1) : (m + k) \div Day = d
  BY <1>1
<1>5. r - Ist \in 0..(Day - 1) /\ r \in 0..(Day - 1) /\ (m + (r - Ist)) + Ist = m + r
  BY <1>1, <1>2
<1> QED BY <1>3, <1>4, <1>5 DEF UtcDay, IstDay

(* A set of numbers not below some number has a least one.                 *)
LEMMA LeastOf ==
    ASSUME NEW b \in Int, NEW T \in SUBSET Int, T # {}, \A x \in T : b <= x
    PROVE  Min(T) \in T /\ \A y \in T : Min(T) <= y
<1> DEFINE S == {n \in Nat : b + n \in T}
<1>1. S \subseteq Nat /\ S # {}
  <2>1. PICK x \in T : TRUE
    OBVIOUS
  <2>2. x - b \in Nat /\ b + (x - b) = x
    BY <2>1
  <2> QED BY <2>1, <2>2
<1>2. PICK n \in S : \A m \in S : ~(<<m, n>> \in OpToRel(<, Nat))
  <2> HIDE DEF S
  <2> QED BY <1>1, NatLessThanWellFounded, WFMin
<1>3. \A y \in T : b + n <= y
  <2> TAKE y \in T
  <2>1. y - b \in Nat /\ b + (y - b) = y
    OBVIOUS
  <2>2. y - b \in S
    BY <2>1
  <2>3. ~(y - b < n)
    BY <2>1, <2>2, <1>1, <1>2 DEF OpToRel
  <2> QED BY <2>1, <2>3, <1>1
<1>4. b + n \in T
  OBVIOUS
<1> QED BY <1>3, <1>4 DEF Min

(* The later of two moments.                                               *)
LEMMA LaterOf ==
    ASSUME NEW x \in Int, NEW y \in Int
    PROVE  Max({x, y}) = IF x >= y THEN x ELSE y
<1>1. \E m \in {x, y} : \A z \in {x, y} : m >= z
  OBVIOUS
<1>2. Max({x, y}) \in {x, y} /\ \A z \in {x, y} : Max({x, y}) >= z
  BY <1>1 DEF Max
<1> QED BY <1>2

(* Multiples of a day ascend.                                              *)
LEMMA Multiples ==
    ASSUME NEW c \in Nat, NEW d \in Nat, c <= d
    PROVE  c * Day \in Nat /\ d * Day \in Nat /\ c * Day <= d * Day
<1>1. Day \in Nat
  BY DayAssumption
<1>2. (d - c) * Day \in Nat /\ d * Day = c * Day + (d - c) * Day
  BY <1>1
<1> QED BY <1>1, <1>2

(* A moment is in its day, between the first second and the last.          *)
LEMMA InItsDay ==
    ASSUME NEW x \in Nat, NEW d \in Nat
    PROVE  /\ x \div Day \in Nat /\ x % Day \in 0..(Day - 1)
           /\ x = (x \div Day) * Day + (x % Day)
           /\ \A s \in 0..(Day - 1) : x = d * Day + s => x \div Day = d /\ x % Day = s
<1>1. Day \in Nat \ {0}
  BY DayAssumption
<1> DEFINE D == Day
<1>2. D \in Nat \ {0}
  BY <1>1
<1> HIDE DEF D
<1>3. x \div D \in Nat /\ x % D \in 0..(D - 1)
  BY <1>2
<1>4. x = (x \div D) * D + (x % D)
  <2> DEFINE q == x \div D
             r == x % D
  <2>1. q \in Nat /\ r \in Nat /\ r = x % D /\ q = x \div D
    BY <1>3
  <2>2. x % D = x - (x \div D) * D
    BY <1>2
  <2>3. r = x - q * D
    BY <2>2
  <2> HIDE DEF q, r
  <2>4. q * D \in Nat
    BY <2>1, <1>2
  <2>5. x = q * D + r
    BY <2>1, <2>3, <2>4
  <2> QED BY <2>5 DEF q, r
<1>5. ASSUME NEW s \in 0..(D - 1), x = d * D + s PROVE x \div D = d
  BY <1>2, <1>5
<1>6. ASSUME NEW s \in 0..(D - 1), x = d * D + s PROVE x % D = s
  <2>1. x \div D = d
    BY <1>5, <1>6
  <2> QED BY <2>1, <1>4, <1>3, <1>2, <1>6
<1> QED BY <1>3, <1>4, <1>5, <1>6 DEF D

(* One of the next three days is a weekday.                                *)
LEMMA SoonWeekday ==
    ASSUME NEW d \in Nat
    PROVE  \E k \in 1..3 : Weekday(d + k)
<1>1. (d + 1 + 3) % 7 <= 4 \/ (d + 2 + 3) % 7 <= 4 \/ (d + 3 + 3) % 7 <= 4
  OBVIOUS
<1> QED BY <1>1 DEF Weekday

(* next_open_utc: the first moment from now on at which is_active_at turns *)
(* true, for an exchange that is closed now.                               *)
LEMMA NextOpenIs ==
    ASSUME NEW e \in DOMAIN Policies, NEW x \in Nat, ~IsActive(Policies[e], x)
    PROVE  LET p == Policies[e]
               o == NextOpen(p, x)
           IN  /\ o \in Nat /\ x <= o
               /\ p.always => p.weekdays /\ o = x
               /\ ~p.always => /\ x < o /\ IsActive(p, o)
                               /\ \A y \in Nat : x <= y /\ y < o => ~IsActive(p, y)
<1> DEFINE p == Policies[e]
<1>1. /\ p.offset \in Nat /\ {p.always, p.weekdays} \subseteq BOOLEAN
      /\ {p.open, p.close, p.before} \subseteq Nat
      /\ p.before <= p.open /\ p.open < p.close /\ p.close <= Day /\ Day \in Nat \ {0}
  BY DayAssumption
<1>2. ~IsActive(p, x)
  OBVIOUS
<1> HIDE DEF p
<1>3. CASE p.always
  <2>1. NextOpen(p, x) = x
    BY <1>3 DEF NextOpen
  <2>2. p.weekdays
    BY <1>1, <1>2, <1>3 DEF IsActive
  <2> QED BY <2>1, <2>2, <1>3 DEF p
<1>4. CASE ~p.always
  <2> DEFINE L(y) == LocalDay(p, y)
             first(d) == d * Day + (p.open - p.before) - p.offset
             end(d) == d * Day + p.close - p.offset
             days == {d \in Fortnight(LocalDay(p, x)) :
                         (p.weekdays => Weekday(d)) /\ x < ToUtc(p, d, p.close)}
             m == Min(days)
             o == first(m)
  <2>1. ASSUME NEW y \in Nat
        PROVE  /\ L(y) \in Nat
               /\ y + p.offset = L(y) * Day + LocalSecond(p, y)
               /\ LocalSecond(p, y) \in 0..(Day - 1)
               /\ L(y) * Day \in Nat
    <3> DEFINE w == y + p.offset
    <3>1. w \in Nat
      BY <1>1
    <3>2. L(y) = w \div Day /\ LocalSecond(p, y) = w % Day
      BY DEF LocalDay, LocalSecond
    <3> HIDE DEF w, L
    <3>3. w \div Day \in Nat /\ w % Day \in 0..(Day - 1) /\ w = (w \div Day) * Day + (w % Day)
      BY <3>1, InItsDay
    <3>4. L(y) \in Nat /\ L(y) * Day \in Nat
      BY <3>2, <3>3, Multiples, <1>1
    <3>5. w = L(y) * Day + LocalSecond(p, y) /\ LocalSecond(p, y) \in 0..(Day - 1)
      BY <3>2, <3>3
    <3> QED BY <3>4, <3>5 DEF w
  <2>2. ASSUME NEW y \in Nat, NEW d \in Nat, first(d) <= y, y < end(d)
        PROVE  L(y) = d /\ LocalSecond(p, y) = y + p.offset - d * Day
    <3>1. d * Day \in Nat
      BY Multiples
    <3>2. y + p.offset - d * Day \in 0..(Day - 1) /\ y + p.offset \in Nat
      BY <3>1, <1>1, <2>2
    <3>3. y + p.offset = d * Day + (y + p.offset - d * Day)
      BY <3>1, <1>1
    <3> HIDE DEF L, first, end
    <3> QED BY <3>2, <3>3, InItsDay DEF LocalDay, LocalSecond, L
  <2>3. ASSUME NEW y \in Nat
        PROVE  IsActive(p, y) <=> /\ p.weekdays => Weekday(L(y))
                                  /\ first(L(y)) <= y /\ y < end(L(y))
    <3> DEFINE s == LocalSecond(p, y)
               l == L(y)
    <3>1. l \in Nat /\ s \in 0..(Day - 1) /\ y + p.offset = l * Day + s /\ l * Day \in Nat
      BY <2>1
    <3>2. IsActive(p, y) <=> (p.weekdays => Weekday(l)) /\ s \in (p.open - p.before)..(p.close - 1)
      BY <1>4 DEF IsActive
    <3> HIDE DEF s, l
    <3>3. s \in (p.open - p.before)..(p.close - 1) <=> first(l) <= y /\ y < end(l)
      BY <3>1, <1>1
    <3> QED BY <3>2, <3>3 DEF l
  <2>4. ASSUME NEW c \in Nat, NEW d \in Nat, c < d PROVE c * Day + Day <= d * Day /\ c * Day \in Nat /\ d * Day \in Nat
    <3>1. (c + 1) * Day <= d * Day /\ (c + 1) * Day = c * Day + Day /\ c * Day \in Nat /\ d * Day \in Nat
      BY <1>1, <2>4, Multiples
    <3> QED BY <3>1
  <2>5. days # {} /\ days \subseteq Nat /\ \A d \in days : 0 <= d
    <3>1. PICK k \in 1..3 : Weekday(L(x) + k)
      BY <2>1, SoonWeekday
    <3>2. L(x) + k \in Nat /\ L(x) < L(x) + k /\ L(x) + k \in L(x)..(L(x) + 13)
      BY <2>1
    <3>3. L(x) * Day + Day <= (L(x) + k) * Day /\ (L(x) + k) * Day \in Nat
      BY <3>2, <2>1, <2>4
    <3>4. x < ToUtc(p, L(x) + k, p.close)
      <4> DEFINE a == (L(x) + k) * Day
                 b == L(x) * Day
      <4>1. a \in Nat /\ b \in Nat /\ b + Day <= a
        BY <3>3, <2>1
      <4>2. x + p.offset < b + Day
        BY <2>1, <1>1
      <4>3. ToUtc(p, L(x) + k, p.close) = a + p.close - p.offset
        BY DEF ToUtc
      <4> HIDE DEF a, b
      <4> QED BY <4>1, <4>2, <4>3, <1>1
    <3>5. L(x) + k \in days
      BY <3>1, <3>2, <3>4 DEF Fortnight
    <3>6. \A d \in days : d \in Nat
      BY <2>1 DEF Fortnight
    <3> QED BY <3>5, <3>6
  <2>6. m \in days /\ \A d \in days : m <= d
    <3> HIDE DEF days
    <3>1. days \in SUBSET Int /\ days # {} /\ 0 \in Int /\ \A d \in days : 0 <= d
      BY <2>5
    <3> QED BY <3>1, LeastOf DEF m
  <2>7. m \in Nat /\ m \in L(x)..(L(x) + 13) /\ (p.weekdays => Weekday(m)) /\ x < end(m)
    BY <2>6, <2>5 DEF Fortnight, ToUtc
  <2>8. x < o
    <3>1. m * Day \in Nat
      BY <2>7, Multiples
    <3> SUFFICES ASSUME first(m) <= x PROVE FALSE
      BY <3>1, <1>1
    <3>2. L(x) = m
      BY <2>2, <2>7
    <3> QED BY <3>2, <2>3, <2>7, <1>2
  <2>9. NextOpen(p, x) = o /\ o \in Nat
    <3>1. m * Day \in Nat
      BY <2>7, Multiples
    <3>2. o \in Int /\ o \in Nat
      BY <3>1, <1>1, <2>8
    <3>3. ToUtc(p, m, p.open - p.before) = o
      BY DEF ToUtc
    <3>4. NextOpen(p, x) = Max({x, ToUtc(p, m, p.open - p.before)})
      BY <1>4, <2>5 DEF NextOpen
    <3> HIDE DEF o, m
    <3>5. NextOpen(p, x) = IF x >= o THEN x ELSE o
      BY <3>2, <3>3, <3>4, LaterOf
    <3> QED BY <3>5, <3>2, <2>8
  <2>10. IsActive(p, o)
    <3>1. m * Day \in Nat /\ first(m) <= o /\ o < end(m)
      BY <2>7, <1>1, Multiples
    <3>2. L(o) = m
      BY <3>1, <2>2, <2>7, <2>9
    <3> QED BY <3>1, <3>2, <2>3, <2>7, <2>9
  <2>11. ASSUME NEW y \in Nat, x <= y, y < o, IsActive(p, y) PROVE FALSE
    <3>1. (p.weekdays => Weekday(L(y))) /\ first(L(y)) <= y /\ y < end(L(y)) /\ L(y) \in Nat
      BY <2>11, <2>3, <2>1
    <3>2. L(x) <= L(y)
      <4>1. x + p.offset \in Nat /\ y + p.offset \in Nat /\ x + p.offset <= y + p.offset
        BY <1>1, <2>11
      <4> QED BY <4>1, DaysAscend DEF LocalDay, UtcDay
    <3>3. L(y) <= m
      <4> SUFFICES ASSUME m < L(y) PROVE FALSE
        BY <3>1, <2>7
      <4>1. m * Day + Day <= L(y) * Day /\ m * Day \in Nat /\ L(y) * Day \in Nat
        BY <2>4, <2>7, <3>1
      <4>2. o < m * Day + Day - p.offset
        BY <4>1, <1>1
      <4>3. L(y) * Day <= y + p.offset
        BY <2>1
      <4> HIDE DEF o, m, L
      <4> QED BY <4>1, <4>2, <4>3, <2>11, <2>9, <1>1
    <3>4. L(y) \in days
      <4>1. L(y) \in Fortnight(LocalDay(p, x))
        BY <3>1, <3>2, <3>3, <2>7, <2>1 DEF Fortnight
      <4>2. x < ToUtc(p, L(y), p.close)
        <5>1. ToUtc(p, L(y), p.close) = end(L(y)) /\ L(y) * Day \in Nat
          BY <2>1 DEF ToUtc
        <5> QED BY <5>1, <3>1, <2>11, <1>1
      <4> QED BY <4>1, <4>2, <3>1
    <3>5. L(y) = m
      <4> HIDE DEF days, m, L
      <4>1. m <= L(y)
        BY <3>4, <2>6
      <4> QED BY <4>1, <3>3, <3>1, <2>7
    <3> QED BY <3>5, <3>1, <2>11, <2>9
  <2> QED BY <2>8, <2>9, <2>10, <2>11, <1>4 DEF p
<1> QED BY <1>3, <1>4, <1>1

(* The sleep of a feed: until the moment some exchange of its opens, or a  *)
(* slot where an exchange is always open on weekdays only.                 *)
LEMMA WakeTimeIs ==
    ASSUME NEW E, NEW x \in Nat, ~InSession(E, x)
    PROVE  LET w == WakeTime(E, x)
           IN  /\ w \in Nat /\ x < w
               /\ \A y \in Nat : x <= y /\ y < w => ~InSession(E, y)
               /\ InSession(E, w) \/ Spinning(E)
<1> DEFINE open(e) == NextOpen(Policies[e], x)
           all == {open(e) : e \in E}
           w == WakeTime(E, x)
           m == Min(all)
<1>1. E # {} /\ \A e \in E : e \in DOMAIN Policies /\ ~IsActive(Policies[e], x)
  BY DEF InSession
<1>2. \A e \in E : /\ open(e) \in Nat /\ x <= open(e)
                   /\ Policies[e].always => Policies[e].weekdays /\ open(e) = x
                   /\ ~Policies[e].always =>
                         /\ x < open(e) /\ IsActive(Policies[e], open(e))
                         /\ \A y \in Nat : x <= y /\ y < open(e) => ~IsActive(Policies[e], y)
  BY <1>1, NextOpenIs
<1>3. all \in SUBSET Int /\ all # {} /\ \A o \in all : x <= o
  BY <1>1, <1>2
<1>4. m \in all /\ \A o \in all : m <= o
  <2>1. x \in Int
    OBVIOUS
  <2> HIDE DEF all
  <2> QED BY <1>3, <2>1, LeastOf
<1>5. PICK a \in E : m = open(a)
  BY <1>4
<1>6. m \in Nat /\ x <= m /\ \A e \in E : m <= open(e)
  BY <1>2, <1>4, <1>5
<1>7. w = IF x + 1 >= m THEN x + 1 ELSE m
  <2>1. None \notin all
    <3>1. None \notin Int
      BY NoneAssumption
    <3> HIDE DEF all
    <3> QED BY <3>1, <1>3
  <2>2. {NextOpen(Policies[e], x) : e \in E} \ {None} = all
    BY <2>1
  <2>3. w = Max({x + 1, m})
    BY <2>2, <1>3 DEF WakeTime
  <2> HIDE DEF w, m
  <2> QED BY <2>3, <1>6, LaterOf
<1> HIDE DEF w, m, all, open
<1>8. w \in Nat /\ x < w
  BY <1>6, <1>7
<1>9. CASE \E e \in E : Policies[e].always
  <2>1. PICK e \in E : Policies[e].always
    BY <1>9
  <2>2. open(e) = x /\ Policies[e].weekdays
    BY <2>1, <1>2
  <2>3. w = x + 1
    BY <2>2, <1>6, <1>7
  <2>4. \A y \in Nat : x <= y /\ y < w => y = x
    BY <2>3
  <2>5. Spinning(E)
    BY <2>1, <2>2 DEF Spinning
  <2> QED BY <2>4, <2>5, <1>8 DEF w
<1>10. CASE \A e \in E : ~Policies[e].always
  <2>1. w = m /\ \A e \in E : w <= open(e)
    BY <1>10, <1>2, <1>5, <1>6, <1>7
  <2>2. InSession(E, w)
    BY <2>1, <1>5, <1>2, <1>10 DEF InSession
  <2>3. ASSUME NEW y \in Nat, x <= y, y < w PROVE ~InSession(E, y)
    <3>1. ASSUME NEW e \in E PROVE e \in DOMAIN Policies /\ ~IsActive(Policies[e], y)
      <4>1. y < open(e)
        BY <2>3, <2>1, <1>2, <1>8
      <4> QED BY <4>1, <2>3, <1>1, <1>2, <1>10
    <3> QED BY <3>1, <1>1 DEF InSession
  <2> QED BY <2>2, <2>3, <1>8 DEF w
<1> QED BY <1>9, <1>10

(* The next run is no later than any run within the fortnight.             *)
LEMMA NextRunIs ==
    ASSUME setup.weekdays \in BOOLEAN, NEW j \in Jobs, NEW x \in Nat
    PROVE  /\ NextRun(j, x) \in Int
           /\ \A d \in Nat : (/\ IstDay(x) <= d /\ d <= IstDay(x) + 13
                              /\ RunDay(d) /\ x < RunTime(j, d)) => NextRun(j, x) <= RunTime(j, d)
<1> DEFINE days == {d \in Fortnight(IstDay(x)) : RunDay(d) /\ RunTime(j, d) > x}
<1>1. IstDay(x) \in Nat
  BY DaysAscend
<1>2. days \subseteq Nat /\ \A d \in days : 0 <= d
  BY <1>1 DEF Fortnight
<1>3. CASE days = {}
  <2>1. NextRun(j, x) = x + Day
    BY <1>3 DEF NextRun
  <2>2. ASSUME NEW d \in Nat, IstDay(x) <= d, d <= IstDay(x) + 13, RunDay(d), x < RunTime(j, d)
        PROVE  FALSE
    <3>1. RunTime(j, d) \in Nat
      BY RunTimeDay
    <3>2. d \in days
      BY <2>2, <3>1, <1>1 DEF Fortnight
    <3> QED BY <3>2, <1>3
  <2> QED BY <2>1, <2>2, DayAssumption
<1>4. CASE days # {}
  <2> DEFINE m == Min(days)
  <2>1. m \in days /\ \A d \in days : m <= d
    <3> HIDE DEF days
    <3>1. days \in SUBSET Int
      BY <1>2
    <3> QED BY <3>1, <1>2, <1>4, LeastOf
  <2>2. NextRun(j, x) = RunTime(j, m) /\ m \in Nat
    BY <1>4, <2>1, <1>2 DEF NextRun
  <2> HIDE DEF m
  <2>3. RunTime(j, m) \in Nat
    BY <2>2, RunTimeDay
  <2>4. ASSUME NEW d \in Nat, IstDay(x) <= d, d <= IstDay(x) + 13, RunDay(d), x < RunTime(j, d)
        PROVE  RunTime(j, m) <= RunTime(j, d)
    <3>1. RunTime(j, d) \in Nat
      BY RunTimeDay
    <3>2. d \in days
      BY <2>4, <3>1, <1>1 DEF Fortnight
    <3>3. m * Day \in Nat /\ d * Day \in Nat /\ m * Day <= d * Day
      BY <3>2, <2>1, <2>2, Multiples
    <3>4. RunsAt[j] - Ist \in Int
      BY DayAssumption
    <3>5. RunTime(j, m) = m * Day + (RunsAt[j] - Ist) /\ RunTime(j, d) = d * Day + (RunsAt[j] - Ist)
      BY <3>3, DayAssumption DEF RunTime
    <3> QED BY <3>3, <3>4, <3>5
  <2> QED BY <2>2, <2>3, <2>4
<1> QED BY <1>3, <1>4

-----------------------------------------------------------------------------
(* The inductive invariant.                                                *)

States == {"off", "work", "fetch", "write", "asleep", "down", "live"}
Busy(t) == thread[t].pc \in {"work", "fetch", "write"}

ThreadRecord == [pc : States, queue : Seq(Brokers), todo : Seq(Files), until : Int,
                 began : Nat, answer : SUBSET Expiries]

DayTypes ==
    /\ setup \in Setups /\ now \in Nat
    /\ thread \in [Threads -> ThreadRecord]
    /\ file \in [Files -> Contents \cup {None}]
    /\ tmp = [f \in Streamed |-> tmp[f]]
    /\ picks = [b \in Brokers |-> picks[b]]
    /\ raced = [j \in Jobs |-> raced[j]]

(* DB International's second master is behind its first one.               *)
Paired(todo) ==
    \A i \in DOMAIN todo : todo[i] = DbMasters[1] =>
        i + 1 \in DOMAIN todo /\ todo[i + 1] = DbMasters[2]

(* The file is not of a day before that of x, by the day that counts.      *)
Fresh(f, x) ==
    /\ file[f] # None
    /\ IF f \in Streamed THEN file[f].utc >= UtcDay(x) ELSE file[f].ist >= IstDay(x)

FyersMain == <<"FYERS", "main">>

(* What a thread at work holds.                                            *)
WorkOK(t) ==
    /\ Paired(thread[t].todo)
    /\ Busy(t) => thread[t].began <= now /\ now - thread[t].began <= MaxRun
    /\ thread[t].pc = "fetch" =>
          /\ thread[t].todo # <<>>
          /\ Head(thread[t].todo) = FyersMain =>
                \E s \in Nat : /\ thread[t].began <= s /\ s <= now
                               /\ thread[t].answer \subseteq Listed("FYERS", s)
    /\ thread[t].pc = "write" =>
          /\ thread[t].todo # <<>> /\ Head(thread[t].todo) \in ToSet(Sessions("ANGEL"))
          /\ Fresh(Head(thread[t].todo), thread[t].began)

(* A file has the two days of one moment, and FYERS's master lists what    *)
(* was alive a little before.                                              *)
FilesOK ==
    \A f \in Files : file[f] # None =>
        \E x \in Nat :
            /\ x <= now /\ file[f].ist = IstDay(x) /\ file[f].utc = UtcDay(x)
            /\ f = FyersMain =>
                  \E s \in Nat : /\ s <= x /\ x - s <= MaxRun
                                 /\ file[f].lists \subseteq Listed("FYERS", s)

(* Whoever downloads a master alone is alone in its .tmp file.             *)
DiskOK ==
    /\ MasterIsWhole
    /\ \A f \in Streamed \ crowded : \A t \in Fetching(f) :
          Fetching(f) = {t} /\ tmp[f] = {t}

(* What a job has before it.                                               *)
Left(j) == ToSet(thread[j].todo) \cup
           UNION {ToSet(Names(j, b)) : b \in ToSet(thread[j].queue)}

(* A job under way has brought up to date what it has behind it, but for   *)
(* what failed.                                                            *)
JobOK(j) ==
    Busy(j) /\ MustCatchUp(j, thread[j].began) =>
        \A f \in JobFiles(j) : f \in failed \/ f \in Left(j) \/ Fresh(f, thread[j].began)

(* A scheduler that sleeps has computed its next run at the end of a run.  *)
SleptAt(j, x) ==
    /\ x <= now /\ thread[j].until = Max({x + 1, NextRun(j, x)})
    /\ MustCatchUp(j, x) /\ raced[j] # IstDay(x) =>
          \A f \in JobFiles(j) : f \in failed \/ Fresh(f, RunTime(j, IstDay(x)))
SchedulerOK(j) == thread[j].pc = "asleep" => \E x \in Nat : SleptAt(j, x)

(* A feed that sleeps has found its exchanges closed.                      *)
FeedOK(b) ==
    thread[b].pc = "asleep" =>
        \E x \in Nat : /\ x <= now /\ ~InSession(setup.exchanges, x)
                       /\ thread[b].until = WakeTime(setup.exchanges, x)

(* What holds of a thread.                                                 *)
ThreadOK(t) ==
    /\ WorkOK(t)
    /\ t \in Jobs => JobOK(t) /\ SchedulerOK(t)
    /\ t \in Brokers => FeedOK(t)

DayInv == DayTypes /\ FilesOK /\ DiskOK /\ \A t \in Threads : ThreadOK(t)

-----------------------------------------------------------------------------
(* Files and their names.                                                  *)

(* Which files there are, one by one.                                      *)
LEMMA FileNames ==
    /\ Sessions("DB") = <<<<"DB", "market">>, <<"DB", "interactive">>>>
    /\ Sessions("ANGEL") = <<<<"ANGEL", "session">>>>
    /\ Sessions("FYERS") = <<>> /\ Sessions("DELTA") = <<>>
    /\ Masters("DB") = <<<<"DB", "main">>, <<"DB", "index">>>>
    /\ Masters("ANGEL") = <<<<"ANGEL", "main">>>>
    /\ Masters("FYERS") = <<<<"FYERS", "spot">>, <<"FYERS", "main">>>>
    /\ Masters("DELTA") = <<<<"DELTA", "main">>>>
<1>1. /\ SessionNames("DB") = <<"market", "interactive">>
      /\ SessionNames("ANGEL") = <<"session">>
      /\ SessionNames("FYERS") = <<>> /\ SessionNames("DELTA") = <<>>
      /\ MasterNames("DB") = <<"main", "index">> /\ MasterNames("FYERS") = <<"spot", "main">>
      /\ MasterNames("ANGEL") = <<"main">> /\ MasterNames("DELTA") = <<"main">>
  BY DEF SessionNames, MasterNames
<1>2. ASSUME NEW b, NEW x PROVE Paths(b, <<x>>) = <<<<b, x>>>>
  BY DEF Paths
<1>3. ASSUME NEW b, NEW x, NEW y PROVE Paths(b, <<x, y>>) = <<<<b, x>>, <<b, y>>>>
  BY DEF Paths
<1>4. ASSUME NEW b PROVE Paths(b, <<>>) = <<>>
  BY DEF Paths
<1> QED BY <1>1, <1>2, <1>3, <1>4 DEF Sessions, Masters

(* The elements of short sequences.                                        *)
LEMMA ShortSets ==
    /\ ToSet(<<>>) = {}
    /\ \A x : ToSet(<<x>>) = {x}
    /\ \A x, y : ToSet(<<x, y>>) = {x, y}
<1>1. \A x : DOMAIN <<x>> = {1}
  OBVIOUS
<1>2. \A x, y : DOMAIN <<x, y>> = {1, 2}
  OBVIOUS
<1> QED BY <1>1, <1>2 DEF ToSet

(* What is in a sequence is its first element or in the rest.              *)
LEMMA HeadAndTail ==
    ASSUME NEW S, NEW q \in Seq(S), q # <<>>
    PROVE  /\ Head(q) \in S /\ Head(q) = q[1] /\ Tail(q) \in Seq(S) /\ Len(Tail(q)) = Len(q) - 1
           /\ Head(q) \in ToSet(q) /\ ToSet(Tail(q)) \subseteq ToSet(q) /\ ToSet(q) \subseteq S
           /\ \A i \in DOMAIN Tail(q) : i + 1 \in DOMAIN q /\ Tail(q)[i] = q[i + 1]
           /\ \A x \in ToSet(q) : x = Head(q) \/ x \in ToSet(Tail(q))
<1>1. /\ Head(q) \in S /\ Head(q) = q[1] /\ 1 \in DOMAIN q
      /\ Tail(q) \in Seq(S) /\ Len(Tail(q)) = Len(q) - 1
  OBVIOUS
<1>2. ASSUME NEW i \in DOMAIN Tail(q) PROVE i + 1 \in DOMAIN q /\ Tail(q)[i] = q[i + 1]
  OBVIOUS
<1>3. ASSUME NEW i \in DOMAIN q, i # 1 PROVE i - 1 \in DOMAIN Tail(q) /\ Tail(q)[i - 1] = q[i]
  BY <1>3
<1>4. ASSUME NEW x \in ToSet(q) PROVE x \in S /\ (x = Head(q) \/ x \in ToSet(Tail(q)))
  <2>1. PICK i \in DOMAIN q : q[i] = x
    BY DEF ToSet
  <2>2. x \in S
    BY <2>1
  <2>3. CASE i = 1
    BY <2>1, <2>2, <2>3, <1>1
  <2>4. CASE i # 1
    <3>1. i - 1 \in DOMAIN Tail(q) /\ Tail(q)[i - 1] = x
      BY <2>1, <2>4, <1>3
    <3>2. x \in ToSet(Tail(q))
      BY <3>1, Zenon DEF ToSet
    <3> QED BY <3>2, <2>2
  <2> QED BY <2>3, <2>4
<1>5. ToSet(Tail(q)) \subseteq ToSet(q) /\ Head(q) \in ToSet(q)
  <2>1. ASSUME NEW x \in ToSet(Tail(q)) PROVE x \in ToSet(q)
    <3>1. PICK i \in DOMAIN Tail(q) : Tail(q)[i] = x
      BY DEF ToSet
    <3>2. i + 1 \in DOMAIN q /\ q[i + 1] = x
      BY <3>1, <1>2
    <3> QED BY <3>2, Zenon DEF ToSet
  <2>2. q[1] \in ToSet(q)
    BY <1>1, Zenon DEF ToSet
  <2> QED BY <2>1, <2>2, <1>1
<1> QED BY <1>1, <1>2, <1>4, <1>5

(* The files of a job are files; sessions are not masters; DB              *)
(* International's masters come as a pair.                                 *)
LEMMA NamesAre ==
    ASSUME NEW j \in Jobs, NEW b \in Brokers
    PROVE  /\ Names(j, b) \in Seq(Files) /\ Paired(Names(j, b))
           /\ ToSet(Names(j, b)) \subseteq Files
           /\ \A f \in ToSet(Names(j, b)) :
                 j = "login" <=> f \in {<<"DB", "market">>, <<"DB", "interactive">>, <<"ANGEL", "session">>}
<1>1. b \in {"DB", "ANGEL", "FYERS", "DELTA"} /\ j \in {"login", "master"}
  BY DEF Brokers, Jobs
<1>2. ToSet(Names(j, b)) \subseteq Files
  BY <1>1 DEF Names, Files, Brokers
<1>3. Names(j, b) \in {<<>>, <<<<"ANGEL", "session">>>>, <<<<"ANGEL", "main">>>>, <<<<"DELTA", "main">>>>,
             <<<<"DB", "market">>, <<"DB", "interactive">>>>,
             <<<<"DB", "main">>, <<"DB", "index">>>>, <<<<"FYERS", "spot">>, <<"FYERS", "main">>>>}
  BY <1>1, FileNames DEF Names
<1>4. Names(j, b) \in Seq(ToSet(Names(j, b)))
  <2>1. <<>> \in Seq({}) /\ (\A x : <<x>> \in Seq({x})) /\ (\A x, y : <<x, y>> \in Seq({x, y}))
    OBVIOUS
  <2>2. /\ <<>> \in Seq(ToSet(<<>>)) /\ (\A x : <<x>> \in Seq(ToSet(<<x>>)))
        /\ (\A x, y : <<x, y>> \in Seq(ToSet(<<x, y>>)))
    BY <2>1, ShortSets
  <2> DEFINE names == Names(j, b)
  <2>3. names = <<>> \/ (\E x : names = <<x>>) \/ (\E x, y : names = <<x, y>>)
    BY <1>3
  <2> HIDE DEF names
  <2>4. names \in Seq(ToSet(names))
    BY <2>2, <2>3, Zenon
  <2> QED BY <2>4 DEF names
<1>5. Paired(Names(j, b))
  <2>1. DbMasters = <<<<"DB", "main">>, <<"DB", "index">>>>
    BY FileNames DEF DbMasters
  <2> QED BY <1>3, <2>1 DEF Paired
<1>6. \A f \in ToSet(Names(j, b)) :
         j = "login" <=> f \in {<<"DB", "market">>, <<"DB", "interactive">>, <<"ANGEL", "session">>}
  <2>1. CASE j = "login"
    <3>1. Names(j, b) \in {<<>>, <<<<"ANGEL", "session">>>>, <<<<"DB", "market">>, <<"DB", "interactive">>>>}
      BY <1>1, <2>1, FileNames DEF Names
    <3>2. \A f \in ToSet(Names(j, b)) : f \in {<<"DB", "market">>, <<"DB", "interactive">>, <<"ANGEL", "session">>}
      BY <3>1, ShortSets
    <3> QED BY <3>2, <2>1
  <2>2. CASE j = "master"
    <3>1. Names(j, b) \in {<<<<"ANGEL", "main">>>>, <<<<"DELTA", "main">>>>,
             <<<<"DB", "main">>, <<"DB", "index">>>>, <<<<"FYERS", "spot">>, <<"FYERS", "main">>>>}
      BY <1>1, <2>2, FileNames DEF Names
    <3>2. \A f \in ToSet(Names(j, b)) : f \in {<<"ANGEL", "main">>, <<"DELTA", "main">>,
             <<"DB", "main">>, <<"DB", "index">>, <<"FYERS", "spot">>, <<"FYERS", "main">>}
      BY <3>1, ShortSets
    <3> QED BY <3>2, <2>2
  <2> QED BY <2>1, <2>2, <1>1
<1>7. Names(j, b) \in Seq(Files)
  BY <1>2, <1>4
<1> QED BY <1>2, <1>5, <1>6, <1>7

(* The files of the two jobs, in any reachable configuration.              *)
LEMMA JobFilesAre ==
    ASSUME DayTypes
    PROVE  /\ setup.brokers \in Seq(Brokers) /\ Configured \subseteq Brokers
           /\ setup.weekdays \in BOOLEAN /\ setup.exchanges \in SUBSET STRING
           /\ \A j \in Jobs : JobFiles(j) \subseteq Files
           /\ \A j, k \in Jobs : j # k => JobFiles(j) \cap JobFiles(k) = {}
<1>1. /\ setup.brokers \in Seq(Brokers) /\ setup.weekdays \in BOOLEAN
      /\ setup.exchanges \in SUBSET STRING
  BY DayAssumption DEF DayTypes
<1>2. Configured \subseteq Brokers
  BY <1>1 DEF Configured, ToSet
<1>3. \A j \in Jobs : JobFiles(j) \subseteq Files
  BY <1>2, NamesAre DEF JobFiles
<1>4. ASSUME NEW j \in Jobs, NEW k \in Jobs, j # k, NEW f \in JobFiles(j), f \in JobFiles(k)
      PROVE  FALSE
  <2>1. PICK b \in Brokers : f \in ToSet(Names(j, b))
    BY <1>2, <1>4 DEF JobFiles
  <2>2. PICK c \in Brokers : f \in ToSet(Names(k, c))
    BY <1>2, <1>4 DEF JobFiles
  <2>3. j = "login" <=> k = "login"
    BY <2>1, <2>2, NamesAre
  <2> QED BY <2>3, <1>4 DEF Jobs
<1> QED BY <1>1, <1>2, <1>3, <1>4

-----------------------------------------------------------------------------
(* Steps of one thread.                                                    *)

(* A thread takes its new record, the others keep theirs.                  *)
LEMMA SetIs ==
    ASSUME DayTypes, NEW t \in Threads, NEW r, Set(t, r)
    PROVE  /\ thread'[t] = r /\ \A u \in Threads : u # t => thread'[u] = thread[u]
           /\ r \in ThreadRecord => thread' \in [Threads -> ThreadRecord]
<1>1. thread \in [Threads -> ThreadRecord] /\ thread' = [thread EXCEPT ![t] = r]
  BY DEF DayTypes, Set
<1> QED BY <1>1

(* What a thread leaves alone when it takes a step: the others, the time,  *)
(* and what is up to date.                                                 *)
LeavesAlone(t) ==
    /\ setup' = setup /\ now' = now
    /\ \A u \in Threads : u # t => thread'[u] = thread[u]
    /\ \A f \in Files : \A x \in Nat : x <= now /\ Fresh(f, x) => Fresh(f, x)'
    /\ \A j \in Jobs : j # t =>
          raced'[j] = raced[j] /\ \A f \in JobFiles(j) : f \in failed => f \in failed'

(* What depends on the configuration only.                                 *)
LEMMA SameSetup ==
    ASSUME setup' = setup
    PROVE  /\ \A j : JobFiles(j)' = JobFiles(j)
           /\ \A j, x : MustCatchUp(j, x)' = MustCatchUp(j, x)
           /\ \A j, x : NextRun(j, x)' = NextRun(j, x)
BY DEF JobFiles, Configured, MustCatchUp, NextRun, RunDay

(* What the others know stays true.                                        *)
LEMMA OthersStay ==
    ASSUME DayInv, NEW t \in Threads, LeavesAlone(t), NEW u \in Threads, u # t
    PROVE  ThreadOK(u)'
<1>1. /\ thread'[u] = thread[u] /\ now' = now /\ setup' = setup /\ now \in Nat
      /\ thread[u] \in ThreadRecord /\ ThreadOK(u) /\ DayTypes
  BY DEF DayInv, DayTypes, LeavesAlone
<1>2. \A f \in Files : \A x \in Nat : x <= now /\ Fresh(f, x) => Fresh(f, x)'
  BY DEF LeavesAlone
<1>3. thread[u].began \in Nat /\ thread[u].todo \in Seq(Files)
  BY <1>1 DEF ThreadRecord
<1>4. WorkOK(u)'
  <2>1. thread[u].pc = "write" => Fresh(Head(thread[u].todo), thread[u].began)'
    <3> SUFFICES ASSUME thread[u].pc = "write" PROVE Fresh(Head(thread[u].todo), thread[u].began)'
      OBVIOUS
    <3>1. /\ thread[u].todo # <<>> /\ Fresh(Head(thread[u].todo), thread[u].began)
          /\ thread[u].began <= now
      BY <1>1 DEF ThreadOK, WorkOK, Busy
    <3>2. Head(thread[u].todo) \in Files
      BY <3>1, <1>3
    <3> DEFINE f == Head(thread[u].todo)
               x == thread[u].began
    <3>3. Fresh(f, x) /\ f \in Files /\ x \in Nat /\ x <= now
      BY <3>1, <3>2, <1>3
    <3>4. PICK g \in Files : g = f
      BY <3>3
    <3>5. PICK y \in Nat : y = x
      BY <3>3
    <3>6. Fresh(g, y)'
      BY <3>3, <3>4, <3>5, <1>2
    <3>7. g = Head(thread'[u].todo) /\ y = thread'[u].began
      BY <3>4, <3>5, <1>1
    <3> QED BY <3>6, <3>7, <1>1 DEF Fresh
  <2> QED BY <2>1, <1>1 DEF ThreadOK, WorkOK, Busy, Fresh
<1>5. ASSUME u \in Jobs PROVE JobOK(u)' /\ SchedulerOK(u)'
  <2>1. /\ raced'[u] = raced[u] /\ \A f \in JobFiles(u) : f \in failed => f \in failed'
        /\ JobFiles(u) \subseteq Files
    BY <1>5, <1>1, JobFilesAre DEF LeavesAlone
  <2>2. JobOK(u)'
    <3> SUFFICES ASSUME Busy(u), MustCatchUp(u, thread[u].began), NEW f \in JobFiles(u),
                        f \notin failed', f \notin Left(u)
                 PROVE  Fresh(f, thread[u].began)'
      BY <1>1, SameSetup DEF JobOK, Busy, Left
    <3>1. Fresh(f, thread[u].began) /\ thread[u].began <= now
      BY <1>1, <1>5, <2>1 DEF ThreadOK, JobOK, WorkOK
    <3>2. PICK y \in Nat : y = thread[u].began
      BY <1>3
    <3>3. Fresh(f, y)'
      BY <3>1, <3>2, <2>1, <1>2
    <3> QED BY <3>3, <3>2, <1>1 DEF Fresh
  <2>3. SchedulerOK(u)'
    <3> SUFFICES ASSUME thread[u].pc = "asleep" PROVE \E x \in Nat : SleptAt(u, x)'
      BY <1>1 DEF SchedulerOK
    <3>1. PICK x \in Nat : SleptAt(u, x)
      BY <1>1, <1>5 DEF ThreadOK, SchedulerOK
    <3>2. ASSUME MustCatchUp(u, x), raced[u] # IstDay(x), NEW f \in JobFiles(u), f \notin failed'
          PROVE  Fresh(f, RunTime(u, IstDay(x)))'
      <4>1. Fresh(f, RunTime(u, IstDay(x)))
        BY <3>1, <3>2, <2>1 DEF SleptAt
      <4>2. RunTime(u, IstDay(x)) \in Nat /\ RunTime(u, IstDay(x)) <= now
        <5>1. IstDay(x) \in Nat
          BY DaysAscend
        <5>2. RunTime(u, IstDay(x)) \in Nat
          BY <5>1, <1>5, RunTimeDay
        <5>3. RunTime(u, IstDay(x)) <= x /\ x <= now
          BY <3>1, <3>2, <5>2 DEF SleptAt, MustCatchUp
        <5> QED BY <5>2, <5>3, <1>1
      <4>3. PICK y \in Nat : y = RunTime(u, IstDay(x))
        BY <4>2
      <4>4. Fresh(f, y)'
        BY <4>1, <4>2, <4>3, <2>1, <1>2
      <4> QED BY <4>3, <4>4
    <3>3. SleptAt(u, x)'
      BY <3>1, <3>2, <2>1, <1>1, SameSetup DEF SleptAt
    <3> QED BY <3>3
  <2> QED BY <2>2, <2>3
<1>6. ASSUME u \in Brokers PROVE FeedOK(u)'
  BY <1>1, <1>6 DEF ThreadOK, FeedOK
<1> QED BY <1>4, <1>5, <1>6 DEF ThreadOK

(* A download that ends now.                                               *)
LEMMA FileIsFresh ==
    ASSUME DayTypes, FilesOK, now' = now, NEW f, NEW r \in Contents,
           file' = [file EXCEPT ![f] = r],
           r.ist = IstDay(now), r.utc = UtcDay(now),
           f = FyersMain => \E s \in Nat : /\ s <= now /\ now - s <= MaxRun
                                           /\ r.lists \subseteq Listed("FYERS", s)
    PROVE  /\ file' \in [Files -> Contents \cup {None}] /\ FilesOK'
           /\ \A g \in Files : \A x \in Nat : x <= now /\ Fresh(g, x) => Fresh(g, x)'
           /\ f \in Files => \A x \in Nat : x <= now => Fresh(f, x)'
<1>1. now \in Nat /\ file \in [Files -> Contents \cup {None}] /\ None \notin Contents
  BY NoneAssumption DEF DayTypes
<1>2. /\ file' \in [Files -> Contents \cup {None}]
      /\ \A g \in Files : file'[g] = IF g = f THEN r ELSE file[g]
  BY <1>1
<1>3. FilesOK'
  <2> SUFFICES ASSUME NEW g \in Files, file'[g] # None
               PROVE  \E x \in Nat :
                         /\ x <= now /\ file'[g].ist = IstDay(x) /\ file'[g].utc = UtcDay(x)
                         /\ g = FyersMain =>
                               \E s \in Nat : /\ s <= x /\ x - s <= MaxRun
                                              /\ file'[g].lists \subseteq Listed("FYERS", s)
    BY <1>1 DEF FilesOK
  <2>1. CASE g = f
    <3>1. file'[g] = r
      BY <2>1, <1>2
    <3> QED BY <3>1, <2>1, <1>1
  <2>2. CASE g # f
    BY <2>2, <1>2 DEF FilesOK
  <2> QED BY <2>1, <2>2
<1>4. ASSUME f \in Files, NEW x \in Nat, x <= now PROVE Fresh(f, x)'
  <2>1. file'[f] = r /\ r # None
    BY <1>1, <1>2, <1>4
  <2>2. UtcDay(x) <= UtcDay(now) /\ IstDay(x) <= IstDay(now) /\ {UtcDay(x), UtcDay(now), IstDay(x), IstDay(now)} \subseteq Nat
    BY <1>1, <1>4, DaysAscend
  <2> QED BY <2>1, <2>2 DEF Fresh
<1>5. ASSUME NEW g \in Files, NEW x \in Nat, x <= now, Fresh(g, x) PROVE Fresh(g, x)'
  <2>1. CASE g = f
    BY <2>1, <1>4, <1>5
  <2>2. CASE g # f
    BY <2>2, <1>2, <1>5 DEF Fresh
  <2> QED BY <2>1, <2>2
<1> QED BY <1>2, <1>3, <1>4, <1>5

(* A step that leaves the disk alone and starts no download.               *)
QuietlySets(t, r) ==
    /\ Set(t, r) /\ r.pc # "fetch"
    /\ setup' = setup /\ now' = now /\ file' = file /\ tmp' = tmp /\ crowded' = crowded
    /\ picks' = [b \in Brokers |-> picks'[b]] /\ raced' = [j \in Jobs |-> raced'[j]]
    /\ \A j \in Jobs : j # t =>
          raced'[j] = raced[j] /\ \A f \in JobFiles(j) : f \in failed => f \in failed'

(* What is up to date depends on the files only.                           *)
LEMMA FreshStays ==
    ASSUME file' = file
    PROVE  \A f, x : Fresh(f, x)' = Fresh(f, x)
BY DEF Fresh

(* A quiet step keeps the invariant if it keeps the thread's own part.       *)
LEMMA QuietStep ==
    ASSUME DayInv, NEW t \in Threads, NEW r \in ThreadRecord, QuietlySets(t, r), ThreadOK(t)'
    PROVE  DayInv'
<1>1. /\ thread'[t] = r /\ \A u \in Threads : u # t => thread'[u] = thread[u]
      /\ thread' \in [Threads -> ThreadRecord]
  BY SetIs DEF DayInv, QuietlySets
<1>2. DayTypes'
  <2>1. setup \in Setups /\ now \in Nat /\ file \in [Files -> Contents \cup {None}]
        /\ tmp = [f \in Streamed |-> tmp[f]]
    BY DEF DayInv, DayTypes
  <2> QED BY <1>1, <2>1 DEF DayTypes, QuietlySets
<1>3. FilesOK'
  BY DEF DayInv, FilesOK, QuietlySets
<1>4. DiskOK'
  <2>1. MasterIsWhole'
    BY DEF DayInv, DiskOK, MasterIsWhole, QuietlySets
  <2>2. ASSUME NEW f \in Streamed, f \notin crowded, NEW u \in Threads, u \in Fetching(f)'
        PROVE  Fetching(f)' = {u} /\ tmp[f] = {u}
    <3>1. \A v \in Fetching(f)' : v \in Fetching(f)
      BY <1>1 DEF Fetching, QuietlySets
    <3>2. u \in Fetching(f) /\ Fetching(f) = {u} /\ tmp[f] = {u}
      BY <3>1, <2>2 DEF DayInv, DiskOK
    <3> QED BY <3>1, <3>2, <2>2
  <2>3. \A f \in Streamed \ crowded' : \A u \in Fetching(f)' : Fetching(f)' = {u} /\ tmp'[f] = {u}
    <3>1. \A f : \A u \in Fetching(f)' : u \in Threads
      BY DEF Fetching
    <3> QED BY <3>1, <2>2 DEF QuietlySets
  <2> QED BY <2>1, <2>3 DEF DiskOK
<1>5. LeavesAlone(t)
  BY <1>1, FreshStays DEF LeavesAlone, QuietlySets
<1>6. \A u \in Threads : ThreadOK(u)'
  BY <1>5, OthersStay
<1> QED BY <1>2, <1>3, <1>4, <1>6 DEF DayInv

-----------------------------------------------------------------------------
(* The steps, one by one.                                                  *)

(* Schedulers and feeds are different threads.                             *)
LEMMA JobsAreNotBrokers == Jobs \cap Brokers = {} /\ Threads = Jobs \cup Brokers
BY DEF Jobs, Brokers, Threads

(* Nothing to do is in order.                                              *)
LEMMA EmptyIsPaired == Paired(<<>>)
BY DEF Paired

(* Records of a thread, field by field.                                    *)
LEMMA ThreadRecords ==
    ASSUME NEW pc \in States, NEW queue \in Seq(Brokers), NEW todo \in Seq(Files),
           NEW until \in Int, NEW began \in Nat, NEW answer \in SUBSET Expiries
    PROVE  [pc |-> pc, queue |-> queue, todo |-> todo, until |-> until, began |-> began,
            answer |-> answer] \in ThreadRecord
BY DEF ThreadRecord

(* A thread at rest.                                                       *)
LEMMA OffIs == Off \in ThreadRecord /\ Off.todo = <<>> /\ Off.answer = {}
BY DEF Off, ThreadRecord, States

(* What is of the day of a moment is of the day of an earlier one.         *)
LEMMA FreshEarlier ==
    ASSUME DayTypes, NEW f \in Files, NEW x \in Nat, NEW y \in Nat, y <= x, Fresh(f, x)
    PROVE  Fresh(f, y)
<1>1. file[f] \in Contents
  BY DEF DayTypes, Fresh
<1>2. {UtcDay(x), UtcDay(y), IstDay(x), IstDay(y)} \subseteq Nat
      /\ UtcDay(y) <= UtcDay(x) /\ IstDay(y) <= IstDay(x)
  BY DaysAscend
<1>3. file[f].utc \in Nat /\ file[f].ist \in Nat
  BY <1>1 DEF Contents
<1> QED BY <1>2, <1>3 DEF Fresh

(* A job begins: everything is before it.                                  *)
LEMMA BeginStep ==
    ASSUME DayInv, NEW j \in Jobs, NEW queue \in Seq(Brokers), Begin(j, queue),
           MustCatchUp(j, now) => queue = setup.brokers,
           setup' = setup, now' = now, file' = file, tmp' = tmp, crowded' = crowded, picks' = picks,
           raced' \in {raced, [raced EXCEPT ![j] = None]}
    PROVE  DayInv'
<1> DEFINE r == [Off EXCEPT !.pc = "work", !.queue = queue, !.began = now]
<1>1. DayTypes /\ now \in Nat /\ j \in Threads
  BY JobsAreNotBrokers DEF DayInv, DayTypes
<1>2. /\ r \in ThreadRecord /\ r.pc = "work" /\ r.queue = queue /\ r.began = now
      /\ r.todo = <<>>
  BY <1>1, OffIs DEF Off, ThreadRecord, States
<1>3. Set(j, r)
  BY DEF Begin
<1> HIDE DEF r
<1>4. thread'[j] = r
  BY <1>1, <1>3, SetIs
<1>5. QuietlySets(j, r)
  <2>1. raced' = [k \in Jobs |-> raced'[k]] /\ \A k \in Jobs : k # j => raced'[k] = raced[k]
    BY <1>1 DEF DayTypes
  <2>2. \A k \in Jobs : k # j => \A f \in JobFiles(k) : f \in failed => f \in failed'
    BY <1>1, JobFilesAre DEF Begin
  <2>3. picks' = [b \in Brokers |-> picks'[b]]
    BY <1>1 DEF DayTypes
  <2> QED BY <1>2, <1>3, <2>1, <2>2, <2>3 DEF QuietlySets
<1>6. ThreadOK(j)'
  <2>1. WorkOK(j)'
    BY <1>1, <1>2, <1>4, EmptyIsPaired, DayAssumption DEF WorkOK, Busy
  <2>2. JobOK(j)'
    <3> SUFFICES ASSUME MustCatchUp(j, now), NEW f \in JobFiles(j) PROVE f \in Left(j)'
      BY <1>2, <1>4, SameSetup DEF JobOK
    <3>1. queue = setup.brokers
      OBVIOUS
    <3> QED BY <3>1, <1>2, <1>4 DEF Left, JobFiles, Configured
  <2>3. SchedulerOK(j)'
    BY <1>2, <1>4 DEF SchedulerOK
  <2> QED BY <2>1, <2>2, <2>3, JobsAreNotBrokers DEF ThreadOK
<1> QED BY <1>1, <1>2, <1>5, <1>6, QuietStep

(* The main thread starts the first run of a job.                          *)
LEMMA CatchUpStep == ASSUME DayInv, NEW j \in Jobs, CatchUp(j) PROVE DayInv'
<1> DEFINE queue == IF MustCatchUp(j, now) THEN setup.brokers ELSE <<>>
<1>1. queue \in Seq(Brokers) /\ (MustCatchUp(j, now) => queue = setup.brokers)
  BY JobFilesAre DEF DayInv
<1>2. /\ Begin(j, queue) /\ setup' = setup /\ now' = now /\ file' = file /\ tmp' = tmp
      /\ crowded' = crowded /\ picks' = picks /\ raced' \in {raced, [raced EXCEPT ![j] = None]}
  BY DEF CatchUp
<1> HIDE DEF queue
<1> QED BY <1>1, <1>2, BeginStep

(* A scheduler wakes up for its run.                                       *)
LEMMA WakeStep == ASSUME DayInv, NEW j \in Jobs, Wake(j) PROVE DayInv'
<1>1. setup.brokers \in Seq(Brokers)
  BY JobFilesAre DEF DayInv
<1>2. /\ Begin(j, setup.brokers) /\ setup' = setup /\ now' = now /\ file' = file /\ tmp' = tmp
      /\ crowded' = crowded /\ picks' = picks /\ raced' \in {raced, [raced EXCEPT ![j] = None]}
  BY DEF Wake
<1> QED BY <1>1, <1>2, BeginStep

(* The job turns to the next broker, whose files were before it already.   *)
LEMMA TakeBrokerStep == ASSUME DayInv, NEW j \in Jobs, TakeBroker(j) PROVE DayInv'
<1> DEFINE q == thread[j].queue
           b == Head(q)
           r == [thread[j] EXCEPT !.queue = Tail(@), !.todo = Names(j, b)]
<1>1. DayTypes /\ now \in Nat /\ j \in Threads /\ thread[j] \in ThreadRecord /\ ThreadOK(j)
  BY JobsAreNotBrokers DEF DayInv, DayTypes
<1>2. /\ thread[j].pc = "work" /\ thread[j].todo = <<>> /\ q # <<>> /\ Set(j, r)
      /\ UNCHANGED <<setup, now, file, tmp, picks, failed, raced, crowded>>
  BY DEF TakeBroker, Working, observers
<1>3. q \in Seq(Brokers)
  BY <1>1 DEF ThreadRecord
<1>4. b \in Brokers /\ Tail(q) \in Seq(Brokers) /\ \A c \in ToSet(q) : c = b \/ c \in ToSet(Tail(q))
  <2> HIDE DEF q
  <2> QED BY <1>2, <1>3, HeadAndTail
<1>5. Names(j, b) \in Seq(Files) /\ Paired(Names(j, b))
  BY <1>4, NamesAre
<1>6. /\ r \in ThreadRecord /\ r.pc = "work" /\ r.queue = Tail(q) /\ r.todo = Names(j, b)
      /\ r.began = thread[j].began
  <2> HIDE DEF q, b
  <2>1. r = [pc |-> "work", queue |-> Tail(q), todo |-> Names(j, b), until |-> thread[j].until,
             began |-> thread[j].began, answer |-> thread[j].answer]
    <3> DEFINE old == thread[j]
    <3>1. old \in ThreadRecord /\ old.pc = "work"
      BY <1>1, <1>2
    <3>2. r = [old EXCEPT !.queue = Tail(q), !.todo = Names(j, b)]
      BY DEF q
    <3> HIDE DEF r, old
    <3>3. r = [pc |-> old.pc, queue |-> Tail(q), todo |-> Names(j, b), until |-> old.until,
               began |-> old.began, answer |-> old.answer]
      BY <3>1, <3>2 DEF ThreadRecord
    <3> QED BY <3>1, <3>3 DEF old
  <2>2. /\ thread[j].until \in Int /\ thread[j].began \in Nat /\ thread[j].answer \in SUBSET Expiries
        /\ "work" \in States
    BY <1>1 DEF ThreadRecord, States
  <2> HIDE DEF r
  <2>3. r \in ThreadRecord
    BY <2>1, <2>2, <1>4, <1>5, ThreadRecords
  <2> QED BY <2>1, <2>3
<1> HIDE DEF r, q, b
<1>7. thread'[j] = r
  BY <1>1, <1>2, SetIs
<1>8. QuietlySets(j, r)
  BY <1>1, <1>2, <1>6 DEF QuietlySets, DayTypes
<1>9. ThreadOK(j)'
  <2>1. WorkOK(j)'
    BY <1>1, <1>2, <1>5, <1>6, <1>7 DEF WorkOK, Busy, ThreadOK
  <2>2. JobOK(j)'
    <3> SUFFICES ASSUME MustCatchUp(j, thread[j].began), NEW f \in JobFiles(j),
                        f \notin failed, f \notin Left(j)'
                 PROVE  Fresh(f, thread[j].began)
      BY <1>2, <1>6, <1>7, SameSetup, FreshStays DEF JobOK
    <3>1. \A x : x \in Left(j) => x \in Left(j)'
      <4>1. thread'[j].todo = Names(j, b) /\ thread'[j].queue = Tail(q)
        BY <1>6, <1>7
      <4>2. ASSUME NEW x \in Left(j) PROVE \E c \in ToSet(q) : x \in ToSet(Names(j, c))
        BY <1>2, ShortSets DEF Left, q
      <4> QED BY <4>1, <4>2, <1>4 DEF Left
    <3>2. f \notin Left(j)
      BY <3>1
    <3> QED BY <3>2, <1>1, <1>2 DEF ThreadOK, JobOK, Busy
  <2>3. SchedulerOK(j)'
    BY <1>6, <1>7 DEF SchedulerOK
  <2> QED BY <2>1, <2>2, <2>3, JobsAreNotBrokers DEF ThreadOK
<1> QED BY <1>1, <1>6, <1>8, <1>9, QuietStep

(* Steps that change neither a thread nor a file.                          *)
LEMMA SpawnOrBuildStep ==
    ASSUME DayInv, \/ \E j \in Jobs : Spawn(j)
                   \/ \E b \in Configured : Build(b)
                   \/ UNCHANGED vars
    PROVE  DayInv'
<1>1. /\ setup' = setup /\ now' = now /\ thread' = thread /\ file' = file /\ tmp' = tmp
      /\ failed' = failed /\ raced' = raced /\ crowded' = crowded
      /\ picks' = picks \/ \E b, S : picks' = [picks EXCEPT ![b] = S]
  BY DEF Spawn, Build, vars, observers
<1>2. DayTypes'
  <2>1. picks' = [b \in Brokers |-> picks'[b]]
    BY <1>1 DEF DayInv, DayTypes
  <2> QED BY <1>1, <2>1 DEF DayInv, DayTypes
<1>3. FilesOK' /\ DiskOK'
  BY <1>1 DEF DayInv, FilesOK, DiskOK, MasterIsWhole, Fetching
<1>4. ASSUME NEW t \in Threads PROVE ThreadOK(t)'
  <2>1. ThreadOK(t)
    BY DEF DayInv
  <2>2. WorkOK(t)'
    BY <2>1, <1>1 DEF ThreadOK, WorkOK, Busy, Fresh
  <2>3. ASSUME t \in Jobs PROVE JobOK(t)' /\ SchedulerOK(t)'
    <3>1. JobOK(t)'
      BY <2>1, <2>3, <1>1, SameSetup DEF ThreadOK, JobOK, Busy, Fresh, Left
    <3>2. \A x : SleptAt(t, x)' = SleptAt(t, x)
      BY <1>1, SameSetup DEF SleptAt, Fresh
    <3> QED BY <2>1, <2>3, <1>1, <3>1, <3>2 DEF ThreadOK, SchedulerOK
  <2>4. t \in Brokers => FeedOK(t)'
    BY <2>1, <1>1 DEF ThreadOK, FeedOK
  <2> QED BY <2>2, <2>3, <2>4 DEF ThreadOK
<1> QED BY <1>2, <1>3, <1>4 DEF DayInv

(* The scheduler has finished the run of the day, unless it began before   *)
(* that run was due.                                                       *)
LEMMA SleepStep == ASSUME DayInv, NEW j \in Jobs, Sleep(j) PROVE DayInv'
<1> DEFINE until == Max({now + 1, NextRun(j, now)})
           r == [Off EXCEPT !.pc = "asleep", !.until = until]
           today == IstDay(now)
           due == RunTime(j, today)
           began == thread[j].began
<1>1. DayTypes /\ now \in Nat /\ j \in Threads /\ thread[j] \in ThreadRecord /\ ThreadOK(j)
  BY JobsAreNotBrokers DEF DayInv, DayTypes
<1>2. /\ Working(j) /\ thread[j].todo = <<>> /\ thread[j].queue = <<>>
      /\ Set(j, r)
      /\ raced' = IF began < due /\ due <= now THEN [raced EXCEPT ![j] = today] ELSE raced
      /\ UNCHANGED <<setup, now, file, tmp, picks, failed, crowded>>
  BY DEF Sleep, Free
<1>3. today \in Nat /\ due \in Nat /\ UtcDay(due) = today /\ IstDay(due) = today
  BY <1>1, DaysAscend, RunTimeDay
<1>4. until \in Int
  <2>1. NextRun(j, now) \in Int
    BY <1>1, NextRunIs, JobFilesAre
  <2> QED BY <2>1, <1>1, LaterOf
<1>5. /\ r \in ThreadRecord /\ r.pc = "asleep" /\ r.until = until /\ r.todo = <<>>
  <2> HIDE DEF until
  <2> QED BY <1>4, OffIs DEF Off, ThreadRecord, States
<1>6. began \in Nat
  BY <1>1 DEF ThreadRecord
<1> HIDE DEF r
<1>7. thread'[j] = r
  BY <1>1, <1>2, SetIs
<1> HIDE DEF until
<1>8. QuietlySets(j, r)
  <2>1. raced' = [k \in Jobs |-> raced'[k]] /\ \A k \in Jobs : k # j => raced'[k] = raced[k]
    BY <1>1, <1>2 DEF DayTypes
  <2> QED BY <2>1, <1>1, <1>2, <1>5 DEF QuietlySets, DayTypes
<1>9. ThreadOK(j)'
  <2>1. WorkOK(j)'
    BY <1>5, <1>7, EmptyIsPaired DEF WorkOK, Busy
  <2>2. JobOK(j)'
    BY <1>5, <1>7 DEF JobOK, Busy
  <2>3. SleptAt(j, now)'
    <3>1. ASSUME MustCatchUp(j, now), raced'[j] # today, NEW f \in JobFiles(j), f \notin failed
          PROVE  Fresh(f, due)
      <4>1. due <= now /\ RunDay(today)
        BY <3>1, <1>1, <1>3 DEF MustCatchUp
      <4>2. due <= began
        <5>1. raced = [k \in Jobs |-> raced[k]]
          BY <1>1 DEF DayTypes
        <5> HIDE DEF due, today, began
        <5> SUFFICES ASSUME began < due PROVE FALSE
          BY <1>3, <1>6
        <5>2. raced' = [raced EXCEPT ![j] = today]
          BY <4>1, <1>2
        <5>3. raced'[j] = today
          BY <5>1, <5>2
        <5> QED BY <5>3, <3>1
      <4>3. began <= now
        BY <1>1, <1>2 DEF ThreadOK, WorkOK, Busy, Working
      <4>4. IstDay(began) = today
        <5>1. IstDay(due) <= IstDay(began) /\ IstDay(began) <= IstDay(now) /\ IstDay(began) \in Nat
          BY <4>2, <4>3, <1>1, <1>3, <1>6, DaysAscend
        <5> QED BY <5>1, <1>3
      <4>5. MustCatchUp(j, began)
        BY <4>1, <4>2, <4>4, <1>3, <1>6 DEF MustCatchUp
      <4>6. f \notin Left(j)
        BY <1>2, ShortSets DEF Left
      <4>7. Fresh(f, began)
        BY <4>5, <4>6, <3>1, <1>1, <1>2 DEF ThreadOK, JobOK, Busy, Working
      <4>8. f \in Files
        BY <1>1, <3>1, JobFilesAre
      <4> HIDE DEF due, began
      <4> QED BY <4>2, <4>7, <4>8, <1>1, <1>3, <1>6, FreshEarlier
    <3>2. SleptAt(j, now)' = (/\ now' <= now' /\ thread'[j].until = Max({now + 1, NextRun(j, now)})
                              /\ MustCatchUp(j, now) /\ raced'[j] # today =>
                                    \A f \in JobFiles(j) : f \in failed \/ Fresh(f, due))
      BY <1>2, SameSetup, FreshStays DEF SleptAt, MustCatchUp, NextRun, RunDay
    <3> QED BY <3>1, <3>2, <1>1, <1>2, <1>5, <1>7 DEF until
  <2>4. SchedulerOK(j)'
    <3>1. PICK x \in Nat : x = now'
      BY <1>1, <1>2
    <3>2. SleptAt(j, x)'
      BY <3>1, <2>3, <1>2
    <3> QED BY <3>2 DEF SchedulerOK
  <2> QED BY <2>1, <2>2, <2>4, JobsAreNotBrokers DEF ThreadOK
<1> QED BY <1>1, <1>5, <1>8, <1>9, QuietStep

(* A feed that is off, down or live knows nothing that could become wrong. *)
LEMMA RestingFeed ==
    ASSUME DayInv, NEW b \in Brokers, NEW pc \in {"down", "live"},
           Set(b, [Off EXCEPT !.pc = pc]),
           picks' = picks \/ \E S : picks' = [picks EXCEPT ![b] = S],
           UNCHANGED <<setup, now, file, tmp, failed, raced, crowded>>
    PROVE  DayInv'
<1> DEFINE r == [Off EXCEPT !.pc = pc]
<1>1. DayTypes /\ b \in Threads /\ b \notin Jobs
  BY JobsAreNotBrokers DEF DayInv
<1>2. r \in ThreadRecord /\ r.pc = pc /\ r.todo = <<>> /\ Set(b, r)
  BY OffIs DEF Off, ThreadRecord, States
<1> HIDE DEF r
<1>3. thread'[b] = r
  BY <1>1, <1>2, SetIs
<1>4. QuietlySets(b, r)
  BY <1>1, <1>2 DEF QuietlySets, DayTypes
<1>5. ThreadOK(b)'
  BY <1>1, <1>2, <1>3, EmptyIsPaired DEF ThreadOK, WorkOK, FeedOK, Busy
<1> QED BY <1>1, <1>2, <1>4, <1>5, QuietStep

(* A feed wakes up, or loses its connection.                               *)
LEMMA WakeOrDropStep ==
    ASSUME DayInv, NEW b \in Brokers, WakeFeed(b) \/ Drop(b)
    PROVE  DayInv'
<1>1. CASE WakeFeed(b)
  BY <1>1, RestingFeed DEF WakeFeed, observers
<1>2. CASE Drop(b)
  BY <1>2, RestingFeed DEF Drop, observers
<1> QED BY <1>1, <1>2

(* A feed goes through the files of its broker, as a job does.             *)
LEMMA EnsuredAre ==
    ASSUME NEW b \in Brokers
    PROVE  Ensured(b) \in Seq(Files) /\ Paired(Ensured(b))
<1>1. b \in {"DB", "ANGEL", "FYERS", "DELTA"} /\ "master" \in Jobs
  BY DEF Brokers, Jobs
<1>2. CASE b = "ANGEL"
  <2>1. Ensured(b) = Sessions(b) \o Masters(b)
    BY <1>2 DEF Ensured
  <2>2. Ensured(b) = <<<<"ANGEL", "session">>, <<"ANGEL", "main">>>>
    <3>1. ASSUME NEW x, NEW y PROVE <<x>> \o <<y>> = <<x, y>>
      <4>1. <<x>> \in Seq({x, y}) /\ <<y>> \in Seq({x, y}) /\ Len(<<x>>) = 1 /\ Len(<<y>>) = 1
        OBVIOUS
      <4>2. <<x>> \o <<y>> \in Seq({x, y}) /\ Len(<<x>> \o <<y>>) = 2
        BY <4>1, ConcatProperties
      <4>3. (<<x>> \o <<y>>)[1] = x /\ (<<x>> \o <<y>>)[2] = y
        BY <4>1
      <4> DEFINE z == <<x>> \o <<y>>
      <4>4. z \in Seq({x, y}) /\ Len(z) = 2 /\ z[1] = x /\ z[2] = y
        BY <4>2, <4>3
      <4> HIDE DEF z
      <4>5. z = <<x, y>>
        BY <4>4
      <4> QED BY <4>5 DEF z
    <3> QED BY <3>1, <2>1, <1>2, FileNames
  <2>3. Sessions(b) \in Seq(Files) /\ Masters(b) \in Seq(Files)
    <3>1. Names("login", b) = Sessions(b) /\ Names("master", b) = Masters(b)
      BY DEF Names
    <3> QED BY <3>1, <1>2, NamesAre DEF Jobs
  <2>4. DbMasters = <<<<"DB", "main">>, <<"DB", "index">>>>
    BY FileNames DEF DbMasters
  <2>5. Ensured(b) \in Seq(Files)
    BY <2>1, <2>3
  <2>6. \A i \in DOMAIN Ensured(b) : Ensured(b)[i] # DbMasters[1]
    BY <2>2, <2>4
  <2> QED BY <2>5, <2>6 DEF Paired
<1>3. CASE b = "DB"
  <2>1. Ensured(b) \in {<<>>, <<<<"DB", "market">>>>}
    BY <1>3 DEF Ensured
  <2>2. <<"DB", "market">> \in Files
    <3>1. Names("login", "DB") = <<<<"DB", "market">>, <<"DB", "interactive">>>>
      BY FileNames DEF Names
    <3>2. <<"DB", "market">> \in ToSet(Names("login", "DB"))
      BY <3>1, ShortSets
    <3> QED BY <3>2, NamesAre DEF Jobs, Brokers
  <2>3. DbMasters[1] = <<"DB", "main">>
    BY FileNames DEF DbMasters
  <2>4. <<>> \in Seq(Files) /\ <<<<"DB", "market">>>> \in Seq(Files)
    BY <2>2
  <2>5. Paired(<<<<"DB", "market">>>>)
    BY <2>3 DEF Paired
  <2> QED BY <2>1, <2>4, <2>5, EmptyIsPaired
<1>4. CASE b \in {"FYERS", "DELTA"}
  <2>1. Ensured(b) = Names("master", b)
    BY <1>4 DEF Ensured, Names
  <2> QED BY <2>1, <1>1, NamesAre
<1> QED BY <1>1, <1>2, <1>3, <1>4

(* A feed starts to bring its files up to date.                            *)
LEMMA StartFeedStep == ASSUME DayInv, NEW b \in Brokers, StartFeed(b) PROVE DayInv'
<1> DEFINE todo == Ensured(b)
           r == [Off EXCEPT !.pc = "work", !.todo = todo, !.began = now]
<1>1. DayTypes /\ now \in Nat /\ b \in Threads /\ b \notin Jobs
  BY JobsAreNotBrokers DEF DayInv, DayTypes
<1>2. todo \in Seq(Files) /\ Paired(todo)
  BY EnsuredAre
<1>3. Set(b, r) /\ UNCHANGED <<setup, now, file, tmp, picks, failed, raced, crowded>>
  BY DEF StartFeed, observers
<1> HIDE DEF todo
<1>4. r \in ThreadRecord /\ r.pc = "work" /\ r.todo = todo /\ r.began = now
  BY <1>1, <1>2, OffIs DEF Off, ThreadRecord, States
<1> HIDE DEF r
<1>5. thread'[b] = r
  BY <1>1, <1>3, SetIs
<1>6. QuietlySets(b, r)
  BY <1>1, <1>3, <1>4 DEF QuietlySets, DayTypes
<1>7. ThreadOK(b)'
  BY <1>1, <1>2, <1>3, <1>4, <1>5, DayAssumption DEF ThreadOK, WorkOK, FeedOK, Busy
<1> QED BY <1>1, <1>4, <1>6, <1>7, QuietStep

(* FYERS goes to sleep if it finds its exchanges closed.                   *)
LEMMA ConnectStep == ASSUME DayInv, NEW b \in Brokers, Connect(b) PROVE DayInv'
<1>1. CASE b = "FYERS" /\ ~InSession(setup.exchanges, now)
  <2> DEFINE until == WakeTime(setup.exchanges, now)
             r == [Off EXCEPT !.pc = "asleep", !.until = until]
  <2>1. DayTypes /\ now \in Nat /\ b \in Threads /\ b \notin Jobs
    BY JobsAreNotBrokers DEF DayInv, DayTypes
  <2>2. Set(b, r) /\ UNCHANGED <<setup, now, file, tmp, picks, failed, raced, crowded>>
    BY <1>1 DEF Connect, observers
  <2>3. until \in Int
    BY <1>1, <2>1, WakeTimeIs
  <2>4. r \in ThreadRecord /\ r.pc = "asleep" /\ r.until = until /\ r.todo = <<>>
    <3> HIDE DEF until
    <3> QED BY <2>3, OffIs DEF Off, ThreadRecord, States
  <2> HIDE DEF r
  <2>5. thread'[b] = r
    BY <2>1, <2>2, SetIs
  <2>6. QuietlySets(b, r)
    BY <2>1, <2>2, <2>4 DEF QuietlySets, DayTypes
  <2>7. ThreadOK(b)'
    <3>1. WorkOK(b)'
      BY <2>4, <2>5, EmptyIsPaired DEF WorkOK, Busy
    <3>2. FeedOK(b)'
      BY <1>1, <2>1, <2>2, <2>4, <2>5 DEF FeedOK
    <3> QED BY <3>1, <3>2, <2>1 DEF ThreadOK
  <2> QED BY <2>1, <2>4, <2>6, <2>7, QuietStep
<1>2. CASE ~(b = "FYERS" /\ ~InSession(setup.exchanges, now))
  <2>1. Set(b, [Off EXCEPT !.pc = "live"])
        /\ UNCHANGED <<setup, now, file, tmp, picks, failed, raced, crowded>>
    BY <1>2 DEF Connect, observers
  <2> QED BY <2>1, RestingFeed
<1> QED BY <1>1, <1>2

(* A job that fails gives up the rest of its broker's files, which is what *)
(* failed then says.                                                       *)
LEMMA FailsStep == ASSUME DayInv, NEW t \in Threads, Fails(t) PROVE DayInv'
<1>1. DayTypes /\ now \in Nat /\ thread[t] \in ThreadRecord /\ ThreadOK(t)
  BY DEF DayInv, DayTypes
<1>2. /\ thread[t].todo # <<>> /\ thread[t].pc \in {"work", "fetch"} /\ GiveUp(t)
      /\ UNCHANGED <<setup, now, file, tmp, picks, raced, crowded>>
  BY DEF Fails, Working
<1>3. CASE t \in Jobs
  <2> DEFINE old == thread[t]
             r == [old EXCEPT !.pc = "work", !.todo = <<>>, !.answer = {}]
  <2>1. Set(t, r) /\ failed' = failed \cup ToSet(old.todo)
    BY <1>2, <1>3 DEF GiveUp, After
  <2>2. old \in ThreadRecord
    BY <1>1
  <2>3. /\ r \in ThreadRecord /\ r.pc = "work" /\ r.queue = old.queue /\ r.todo = <<>>
        /\ r.began = old.began
    <3>1. r = [pc |-> "work", queue |-> old.queue, todo |-> <<>>, until |-> old.until,
               began |-> old.began, answer |-> {}]
      <4>1. r = [old EXCEPT !.pc = "work", !.todo = <<>>, !.answer = {}]
        OBVIOUS
      <4> HIDE DEF r, old
      <4> QED BY <4>1, <2>2 DEF ThreadRecord
    <3> HIDE DEF old
    <3>2. /\ "work" \in States /\ <<>> \in Seq(Files) /\ {} \in SUBSET Expiries
          /\ old.queue \in Seq(Brokers) /\ old.until \in Int /\ old.began \in Nat
      BY <2>2 DEF ThreadRecord, States
    <3> HIDE DEF r
    <3> QED BY <3>1, <3>2, ThreadRecords
  <2> HIDE DEF r
  <2>4. thread'[t] = r
    BY <1>1, <2>1, SetIs
  <2>5. QuietlySets(t, r)
    BY <1>1, <1>2, <2>1, <2>3 DEF QuietlySets, DayTypes
  <2>6. WorkOK(t)'
    BY <1>1, <1>2, <2>3, <2>4, EmptyIsPaired DEF WorkOK, Busy, ThreadOK
  <2>7. JobOK(t)'
    <3> SUFFICES ASSUME MustCatchUp(t, old.began), NEW f \in JobFiles(t),
                        f \notin failed', f \notin Left(t)'
                 PROVE  Fresh(f, old.began)
      BY <1>2, <2>3, <2>4, SameSetup, FreshStays DEF JobOK
    <3>1. thread'[t].queue = thread[t].queue
      BY <2>3, <2>4
    <3>2. f \notin Left(t)
      BY <2>1, <3>1 DEF Left
    <3> QED BY <3>2, <2>1, <1>1, <1>2, <1>3 DEF ThreadOK, JobOK, Busy
  <2>8. SchedulerOK(t)'
    BY <2>3, <2>4 DEF SchedulerOK
  <2>9. ThreadOK(t)'
    BY <2>6, <2>7, <2>8, <1>3, JobsAreNotBrokers DEF ThreadOK
  <2> QED BY <2>3, <2>5, <2>9, QuietStep
<1>4. CASE t \notin Jobs
  <2>1. Set(t, [Off EXCEPT !.pc = "down"]) /\ failed' = failed /\ t \in Brokers
    BY <1>2, <1>4, JobsAreNotBrokers DEF GiveUp, After
  <2> QED BY <2>1, <1>2, RestingFeed
<1> QED BY <1>3, <1>4

(* A step of a download: at most the file of the thread changes, and at    *)
(* most its .tmp file.                                                     *)
LEMMA DownloadStep ==
    ASSUME DayInv, NEW t \in Threads, NEW r \in ThreadRecord, Set(t, r), r.pc # "fetch",
           file' \in [Files -> Contents \cup {None}], FilesOK', MasterIsWhole',
           \A f \in Files : \A x \in Nat : x <= now /\ Fresh(f, x) => Fresh(f, x)',
           tmp' = [f \in Streamed |-> tmp'[f]],
           \A f \in Streamed : tmp'[f] = tmp[f] \/ t \in Fetching(f),
           UNCHANGED <<setup, now, picks, failed, raced, crowded>>,
           ThreadOK(t)'
    PROVE  DayInv'
<1>1. /\ thread'[t] = r /\ \A u \in Threads : u # t => thread'[u] = thread[u]
      /\ thread' \in [Threads -> ThreadRecord]
  BY SetIs DEF DayInv
<1>2. DayTypes'
  <2>1. /\ setup \in Setups /\ now \in Nat /\ picks = [b \in Brokers |-> picks[b]]
        /\ raced = [j \in Jobs |-> raced[j]]
    BY DEF DayInv, DayTypes
  <2> QED BY <1>1, <2>1 DEF DayTypes
<1>3. DiskOK'
  <2>1. ASSUME NEW f \in Streamed, f \notin crowded, NEW u \in Threads, u \in Fetching(f)'
        PROVE  Fetching(f)' = {u} /\ tmp'[f] = {u}
    <3>1. \A v \in Fetching(f)' : v \in Fetching(f) /\ v # t
      BY <1>1 DEF Fetching
    <3>2. u \in Fetching(f) /\ Fetching(f) = {u} /\ tmp[f] = {u} /\ u # t
      BY <3>1, <2>1 DEF DayInv, DiskOK
    <3>3. tmp'[f] = tmp[f]
      BY <3>2
    <3> QED BY <3>1, <3>2, <3>3, <2>1
  <2>2. \A f \in Streamed \ crowded' : \A u \in Fetching(f)' : Fetching(f)' = {u} /\ tmp'[f] = {u}
    <3>1. \A f : \A u \in Fetching(f)' : u \in Threads
      BY DEF Fetching
    <3> QED BY <3>1, <2>1
  <2> QED BY <2>2 DEF DiskOK
<1>4. LeavesAlone(t)
  BY <1>1 DEF LeavesAlone
<1>5. \A u \in Threads : ThreadOK(u)'
  BY <1>4, OthersStay
<1> QED BY <1>2, <1>3, <1>5 DEF DayInv

(* A list without its first file.                                          *)
LEMMA TailIsPaired ==
    ASSUME NEW todo \in Seq(Files), todo # <<>>, Paired(todo)
    PROVE  Paired(Tail(todo))
<1>1. \A i \in DOMAIN Tail(todo) : i + 1 \in DOMAIN todo /\ Tail(todo)[i] = todo[i + 1]
  BY HeadAndTail
<1>2. \A i \in Nat \ {0} : i + 1 \in DOMAIN todo => i \in DOMAIN Tail(todo)
  OBVIOUS
<1>3. DOMAIN Tail(todo) \subseteq Nat \ {0}
  OBVIOUS
<1> SUFFICES ASSUME NEW i \in DOMAIN Tail(todo), Tail(todo)[i] = DbMasters[1]
             PROVE  i + 1 \in DOMAIN Tail(todo) /\ Tail(todo)[i + 1] = DbMasters[2]
  BY DEF Paired
<1>4. (i + 1) + 1 \in DOMAIN todo /\ todo[(i + 1) + 1] = DbMasters[2]
  BY <1>1 DEF Paired
<1>5. i + 1 \in DOMAIN Tail(todo)
  BY <1>2, <1>3, <1>4
<1> QED BY <1>1, <1>4, <1>5

(* What a check passes over: the first file, or DB International's pair.   *)
LEMMA SkippedIs ==
    ASSUME NEW todo \in Seq(Files), todo # <<>>, Paired(todo)
    PROVE  /\ Skipped(todo) \in Seq(Files) /\ Paired(Skipped(todo))
           /\ \A f \in ToSet(todo) : \/ f \in ToSet(Skipped(todo)) \/ f = Head(todo)
                                     \/ Head(todo) = DbMasters[1] /\ f = DbMasters[2]
<1>1. /\ Head(todo) = todo[1] /\ Tail(todo) \in Seq(Files) /\ Paired(Tail(todo))
      /\ \A f \in ToSet(todo) : f = Head(todo) \/ f \in ToSet(Tail(todo))
  BY HeadAndTail, TailIsPaired
<1>2. CASE todo[1] # DbMasters[1]
  <2>1. Skipped(todo) = Tail(todo)
    BY <1>2 DEF Skipped
  <2> QED BY <2>1, <1>1
<1>3. CASE todo[1] = DbMasters[1]
  <2> DEFINE rest == Tail(todo)
  <2>1. 1 \in DOMAIN todo /\ 1 + 1 \in DOMAIN todo /\ todo[1 + 1] = DbMasters[2]
    BY <1>3 DEF Paired
  <2>2. rest # <<>> /\ Head(rest) = DbMasters[2] /\ rest \in Seq(Files)
    BY <2>1, <1>1
  <2>3. Skipped(todo) = Tail(rest)
    <3>1. SubSeq(todo, 3, Len(todo)) = Tail(Tail(todo))
      BY <2>1
    <3> QED BY <3>1, <1>3 DEF Skipped
  <2> HIDE DEF rest
  <2>4. /\ Tail(rest) \in Seq(Files) /\ Paired(rest) /\ Paired(Tail(rest))
        /\ \A f \in ToSet(rest) : f = Head(rest) \/ f \in ToSet(Tail(rest))
    <3>1. Paired(rest)
      BY <1>1 DEF rest
    <3> QED BY <3>1, <2>2, HeadAndTail, TailIsPaired
  <2>5. \A f \in ToSet(todo) : f = Head(todo) \/ f \in ToSet(rest)
    BY <1>1 DEF rest
  <2> QED BY <2>2, <2>3, <2>4, <2>5, <1>1, <1>3
<1> QED BY <1>2, <1>3

(* The files outlive the process.                                          *)
LEMMA KillStep == ASSUME DayInv, Kill PROVE DayInv'
<1>1. /\ thread' = [t \in Threads |-> Off] /\ picks' = [b \in Brokers |-> {}]
      /\ UNCHANGED <<setup, now, file, tmp, failed, raced, crowded>>
  BY DEF Kill, observers
<1>2. /\ thread' \in [Threads -> ThreadRecord] /\ \A t \in Threads : thread'[t] = Off
      /\ Off.pc = "off" /\ Off.todo = <<>>
  BY <1>1, OffIs DEF Off
<1>3. DayTypes'
  BY <1>1, <1>2 DEF DayInv, DayTypes
<1>4. FilesOK' /\ DiskOK'
  <2>1. FilesOK' /\ MasterIsWhole'
    BY <1>1 DEF DayInv, FilesOK, DiskOK, MasterIsWhole
  <2>2. \A f : Fetching(f)' = {}
    BY <1>2 DEF Fetching
  <2> QED BY <2>1, <2>2 DEF DiskOK
<1>5. ASSUME NEW t \in Threads PROVE ThreadOK(t)'
  BY <1>2, EmptyIsPaired DEF ThreadOK, WorkOK, JobOK, SchedulerOK, FeedOK, Busy
<1> QED BY <1>3, <1>4, <1>5 DEF DayInv

(* Time passes: a thread at work has not been at work for too long.        *)
LEMMA TickStep == ASSUME DayInv, Tick PROVE DayInv'
<1>1. /\ now \in Nat /\ now' = now + 1
      /\ \A t \in Threads : Busy(t) => now - thread[t].began < MaxRun
      /\ UNCHANGED <<setup, thread, file, tmp, picks, failed, raced, crowded>>
  BY DEF Tick, observers, Busy, DayInv, DayTypes
<1>2. DayTypes'
  BY <1>1 DEF DayInv, DayTypes
<1>3. FilesOK'
  <2>1. \A x \in Nat : x <= now => x <= now'
    BY <1>1
  <2> QED BY <2>1, <1>1 DEF DayInv, FilesOK
<1>4. DiskOK'
  BY <1>1 DEF DayInv, DiskOK, MasterIsWhole, Fetching
<1>5. ASSUME NEW t \in Threads PROVE ThreadOK(t)'
  <2>1. ThreadOK(t) /\ thread[t] \in ThreadRecord /\ thread[t].began \in Nat /\ MaxRun \in Nat
    BY DayAssumption DEF DayInv, DayTypes, ThreadRecord
  <2>2. WorkOK(t)'
    <3>1. Busy(t) => thread[t].began <= now' /\ now' - thread[t].began <= MaxRun
      BY <2>1, <1>1 DEF ThreadOK, WorkOK
    <3>2. \A s \in Nat : s <= now => s <= now'
      BY <1>1
    <3> QED BY <2>1, <3>1, <3>2, <1>1, FreshStays DEF ThreadOK, WorkOK, Busy
  <2>3. ASSUME t \in Jobs PROVE JobOK(t)' /\ SchedulerOK(t)'
    <3>1. JobOK(t)'
      BY <2>1, <2>3, <1>1, SameSetup, FreshStays DEF ThreadOK, JobOK, Busy, Left
    <3>2. \A x \in Nat : SleptAt(t, x) => SleptAt(t, x)'
      BY <1>1, SameSetup, FreshStays DEF SleptAt
    <3> QED BY <2>1, <2>3, <1>1, <3>1, <3>2 DEF ThreadOK, SchedulerOK
  <2>4. ASSUME t \in Brokers PROVE FeedOK(t)'
    <3>1. \A x \in Nat : x <= now => x <= now'
      BY <1>1
    <3> QED BY <2>1, <2>4, <3>1, <1>1 DEF ThreadOK, FeedOK
  <2> QED BY <2>2, <2>3, <2>4 DEF ThreadOK
<1> QED BY <1>2, <1>3, <1>4, <1>5 DEF DayInv

(* What Current says.                                                      *)
LEMMA CurrentIsFresh ==
    ASSUME DayTypes, NEW f \in Files, Current(f, now)
    PROVE  Fresh(f, now)
<1>1. file[f] \in Contents /\ now \in Nat
  BY DEF DayTypes, Current
<1>2. file[f].utc \in Nat /\ file[f].ist \in Nat /\ UtcDay(now) \in Nat /\ IstDay(now) \in Nat
  BY <1>1, DaysAscend DEF Contents
<1> QED BY <1>2 DEF Current, Fresh

(* The files that are treated in a way of their own.                       *)
LEMMA FileKinds ==
    /\ DbMasters[1] = <<"DB", "main">> /\ DbMasters[2] = <<"DB", "index">>
    /\ DbMasters[1] \in Files /\ DbMasters[2] \in Files
    /\ Streamed = {<<"FYERS", "spot">>, <<"FYERS", "main">>, <<"DELTA", "main">>}
    /\ ToSet(Sessions("ANGEL")) = {<<"ANGEL", "session">>}
    /\ Streamed \subseteq Files /\ FyersMain \in Streamed
<1>1. DbMasters[1] = <<"DB", "main">> /\ DbMasters[2] = <<"DB", "index">>
  BY FileNames DEF DbMasters
<1>2. Streamed = {<<"FYERS", "spot">>, <<"FYERS", "main">>, <<"DELTA", "main">>}
  BY FileNames, ShortSets DEF Streamed
<1>3. ToSet(Sessions("ANGEL")) = {<<"ANGEL", "session">>}
  BY FileNames, ShortSets
<1>4. ToSet(Masters("DB")) \subseteq Files /\ Streamed \subseteq Files
  <2>1. \A b \in Brokers : Names("master", b) = Masters(b)
    BY DEF Names
  <2> QED BY <2>1, NamesAre DEF Streamed, Brokers, Jobs
<1>5. DbMasters[1] \in ToSet(Masters("DB")) /\ DbMasters[2] \in ToSet(Masters("DB"))
  BY FileNames, ShortSets DEF DbMasters
<1> QED BY <1>1, <1>2, <1>3, <1>4, <1>5 DEF FyersMain

(* A file is skipped because it is current, or is downloaded.              *)
LEMMA CheckStep == ASSUME DayInv, NEW t \in Threads, Check(t) PROVE DayInv'
<1> DEFINE old == thread[t]
           f == Head(old.todo)
<1>1. DayTypes /\ now \in Nat /\ old \in ThreadRecord /\ ThreadOK(t)
  BY DEF DayInv, DayTypes
<1>2. /\ old.pc = "work" /\ old.todo # <<>>
      /\ UNCHANGED <<setup, now, file, picks, failed, raced>>
  BY DEF Check, Working
<1>3. /\ old.todo \in Seq(Files) /\ old.began \in Nat /\ Paired(old.todo)
      /\ old.began <= now
  BY <1>1, <1>2 DEF ThreadRecord, ThreadOK, WorkOK, Busy
<1>4. f \in Files
  <2> HIDE DEF old
  <2> QED BY <1>2, <1>3
<1>5. CASE /\ ~Pending(t, f)
           /\ Set(t, [old EXCEPT !.todo = Skipped(@)])
           /\ UNCHANGED <<tmp, crowded>>
  <2> DEFINE todo == Skipped(old.todo)
             r == [old EXCEPT !.todo = todo]
  <2>1. /\ todo \in Seq(Files) /\ Paired(todo)
        /\ \A g \in ToSet(old.todo) : \/ g \in ToSet(todo) \/ g = f
                                      \/ f = DbMasters[1] /\ g = DbMasters[2]
    BY <1>2, <1>3, SkippedIs
  <2>2. Set(t, r)
    BY <1>5
  <2>3. /\ r \in ThreadRecord /\ r.pc = "work" /\ r.queue = old.queue /\ r.todo = todo
        /\ r.began = old.began
    <3> HIDE DEF todo, old
    <3> QED BY <1>1, <1>2, <2>1 DEF ThreadRecord
  <2> HIDE DEF r
  <2>4. thread'[t] = r
    BY <1>1, <2>2, SetIs
  <2>5. QuietlySets(t, r)
    BY <1>1, <1>2, <1>5, <2>2, <2>3 DEF QuietlySets, DayTypes
  <2>6. WorkOK(t)'
    BY <1>1, <1>2, <2>1, <2>3, <2>4 DEF WorkOK, Busy, ThreadOK
  <2>7. ASSUME t \in Jobs PROVE JobOK(t)' /\ SchedulerOK(t)'
    <3>1. \A g \in ToSet(old.todo) : g \in ToSet(todo) \/ Fresh(g, now)
      <4>1. t # "DB"
        BY <2>7 DEF Jobs
      <4>2. f # DbMasters[2] /\ (f = DbMasters[1] => Current(DbMasters[1], now) /\ Current(DbMasters[2], now))
            /\ (f # DbMasters[1] => Current(f, now))
        BY <4>1, <1>5, FileKinds DEF Pending
      <4>3. Fresh(f, now) /\ (f = DbMasters[1] => Fresh(DbMasters[2], now))
        BY <4>2, <1>1, <1>4, FileKinds, CurrentIsFresh
      <4> QED BY <4>3, <2>1
    <3>2. JobOK(t)'
      <4> SUFFICES ASSUME MustCatchUp(t, old.began), NEW g \in JobFiles(t),
                          g \notin failed, g \notin Left(t)'
                   PROVE  Fresh(g, old.began)
        BY <1>2, <2>3, <2>4, SameSetup, FreshStays DEF JobOK
      <4>1. g \in Left(t) \/ Fresh(g, old.began)
        BY <1>1, <1>2, <2>7 DEF ThreadOK, JobOK, Busy
      <4>2. thread'[t].queue = thread[t].queue /\ thread'[t].todo = todo
        BY <2>3, <2>4
      <4>3. g \in Left(t) => g \in ToSet(old.todo) /\ g \notin ToSet(todo)
        BY <4>2 DEF Left
      <4>4. g \in Left(t) => Fresh(g, now)
        BY <4>3, <3>1
      <4>5. g \in Files
        BY <1>1, <2>7, JobFilesAre
      <4> QED BY <4>1, <4>4, <4>5, <1>1, <1>3, FreshEarlier
    <3>3. SchedulerOK(t)'
      BY <2>3, <2>4 DEF SchedulerOK
    <3> QED BY <3>2, <3>3
  <2>8. t \in Brokers => FeedOK(t)'
    BY <2>3, <2>4 DEF FeedOK
  <2>9. ThreadOK(t)'
    BY <2>6, <2>7, <2>8 DEF ThreadOK
  <2> QED BY <2>3, <2>5, <2>9, QuietStep
<1>6. CASE /\ Set(t, [old EXCEPT !.pc = "fetch", !.answer = Answer(f)])
           /\ tmp' = IF f \in Streamed THEN [tmp EXCEPT ![f] = Created(f, t)] ELSE tmp
           /\ crowded' = IF Fetching(f) # {} THEN crowded \cup {f} ELSE crowded
  <2> DEFINE answer == Answer(f)
             r == [old EXCEPT !.pc = "fetch", !.answer = answer]
  <2>1. answer \in SUBSET Expiries
    BY DEF Answer, Listed
  <2>2. /\ r \in ThreadRecord /\ r.pc = "fetch" /\ r.queue = old.queue /\ r.todo = old.todo
        /\ r.began = old.began /\ r.answer = answer /\ Set(t, r)
    <3> HIDE DEF answer, old, f
    <3>1. Set(t, r)
      BY <1>6 DEF answer
    <3> QED BY <3>1, <1>1, <2>1 DEF ThreadRecord, States
  <2> HIDE DEF r
  <2>3. /\ thread'[t] = r /\ \A u \in Threads : u # t => thread'[u] = thread[u]
        /\ thread' \in [Threads -> ThreadRecord]
    BY <1>1, <2>2, SetIs
  <2>4. DayTypes'
    BY <1>1, <1>2, <1>6, <2>3 DEF DayTypes
  <2>5. FilesOK'
    BY <1>2 DEF DayInv, FilesOK
  <2>6. DiskOK'
    <3>1. MasterIsWhole'
      BY <1>2, <1>6 DEF DayInv, DiskOK, MasterIsWhole
    <3>2. ASSUME NEW g \in Streamed, g \notin crowded', NEW u \in Threads, u \in Fetching(g)'
          PROVE  Fetching(g)' = {u} /\ tmp'[g] = {u}
      <4>1. \A v \in Fetching(g)' : v = t \/ v \in Fetching(g)
        BY <2>3 DEF Fetching
      <4>2. t \in Fetching(g)' => g = f
        BY <2>2, <2>3 DEF Fetching
      <4>3. g \notin crowded
        BY <3>2, <1>6
      <4>4. CASE u = t
        <5>1. g = f /\ Fetching(f) = {}
          BY <4>2, <4>4, <3>2, <1>6
        <5>2. tmp = [x \in Streamed |-> tmp[x]]
          BY <1>1 DEF DayTypes
        <5>3. tmp'[g] = {t}
          BY <5>1, <5>2, <1>6 DEF Created
        <5> QED BY <5>1, <5>3, <4>1, <4>4, <3>2
      <4>5. CASE u # t
        <5>1. u \in Fetching(g)
          BY <4>1, <4>5, <3>2
        <5>2. Fetching(g) = {u} /\ tmp[g] = {u}
          BY <5>1, <4>3 DEF DayInv, DiskOK
        <5>3. g # f
          BY <5>1, <3>2, <1>6
        <5>4. tmp'[g] = tmp[g]
          <6>1. tmp = [x \in Streamed |-> tmp[x]]
            BY <1>1 DEF DayTypes
          <6> QED BY <6>1, <5>3, <1>6
        <5> QED BY <5>2, <5>3, <5>4, <4>1, <4>2, <3>2
      <4> QED BY <4>4, <4>5
    <3>3. \A g : \A u \in Fetching(g)' : u \in Threads
      BY DEF Fetching
    <3> QED BY <3>1, <3>2, <3>3 DEF DiskOK
  <2>7. LeavesAlone(t)
    BY <1>2, <2>3, FreshStays DEF LeavesAlone
  <2>8. ThreadOK(t)'
    <3>1. WorkOK(t)'
      <4>1. f = FyersMain => answer = Listed("FYERS", now)
        BY DEF Answer, FyersMain
      <4>2. f = FyersMain => \E s \in Nat : /\ old.began <= s /\ s <= now /\ answer \subseteq Listed("FYERS", s)
        BY <4>1, <1>1, <1>3
      <4> HIDE DEF answer
      <4> QED BY <4>2, <1>1, <1>2, <2>2, <2>3 DEF WorkOK, Busy, ThreadOK
    <3>2. t \in Jobs => JobOK(t)'
      BY <1>1, <1>2, <2>2, <2>3, SameSetup, FreshStays DEF ThreadOK, JobOK, Busy, Left
    <3>3. SchedulerOK(t)' /\ FeedOK(t)'
      BY <2>2, <2>3 DEF SchedulerOK, FeedOK
    <3> QED BY <3>1, <3>2, <3>3 DEF ThreadOK
  <2>9. \A u \in Threads : ThreadOK(u)'
    BY <2>7, <2>8, OthersStay
  <2> QED BY <2>4, <2>5, <2>6, <2>9 DEF DayInv
<1> QED BY <1>5, <1>6 DEF Check

(* A thread that has finished a file goes on with the next one.            *)
LEMMA AdvancedStep ==
    ASSUME DayInv, NEW t \in Threads, thread[t].pc \in {"fetch", "write"}, Advanced(t),
           \A f \in Files : \A x \in Nat : x <= now /\ Fresh(f, x) => Fresh(f, x)',
           NEW done \in Files, NEW start \in Nat,
           done = Head(thread[t].todo), start = thread[t].began, Fresh(done, start)',
           UNCHANGED <<setup, now, failed>>
    PROVE  /\ \E r \in ThreadRecord : Set(t, r) /\ r.pc # "fetch"
           /\ ThreadOK(t)'
<1> DEFINE old == thread[t]
           todo == Tail(old.todo)
           r == [old EXCEPT !.pc = "work", !.todo = todo, !.answer = {}]
<1>1. DayTypes /\ now \in Nat /\ old \in ThreadRecord /\ ThreadOK(t)
  BY DEF DayInv, DayTypes
<1>2. /\ old.todo \in Seq(Files) /\ old.todo # <<>> /\ old.began \in Nat /\ Paired(old.todo)
      /\ old.began <= now /\ now - old.began <= MaxRun
  BY <1>1 DEF ThreadRecord, ThreadOK, WorkOK, Busy
<1>3. /\ todo \in Seq(Files) /\ Paired(todo)
      /\ \A f \in ToSet(old.todo) : f = Head(old.todo) \/ f \in ToSet(todo)
  <2> HIDE DEF old
  <2> QED BY <1>2, HeadAndTail, TailIsPaired
<1>4. /\ r \in ThreadRecord /\ r.pc = "work" /\ r.queue = old.queue /\ r.todo = todo
      /\ r.began = old.began /\ Set(t, r)
  <2>1. Set(t, r)
    BY DEF Advanced
  <2> HIDE DEF todo, old
  <2>2. r = [pc |-> "work", queue |-> old.queue, todo |-> todo, until |-> old.until,
             began |-> old.began, answer |-> {}]
    <3>1. r = [old EXCEPT !.pc = "work", !.todo = todo, !.answer = {}]
      OBVIOUS
    <3> HIDE DEF r
    <3> QED BY <3>1, <1>1 DEF ThreadRecord
  <2>3. /\ "work" \in States /\ {} \in SUBSET Expiries
        /\ old.queue \in Seq(Brokers) /\ old.until \in Int /\ old.began \in Nat
    BY <1>1 DEF ThreadRecord, States
  <2> HIDE DEF r
  <2>4. r \in ThreadRecord
    BY <2>2, <2>3, <1>3, ThreadRecords
  <2> QED BY <2>1, <2>2, <2>4
<1> HIDE DEF r
<1>5. thread'[t] = r
  BY <1>1, <1>4, SetIs
<1>6. WorkOK(t)'
  BY <1>2, <1>3, <1>4, <1>5 DEF WorkOK, Busy
<1>7. ASSUME t \in Jobs PROVE JobOK(t)' /\ SchedulerOK(t)'
  <2>1. JobOK(t)'
    <3> SUFFICES ASSUME MustCatchUp(t, start), NEW g \in JobFiles(t),
                        g \notin failed, g \notin Left(t)'
                 PROVE  Fresh(g, start)'
      BY <1>4, <1>5, SameSetup DEF JobOK, Fresh
    <3>1. g \in Left(t) \/ Fresh(g, start)
      BY <1>1, <1>7 DEF ThreadOK, JobOK, Busy
    <3>2. thread'[t].queue = thread[t].queue /\ thread'[t].todo = todo
      BY <1>4, <1>5
    <3>3. g \in Left(t) => g \in ToSet(old.todo) /\ g \notin ToSet(todo)
      BY <3>2 DEF Left
    <3>4. g \in Left(t) => g = done
      BY <3>3, <1>3
    <3>5. g \in Files /\ start <= now
      BY <1>1, <1>2, <1>7, JobFilesAre
    <3> QED BY <3>1, <3>4, <3>5
  <2>2. SchedulerOK(t)'
    BY <1>4, <1>5 DEF SchedulerOK
  <2> QED BY <2>1, <2>2
<1>8. FeedOK(t)'
  BY <1>4, <1>5 DEF FeedOK
<1> QED BY <1>4, <1>6, <1>7, <1>8 DEF ThreadOK

(* A download that is complete.                                            *)
LEMMA FetchedStep == ASSUME DayInv, NEW t \in Threads, Fetched(t) PROVE DayInv'
<1> DEFINE f == Head(thread[t].todo)
           whole == f \in Streamed => tmp[f] = {t}
           r == File(f, t, whole)
<1>1. DayTypes /\ FilesOK /\ now \in Nat /\ thread[t] \in ThreadRecord /\ ThreadOK(t)
  BY DEF DayInv, DayTypes
<1>2. /\ thread[t].pc = "fetch" /\ Advanced(t)
      /\ f \in Streamed => tmp[f] # None
      /\ file' = [file EXCEPT ![f] = r]
      /\ tmp' = IF f \in Streamed THEN [tmp EXCEPT ![f] = None] ELSE tmp
      /\ UNCHANGED <<setup, now, picks, failed, raced, crowded>>
  BY DEF Fetched, observers
<1>3. /\ thread[t].todo # <<>> /\ thread[t].todo \in Seq(Files) /\ thread[t].began \in Nat
      /\ thread[t].began <= now /\ now - thread[t].began <= MaxRun
      /\ f = FyersMain => \E s \in Nat : /\ thread[t].began <= s /\ s <= now
                                         /\ thread[t].answer \subseteq Listed("FYERS", s)
  BY <1>1, <1>2 DEF ThreadRecord, ThreadOK, WorkOK, Busy
<1>4. PICK g \in Files : g = f
  BY <1>3, HeadAndTail
<1>5. /\ r.ist = IstDay(now) /\ r.utc = UtcDay(now) /\ r.whole = whole
      /\ r.lists = thread[t].answer
  BY DEF File
<1>6. r \in Contents
  <2>1. IstDay(now) \in Nat /\ UtcDay(now) \in Nat
    BY <1>1, DaysAscend
  <2>4. TokenLife \in Nat /\ thread[t].answer \in SUBSET Expiries
    BY <1>1, DayAssumption DEF ThreadRecord
  <2>2. (IF f \in ToSet(Sessions("DB")) THEN now + TokenLife ELSE 0) \in Nat
    BY <2>4, <1>1
  <2>3. whole \in BOOLEAN
    OBVIOUS
  <2> HIDE DEF f, whole
  <2> QED BY <2>1, <2>2, <2>3, <2>4 DEF File, Contents
<1> HIDE DEF r
<1>7. f = FyersMain => \E s \in Nat : s <= now /\ now - s <= MaxRun /\ r.lists \subseteq Listed("FYERS", s)
  <2> SUFFICES ASSUME f = FyersMain
               PROVE  \E s \in Nat : s <= now /\ now - s <= MaxRun /\ r.lists \subseteq Listed("FYERS", s)
    OBVIOUS
  <2>1. PICK s \in Nat : /\ thread[t].began <= s /\ s <= now
                         /\ thread[t].answer \subseteq Listed("FYERS", s)
    BY <1>3
  <2>2. now - s <= MaxRun
    BY <2>1, <1>1, <1>3, DayAssumption
  <2> QED BY <2>1, <2>2, <1>5
<1>8. /\ file' \in [Files -> Contents \cup {None}] /\ FilesOK'
      /\ \A h \in Files : \A x \in Nat : x <= now /\ Fresh(h, x) => Fresh(h, x)'
      /\ \A x \in Nat : x <= now => Fresh(g, x)'
  <2>1. file' = [file EXCEPT ![g] = r] /\ now' = now
    BY <1>2, <1>4
  <2>2. g = FyersMain => \E s \in Nat : s <= now /\ now - s <= MaxRun /\ r.lists \subseteq Listed("FYERS", s)
    BY <1>4, <1>7
  <2> HIDE DEF f
  <2> QED BY <2>1, <2>2, <1>1, <1>5, <1>6, FileIsFresh
<1>9. MasterIsWhole'
  <2> SUFFICES ASSUME NEW h \in Files, file'[h] # None, ~file'[h].whole
               PROVE  h \in crowded \/ h \in ToSet(Sessions("ANGEL"))
    BY <1>2 DEF MasterIsWhole
  <2>1. file'[h] = IF h = g THEN r ELSE file[h]
    BY <1>1, <1>2, <1>4 DEF DayTypes
  <2>2. CASE h = g
    <3>1. f \in Streamed /\ tmp[f] # {t}
      BY <2>1, <2>2, <1>5
    <3>2. t \in Fetching(f)
      BY <1>2 DEF Fetching
    <3>3. f \in crowded
      BY <3>1, <3>2 DEF DayInv, DiskOK
    <3> QED BY <3>3, <2>2, <1>4
  <2>3. CASE h # g
    BY <2>1, <2>3 DEF DayInv, DiskOK, MasterIsWhole
  <2> QED BY <2>2, <2>3
<1>10. /\ tmp' = [h \in Streamed |-> tmp'[h]]
       /\ \A h \in Streamed : tmp'[h] = tmp[h] \/ t \in Fetching(h)
  <2>1. tmp = [h \in Streamed |-> tmp[h]]
    BY <1>1 DEF DayTypes
  <2>2. t \in Fetching(f)
    BY <1>2 DEF Fetching
  <2> HIDE DEF f
  <2> QED BY <2>1, <2>2, <1>2
<1>11. PICK start \in Nat : start = thread[t].began
  BY <1>3
<1>12. Fresh(g, start)'
  BY <1>8, <1>3, <1>11
<1>13. /\ \E q \in ThreadRecord : Set(t, q) /\ q.pc # "fetch"
       /\ ThreadOK(t)'
  BY <1>2, <1>4, <1>8, <1>11, <1>12, AdvancedStep
<1>14. PICK q \in ThreadRecord : Set(t, q) /\ q.pc # "fetch"
  BY <1>13
<1> QED BY <1>2, <1>8, <1>9, <1>10, <1>13, <1>14, DownloadStep

(* ANGEL's session is truncated: the file of today is there, and not yet   *)
(* whole.                                                                  *)
LEMMA TruncateStep == ASSUME DayInv, NEW t \in Threads, Truncate(t) PROVE DayInv'
<1> DEFINE f == Head(thread[t].todo)
           r == File(f, t, FALSE)
           q == [thread[t] EXCEPT !.pc = "write"]
<1>1. DayTypes /\ FilesOK /\ now \in Nat /\ thread[t] \in ThreadRecord /\ ThreadOK(t)
  BY DEF DayInv, DayTypes
<1>2. /\ thread[t].pc = "fetch" /\ f \in ToSet(Sessions("ANGEL"))
      /\ file' = [file EXCEPT ![f] = r] /\ Set(t, q)
      /\ UNCHANGED <<setup, now, tmp, picks, failed, raced, crowded>>
  BY DEF Truncate, observers
<1>3. /\ thread[t].todo # <<>> /\ thread[t].todo \in Seq(Files) /\ thread[t].began \in Nat
      /\ thread[t].began <= now /\ now - thread[t].began <= MaxRun /\ Paired(thread[t].todo)
  BY <1>1, <1>2 DEF ThreadRecord, ThreadOK, WorkOK, Busy
<1>4. PICK g \in Files : g = f
  BY <1>3, HeadAndTail
<1>5. /\ r.ist = IstDay(now) /\ r.utc = UtcDay(now)
      /\ g \in ToSet(Sessions("ANGEL")) /\ g # FyersMain
  BY <1>2, <1>4, FileKinds DEF File, FyersMain
<1>6. r \in Contents
  <2>1. IstDay(now) \in Nat /\ UtcDay(now) \in Nat
    BY <1>1, DaysAscend
  <2>2. TokenLife \in Nat /\ thread[t].answer \in SUBSET Expiries
    BY <1>1, DayAssumption DEF ThreadRecord
  <2>3. (IF f \in ToSet(Sessions("DB")) THEN now + TokenLife ELSE 0) \in Nat
    BY <2>2, <1>1
  <2> HIDE DEF f
  <2> QED BY <2>1, <2>2, <2>3 DEF File, Contents
<1> HIDE DEF r
<1>7. /\ file' \in [Files -> Contents \cup {None}] /\ FilesOK'
      /\ \A h \in Files : \A x \in Nat : x <= now /\ Fresh(h, x) => Fresh(h, x)'
      /\ \A x \in Nat : x <= now => Fresh(g, x)'
  <2>1. file' = [file EXCEPT ![g] = r] /\ now' = now
    BY <1>2, <1>4
  <2> HIDE DEF f
  <2> QED BY <2>1, <1>1, <1>5, <1>6, FileIsFresh
<1>8. MasterIsWhole'
  <2>1. \A h \in Files : h # g => file'[h] = file[h]
    BY <1>1, <1>2, <1>4 DEF DayTypes
  <2> QED BY <2>1, <1>2, <1>5 DEF DayInv, DiskOK, MasterIsWhole
<1>9. /\ q \in ThreadRecord /\ q.pc = "write" /\ q.queue = thread[t].queue
      /\ q.todo = thread[t].todo /\ q.began = thread[t].began
  BY <1>1 DEF ThreadRecord, States
<1> HIDE DEF q
<1>10. thread'[t] = q
  BY <1>1, <1>2, SetIs
<1>11. WorkOK(t)'
  <2>1. PICK start \in Nat : start = thread[t].began
    BY <1>3
  <2>2. Fresh(g, start)'
    BY <2>1, <1>3, <1>7
  <2>3. /\ thread'[t].pc = "write" /\ thread'[t].todo = thread[t].todo
        /\ thread'[t].began = start /\ Head(thread'[t].todo) = g /\ now' = now
    BY <2>1, <1>2, <1>4, <1>9, <1>10
  <2>4. Fresh(Head(thread[t].todo), thread[t].began)'
    BY <2>2, <2>3 DEF Fresh
  <2> QED BY <2>1, <2>3, <2>4, <1>3, <1>5 DEF WorkOK, Busy
<1>12. ASSUME t \in Jobs PROVE JobOK(t)'
  <2>1. PICK start \in Nat : start = thread[t].began
    BY <1>3
  <2> SUFFICES ASSUME MustCatchUp(t, start), NEW h \in JobFiles(t), h \notin failed,
                      h \notin Left(t)
               PROVE  Fresh(h, start)'
    BY <2>1, <1>2, <1>9, <1>10, SameSetup DEF JobOK, Fresh, Left
  <2>2. Fresh(h, start) /\ h \in Files /\ start <= now
    BY <2>1, <1>1, <1>2, <1>3, <1>12, JobFilesAre DEF ThreadOK, JobOK, Busy
  <2> QED BY <2>2, <1>7
<1>13. SchedulerOK(t)' /\ FeedOK(t)'
  BY <1>9, <1>10 DEF SchedulerOK, FeedOK
<1>14. ThreadOK(t)'
  BY <1>11, <1>12, <1>13 DEF ThreadOK
<1>15. tmp' = [h \in Streamed |-> tmp'[h]] /\ \A h \in Streamed : tmp'[h] = tmp[h]
  BY <1>1, <1>2 DEF DayTypes
<1> QED BY <1>2, <1>7, <1>8, <1>9, <1>14, <1>15, DownloadStep

(* ANGEL's session is whole again.                                         *)
LEMMA WriteStep == ASSUME DayInv, NEW t \in Threads, Write(t) PROVE DayInv'
<1> DEFINE f == Head(thread[t].todo)
<1>1. DayTypes /\ FilesOK /\ now \in Nat /\ thread[t] \in ThreadRecord /\ ThreadOK(t)
  BY DEF DayInv, DayTypes
<1>2. /\ thread[t].pc = "write" /\ Advanced(t)
      /\ file' = [file EXCEPT ![f].whole = TRUE]
      /\ UNCHANGED <<setup, now, tmp, picks, failed, raced, crowded>>
  BY DEF Write, observers
<1>3. /\ thread[t].todo # <<>> /\ thread[t].todo \in Seq(Files) /\ thread[t].began \in Nat
      /\ thread[t].began <= now /\ Fresh(f, thread[t].began)
  BY <1>1, <1>2 DEF ThreadRecord, ThreadOK, WorkOK, Busy
<1>4. PICK g \in Files : g = f
  BY <1>3, HeadAndTail
<1>5. file[g] \in Contents
  BY <1>1, <1>3, <1>4 DEF Fresh, DayTypes
<1> DEFINE old == file[g]
           r == [old EXCEPT !.whole = TRUE]
<1>6. /\ r \in Contents /\ r.ist = old.ist /\ r.utc = old.utc /\ r.lists = old.lists
      /\ r.whole = TRUE
  <2> HIDE DEF old
  <2>1. old \in Contents
    BY <1>5 DEF old
  <2> QED BY <2>1 DEF Contents
<1>7. \A h \in Files : file'[h] = IF h = g THEN r ELSE file[h]
  BY <1>1, <1>2, <1>4 DEF DayTypes
<1>8. file' \in [Files -> Contents \cup {None}]
  <2>1. DOMAIN file' = Files /\ file' = [h \in Files |-> file'[h]]
    BY <1>1, <1>2 DEF DayTypes
  <2>2. \A h \in Files : file'[h] \in Contents \cup {None}
    BY <1>1, <1>6, <1>7 DEF DayTypes
  <2> QED BY <2>1, <2>2
<1> HIDE DEF r
<1>9. ASSUME NEW h \in Files
      PROVE  \/ file[h] = None /\ file'[h] = None
             \/ /\ file[h] # None /\ file'[h] # None
                /\ file'[h].ist = file[h].ist /\ file'[h].utc = file[h].utc
                /\ file'[h].lists = file[h].lists /\ (file[h].whole => file'[h].whole)
  <2>1. CASE h = g
    BY <2>1, <1>5, <1>6, <1>7, NoneAssumption
  <2>2. CASE h # g
    BY <2>2, <1>7
  <2> QED BY <2>1, <2>2
<1>10. FilesOK'
  <2> SUFFICES ASSUME NEW h \in Files, file'[h] # None
               PROVE  \E x \in Nat :
                         /\ x <= now /\ file'[h].ist = IstDay(x) /\ file'[h].utc = UtcDay(x)
                         /\ h = FyersMain =>
                               \E s \in Nat : /\ s <= x /\ x - s <= MaxRun
                                              /\ file'[h].lists \subseteq Listed("FYERS", s)
    BY <1>2 DEF FilesOK
  <2>1. /\ file[h] # None /\ file'[h].ist = file[h].ist /\ file'[h].utc = file[h].utc
        /\ file'[h].lists = file[h].lists
    BY <1>9
  <2>2. PICK x \in Nat : /\ x <= now /\ file[h].ist = IstDay(x) /\ file[h].utc = UtcDay(x)
                         /\ h = FyersMain =>
                               \E s \in Nat : /\ s <= x /\ x - s <= MaxRun
                                              /\ file[h].lists \subseteq Listed("FYERS", s)
    BY <2>1, <1>1 DEF FilesOK
  <2> QED BY <2>1, <2>2, Zenon
<1>11. MasterIsWhole'
  BY <1>2, <1>9 DEF DayInv, DiskOK, MasterIsWhole
<1>12. \A h \in Files : \A x \in Nat : Fresh(h, x) => Fresh(h, x)'
  <2> SUFFICES ASSUME NEW h \in Files, NEW x \in Nat, Fresh(h, x)
               PROVE  Fresh(h, x)'
    OBVIOUS
  <2>1. /\ file[h] # None /\ file'[h] # None
        /\ file'[h].ist = file[h].ist /\ file'[h].utc = file[h].utc
    BY <1>9 DEF Fresh
  <2> QED BY <2>1 DEF Fresh
<1>13. PICK start \in Nat : start = thread[t].began
  BY <1>3
<1>14. Fresh(g, start)'
  BY <1>3, <1>4, <1>12, <1>13
<1>15. /\ \E q \in ThreadRecord : Set(t, q) /\ q.pc # "fetch"
       /\ ThreadOK(t)'
  BY <1>2, <1>4, <1>12, <1>13, <1>14, AdvancedStep
<1>16. PICK q \in ThreadRecord : Set(t, q) /\ q.pc # "fetch"
  BY <1>15
<1>17. tmp' = [h \in Streamed |-> tmp'[h]] /\ \A h \in Streamed : tmp'[h] = tmp[h]
  BY <1>1, <1>2 DEF DayTypes
<1> QED BY <1>2, <1>8, <1>10, <1>11, <1>12, <1>15, <1>16, <1>17, DownloadStep

-----------------------------------------------------------------------------
(* The invariant of the specification.                                     *)

(* It holds of a process that starts with nothing on disk.                 *)
LEMMA DayInit == Init => DayInv
<1> SUFFICES ASSUME Init PROVE DayInv
  OBVIOUS
<1>1. /\ thread = [t \in Threads |-> Off] /\ file = [f \in Files |-> None]
      /\ tmp = [f \in Streamed |-> None] /\ picks = [b \in Brokers |-> {}]
      /\ raced = [j \in Jobs |-> None] /\ setup \in Setups /\ now = setup.from
  BY DEF Init
<1>2. now \in Nat
  BY <1>1, DayAssumption
<1>3. \A t \in Threads : thread[t] = Off
  BY <1>1
<1>4. DayTypes
  <2>1. thread \in [Threads -> ThreadRecord]
    BY <1>1, OffIs
  <2> QED BY <2>1, <1>1, <1>2 DEF DayTypes
<1>5. Off.pc = "off" /\ Off.todo = <<>>
  BY DEF Off
<1>6. FilesOK /\ MasterIsWhole
  <2>1. \A f \in Files : file[f] = None
    BY <1>1
  <2> QED BY <2>1 DEF FilesOK, MasterIsWhole
<1>7. DiskOK
  <2>1. \A f : Fetching(f) = {}
    BY <1>3, <1>5 DEF Fetching
  <2> QED BY <2>1, <1>6 DEF DiskOK
<1>8. \A t \in Threads : ThreadOK(t)
  BY <1>3, <1>5, EmptyIsPaired DEF ThreadOK, WorkOK, JobOK, SchedulerOK, FeedOK, Busy
<1> QED BY <1>4, <1>6, <1>7, <1>8 DEF DayInv

(* Every step keeps it.                                                    *)
LEMMA DayNext == DayInv /\ [Next]_vars => DayInv'
<1> SUFFICES ASSUME DayInv, [Next]_vars PROVE DayInv'
  OBVIOUS
<1>1. Configured \subseteq Brokers
  BY JobFilesAre DEF DayInv
<1>2. CASE Tick
  BY <1>2, TickStep
<1>3. CASE Kill
  BY <1>3, KillStep
<1>4. CASE Done \/ UNCHANGED vars
  BY <1>4, SpawnOrBuildStep DEF Done
<1>5. ASSUME NEW t \in Threads, Check(t) \/ Fetched(t) \/ Truncate(t) \/ Write(t) \/ Fails(t)
      PROVE  DayInv'
  BY <1>5, CheckStep, FetchedStep, TruncateStep, WriteStep, FailsStep
<1>6. ASSUME NEW j \in Jobs, CatchUp(j) \/ TakeBroker(j) \/ Spawn(j) \/ Sleep(j) \/ Wake(j)
      PROVE  DayInv'
  BY <1>6, CatchUpStep, TakeBrokerStep, SpawnOrBuildStep, SleepStep, WakeStep
<1>7. ASSUME NEW b \in Configured,
             StartFeed(b) \/ Connect(b) \/ WakeFeed(b) \/ Build(b) \/ Drop(b)
      PROVE  DayInv'
  BY <1>1, <1>7, StartFeedStep, ConnectStep, WakeOrDropStep, SpawnOrBuildStep
<1> QED BY <1>2, <1>3, <1>4, <1>5, <1>6, <1>7 DEF Next

(* The invariant holds throughout.                                         *)
THEOREM DayInvariant == Spec => []DayInv
BY DayInit, DayNext, PTL DEF Spec

(* write_master_tmp and the rename: a download that fails, or dies with    *)
(* the process, never leaves half a master, unless two threads download    *)
(* the same one at once.                                                   *)
THEOREM MastersAreWhole == Spec => []MasterIsWhole
<1>1. DayInv => MasterIsWhole
  BY DEF DayInv, DiskOK
<1> QED BY <1>1, DayInvariant, PTL

-----------------------------------------------------------------------------
(* What the invariant says of the day and of a session.                    *)

(* A scheduler that sleeps past the run of this day has fallen asleep      *)
(* after it: from any earlier moment the next run is this one or one       *)
(* before.                                                                 *)
LEMMA AsleepSinceTheRun ==
    ASSUME DayTypes, NEW j \in Jobs, NEW x \in Nat, SleptAt(j, x), RanToday(j)
    PROVE  IstDay(x) = IstDay(now) /\ MustCatchUp(j, x)
<1> DEFINE today == IstDay(now)
           day == IstDay(x)
           due == RunTime(j, today)
<1>1. /\ now \in Nat /\ now < thread[j].until /\ RunDay(today) /\ now >= due
      /\ x <= now /\ thread[j].until = Max({x + 1, NextRun(j, x)})
      /\ setup.weekdays \in BOOLEAN
  BY JobFilesAre DEF DayTypes, RanToday, MustCatchUp, SleptAt
<1>2. today \in Nat /\ day \in Nat /\ day <= today
  BY <1>1, DaysAscend
<1>3. due \in Nat /\ IstDay(due) = today
  BY <1>2, RunTimeDay
<1>4. /\ NextRun(j, x) \in Int
      /\ \A d \in Nat : (/\ day <= d /\ d <= day + 13
                         /\ RunDay(d) /\ x < RunTime(j, d)) => NextRun(j, x) <= RunTime(j, d)
  BY <1>1, NextRunIs
<1>5. thread[j].until = IF x + 1 >= NextRun(j, x) THEN x + 1 ELSE NextRun(j, x)
  BY <1>1, <1>4, LaterOf
<1>6. ASSUME x < due PROVE FALSE
  <2>1. now < NextRun(j, x)
    BY <1>1, <1>3, <1>4, <1>5, <1>6
  <2>2. CASE today <= day + 13
    <3>1. NextRun(j, x) <= due
      BY <1>1, <1>2, <1>4, <1>6, <2>2
    <3> QED BY <3>1, <2>1, <1>1, <1>3, <1>4
  <2>3. CASE today > day + 13
    <3>1. PICK k \in 1..3 : Weekday(day + k)
      BY <1>2, SoonWeekday
    <3> DEFINE d == day + k
    <3>2. d \in Nat /\ day < d /\ day <= d /\ d <= day + 13 /\ d <= today /\ RunDay(d)
      BY <3>1, <2>3, <1>2 DEF RunDay
    <3> HIDE DEF d
    <3>3. RunTime(j, d) \in Nat /\ IstDay(RunTime(j, d)) = d
      BY <3>2, RunTimeDay
    <3>4. x < RunTime(j, d)
      <4> SUFFICES ASSUME RunTime(j, d) <= x PROVE FALSE
        BY <3>3
      <4>1. IstDay(RunTime(j, d)) <= day
        BY <3>3, DaysAscend
      <4> QED BY <4>1, <3>2, <3>3, <1>2
    <3>5. NextRun(j, x) <= RunTime(j, d)
      BY <3>2, <3>4, <1>4, Zenon
    <3>6. RunTime(j, d) <= due
      <4>1. d * Day \in Nat /\ today * Day \in Nat /\ d * Day <= today * Day
        BY <3>2, <1>2, Multiples
      <4>2. RunsAt[j] \in Int /\ Ist \in Int
        BY DayAssumption
      <4>3. RunTime(j, d) = d * Day + RunsAt[j] - Ist /\ due = today * Day + RunsAt[j] - Ist
        BY DEF RunTime
      <4> HIDE DEF due, today
      <4> QED BY <4>1, <4>2, <4>3
    <3> QED BY <3>3, <3>5, <3>6, <2>1, <1>1, <1>3, <1>4
  <2> QED BY <2>2, <2>3, <1>2
<1>7. due <= x
  BY <1>3, <1>6
<1>8. today <= day
  BY <1>3, <1>7, DaysAscend
<1>9. day = today
  BY <1>2, <1>8
<1> QED BY <1>1, <1>7, <1>9 DEF MustCatchUp

(* The files of a scheduler after its run of the day.                      *)
LEMMA FreshSinceTheRun ==
    ASSUME DayInv, NEW j \in Jobs, RanToday(j), NEW f \in JobFiles(j), f \notin failed
    PROVE  /\ f \in Files /\ file[f] # None
           /\ Fresh(f, RunTime(j, IstDay(now)))
           /\ \E x \in Nat : /\ x <= now /\ file[f].ist = IstDay(x) /\ file[f].utc = UtcDay(x)
                             /\ IstDay(x) = IstDay(now)
                             /\ f \in Streamed => IstDay(now) <= UtcDay(x)
                             /\ f = FyersMain =>
                                   \E s \in Nat : /\ s <= x /\ x - s <= MaxRun
                                                  /\ file[f].lists \subseteq Listed("FYERS", s)
<1> DEFINE today == IstDay(now)
<1>1. DayTypes /\ FilesOK /\ now \in Nat /\ today \in Nat
  BY DaysAscend DEF DayInv, DayTypes
<1>2. thread[j].pc = "asleep" /\ raced[j] # today
  BY DEF RanToday
<1>3. PICK x \in Nat : SleptAt(j, x)
  BY <1>2 DEF DayInv, ThreadOK, SchedulerOK, Threads
<1>4. IstDay(x) = today /\ MustCatchUp(j, x)
  BY <1>1, <1>3, AsleepSinceTheRun
<1>5. Fresh(f, RunTime(j, today))
  BY <1>2, <1>3, <1>4 DEF SleptAt
<1>6. f \in Files /\ file[f] # None
  BY <1>1, <1>5, JobFilesAre DEF Fresh
<1>7. UtcDay(RunTime(j, today)) = today /\ IstDay(RunTime(j, today)) = today
  BY <1>1, RunTimeDay
<1>8. PICK y \in Nat : /\ y <= now /\ file[f].ist = IstDay(y) /\ file[f].utc = UtcDay(y)
                       /\ f = FyersMain =>
                             \E s \in Nat : /\ s <= y /\ y - s <= MaxRun
                                            /\ file[f].lists \subseteq Listed("FYERS", s)
  BY <1>1, <1>6 DEF FilesOK
<1>9. IstDay(y) \in Nat /\ UtcDay(y) \in Nat /\ IstDay(y) <= today
  BY <1>1, <1>8, DaysAscend
<1>10. UtcDay(y) <= IstDay(y)
  <2>1. Ist \in Nat
    BY DayAssumption
  <2>2. y + Ist \in Nat /\ y <= y + Ist
    BY <2>1
  <2>3. UtcDay(y) <= UtcDay(y + Ist)
    BY <2>2, DaysAscend
  <2> QED BY <2>3 DEF UtcDay, IstDay
<1>11. IF f \in Streamed THEN UtcDay(y) >= today ELSE IstDay(y) >= today
  BY <1>5, <1>7, <1>8 DEF Fresh
<1>12. IstDay(y) = today /\ (f \in Streamed => today <= UtcDay(y))
  BY <1>1, <1>9, <1>10, <1>11
<1> QED BY <1>5, <1>6, <1>8, <1>12

(* run_login_job, run_master_job: once its time of the day has passed and  *)
(* its thread sleeps, every file of a scheduler is of this Indian day or   *)
(* was given up, whatever configuration, clock and faults.                 *)
THEOREM PreparedDay == Spec => []DayIsPrepared
<1>1. DayInv => DayIsPrepared
  BY FreshSinceTheRun DEF DayIsPrepared
<1> QED BY <1>1, DayInvariant, PTL

(* next_open_utc and is_active_at agree: a feed sleeps through no session  *)
(* of its exchanges, and wakes up in one.                                  *)
THEOREM SessionKept == Spec => []FeedKeepsSession
<1>1. ASSUME DayInv PROVE FeedKeepsSession
  <2> SUFFICES ASSUME NEW b \in Brokers, thread[b].pc = "asleep"
               PROVE  /\ now < thread[b].until => ~InSession(setup.exchanges, now)
                      /\ InSession(setup.exchanges, thread[b].until) \/ Spinning(setup.exchanges)
    BY DEF FeedKeepsSession
  <2>1. PICK x \in Nat : /\ x <= now /\ ~InSession(setup.exchanges, x)
                         /\ thread[b].until = WakeTime(setup.exchanges, x)
    BY <1>1 DEF DayInv, ThreadOK, FeedOK, Threads
  <2>2. now \in Nat
    BY <1>1 DEF DayInv, DayTypes
  <2> QED BY <2>1, <2>2, WakeTimeIs
<1> QED BY <1>1, DayInvariant, PTL

(* Nothing expired is picked after the master run of the day.  What DB     *)
(* International, ANGEL and DELTA pick is filtered by the clock; what      *)
(* FYERS picks is alive because its master was asked for after midnight    *)
(* UTC less the time a thread is at work, which is still this Indian day.  *)
LEMMA PicksStep ==
    ASSUME DayInv, MaxRun <= Ist, Next, NEW b \in Brokers, picks'[b] # picks[b],
           RanToday("master"), <<b, "main">> \notin failed, NEW e \in picks'[b]
    PROVE  Alive(b, e, now)
<1>1. picks = [c \in Brokers |-> picks[c]] /\ Configured \subseteq Brokers /\ now \in Nat
  BY JobFilesAre DEF DayInv, DayTypes
<1>2. PICK c \in Configured : Build(c) \/ Drop(c)
  <2>1. ~Tick /\ ~Done
    BY DEF Tick, Done, vars
  <2>2. ~Kill
    BY <1>1 DEF Kill
  <2>3. \A t \in Threads : ~Check(t) /\ ~Fetched(t) /\ ~Truncate(t) /\ ~Write(t) /\ ~Fails(t)
    BY DEF Check, Fetched, Truncate, Write, Fails
  <2>4. \A j \in Jobs : ~CatchUp(j) /\ ~TakeBroker(j) /\ ~Spawn(j) /\ ~Sleep(j) /\ ~Wake(j)
    BY DEF CatchUp, TakeBroker, Spawn, Sleep, Wake
  <2>5. \A c \in Configured : ~StartFeed(c) /\ ~Connect(c) /\ ~WakeFeed(c)
    BY DEF StartFeed, Connect, WakeFeed
  <2> QED BY <2>1, <2>2, <2>3, <2>4, <2>5 DEF Next
<1>3. c = b /\ Build(b)
  BY <1>1, <1>2 DEF Build, Drop
<1>4. e \in Selected(b) /\ b \in Configured
  BY <1>1, <1>2, <1>3 DEF Build
<1>5. CASE b \in {"DB", "ANGEL"}
  BY <1>4, <1>5 DEF Selected, CurrentAndNext, Nearest, Alive
<1>6. CASE b = "DELTA"
  BY <1>4, <1>6 DEF Selected, Unsettled
<1>7. CASE b = "FYERS"
  <2>1. FyersMain \in JobFiles("master") /\ FyersMain \in Streamed
    <3>1. FyersMain \in ToSet(Names("master", b))
      BY <1>7, FileNames, ShortSets DEF Names, FyersMain
    <3> QED BY <3>1, <1>4, FileKinds DEF JobFiles
  <2>2. "master" \in Jobs /\ FyersMain \notin failed
    BY <1>7 DEF Jobs, FyersMain
  <2>3. PICK x \in Nat : /\ x <= now /\ IstDay(now) <= UtcDay(x)
                         /\ \E s \in Nat : /\ s <= x /\ x - s <= MaxRun
                                           /\ file[FyersMain].lists \subseteq Listed("FYERS", s)
    BY <2>1, <2>2, FreshSinceTheRun
  <2>4. PICK s \in Nat : /\ s <= x /\ x - s <= MaxRun
                         /\ file[FyersMain].lists \subseteq Listed("FYERS", s)
    BY <2>3
  <2>5. e \in Expiries /\ IstDay(s) <= e
    <3>1. e \in file[FyersMain].lists
      BY <1>4, <1>7 DEF Selected, AllListed, FyersMain
    <3> QED BY <3>1, <2>4 DEF Listed, Alive
  <2>6. x <= s + Ist /\ s + Ist \in Nat
    BY <2>4, DayAssumption
  <2>7. UtcDay(x) \in Nat /\ UtcDay(x) <= IstDay(s)
    BY <2>6, DaysAscend DEF UtcDay, IstDay
  <2>8. IstDay(now) \in Nat /\ IstDay(s) \in Nat /\ e \in Nat
    BY <1>1, <2>5, DaysAscend, DayAssumption
  <2>9. IstDay(now) <= e
    BY <2>3, <2>5, <2>7, <2>8
  <2> QED BY <2>9, <1>7 DEF Alive
<1> QED BY <1>5, <1>6, <1>7 DEF Brokers

(* What the feeds pick is alive, where no thread is at work for longer     *)
(* than Indian time is ahead of UTC.                                       *)
THEOREM LivePicks == ASSUME MaxRun <= Ist PROVE Spec => PicksAreAlive
<1>1. ASSUME DayInv, [Next]_vars
      PROVE  [\A b \in Brokers : picks'[b] # picks[b] /\ RanToday("master")
                                   /\ <<b, "main">> \notin failed =>
                 \A e \in picks'[b] : Alive(b, e, now)]_vars
  <2>1. CASE UNCHANGED vars
    BY <2>1
  <2>2. CASE Next
    <3> SUFFICES ASSUME NEW b \in Brokers, picks'[b] # picks[b], RanToday("master"),
                        <<b, "main">> \notin failed, NEW e \in picks'[b]
                 PROVE  Alive(b, e, now)
      OBVIOUS
    <3> QED BY <1>1, <2>2, PicksStep
  <2> QED BY <1>1, <2>1, <2>2
<1> QED BY <1>1, DayInvariant, PTL DEF Spec, PicksAreAlive
=============================================================================
