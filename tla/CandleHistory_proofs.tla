----------------------- MODULE CandleHistory_proofs -----------------------
(***************************************************************************)
(* What the candle history guarantees for every market, every order of the *)
(* ticks, every retention, chunk, session and timeframe: the rows of the   *)
(* table are the exchange's own, a minute leaves memory once, a sync fills *)
(* its range, and the bars of a warmup are the exchange's bars.            *)
(***************************************************************************)
EXTENDS CandleHistory, FiniteSetTheorems, SequenceTheorems, WellFoundedInduction, TLAPS

-----------------------------------------------------------------------------
(* Sets of numbers, and the clock.                                         *)

(* Max and Min are defined by CHOOSE: a finite set that is not empty has   *)
(* such an element.                                                        *)
LEMMA HasMax ==
    ASSUME NEW T \in SUBSET Int, IsFiniteSet(T), T # {}
    PROVE  Max(T) \in T /\ \A y \in T : Max(T) >= y
<1> DEFINE above(x) == {y \in T : y > x}
           family == {above(x) : x \in T}
           R == StrictSubsetOrdering(T)
<1>1. IsWellFoundedOn(R, FiniteSubsetsOf(T))
  BY FS_StrictSubsetOrderingWellFounded
<1>2. family \subseteq FiniteSubsetsOf(T) /\ family # {}
  <2>1. ASSUME NEW x \in T PROVE above(x) \in FiniteSubsetsOf(T)
    <3>1. above(x) \in SUBSET T
      OBVIOUS
    <3> QED BY <3>1, FS_Subset DEF FiniteSubsetsOf
  <2> QED BY <2>1
<1> HIDE DEF R
<1>3. PICK S \in family : \A U \in family : ~(<<U, S>> \in R)
  <2> HIDE DEF family
  <2> QED BY <1>1, <1>2, WFMin
<1>4. PICK x \in T : S = above(x)
  OBVIOUS
<1>5. \A y \in T : x >= y
  <2> SUFFICES ASSUME NEW y \in T, y > x PROVE FALSE
    OBVIOUS
  <2>1. above(y) \subseteq above(x) /\ y \in above(x) /\ y \notin above(y)
    <3>1. ~(y > y) /\ \A z \in T : z > y => z > x
      OBVIOUS
    <3> QED BY <3>1, Zenon
  <2>2. <<above(y), above(x)>> \in R
    BY <2>1 DEF R, StrictSubsetOrdering
  <2> QED BY <2>2, <1>3, <1>4
<1> QED BY <1>5 DEF Max

LEMMA HasMin ==
    ASSUME NEW T \in SUBSET Int, IsFiniteSet(T), T # {}
    PROVE  Min(T) \in T /\ \A y \in T : Min(T) <= y
<1> DEFINE below(x) == {y \in T : y < x}
           family == {below(x) : x \in T}
           R == StrictSubsetOrdering(T)
<1>1. IsWellFoundedOn(R, FiniteSubsetsOf(T))
  BY FS_StrictSubsetOrderingWellFounded
<1>2. family \subseteq FiniteSubsetsOf(T) /\ family # {}
  <2>1. ASSUME NEW x \in T PROVE below(x) \in FiniteSubsetsOf(T)
    <3>1. below(x) \in SUBSET T
      OBVIOUS
    <3> QED BY <3>1, FS_Subset DEF FiniteSubsetsOf
  <2> QED BY <2>1
<1> HIDE DEF R
<1>3. PICK S \in family : \A U \in family : ~(<<U, S>> \in R)
  <2> HIDE DEF family
  <2> QED BY <1>1, <1>2, WFMin
<1>4. PICK x \in T : S = below(x)
  OBVIOUS
<1>5. \A y \in T : x <= y
  <2> SUFFICES ASSUME NEW y \in T, y < x PROVE FALSE
    OBVIOUS
  <2>1. below(y) \subseteq below(x) /\ y \in below(x) /\ y \notin below(y)
    <3>1. ~(y < y) /\ \A z \in T : z < y => z < x
      OBVIOUS
    <3> QED BY <3>1, Zenon
  <2>2. <<below(y), below(x)>> \in R
    BY <2>1 DEF R, StrictSubsetOrdering
  <2> QED BY <2>2, <1>3, <1>4
<1> QED BY <1>5 DEF Min

(* The minutes of the clock are intervals of MinuteLen units.              *)
LEMMA MinuteBounds ==
    ASSUME NEW m \in Nat
    PROVE  /\ StartOf(m) \in Nat /\ EndOf(m) \in Nat
           /\ StartOf(m) < EndOf(m) /\ EndOf(m) = StartOf(m) + MinuteLen
<1>1. MinuteLen \in Nat /\ MinuteLen > 0
  BY HistoryAssumption
<1>2. (m + 1) * MinuteLen = m * MinuteLen + MinuteLen
  BY <1>1
<1>3. m * MinuteLen \in Nat
  BY <1>1
<1> QED BY <1>1, <1>2, <1>3 DEF StartOf, EndOf

(* An earlier minute ends before a later one starts.                       *)
LEMMA MinutesAscend ==
    ASSUME NEW a \in Nat, NEW b \in Nat, a < b
    PROVE  EndOf(a) <= StartOf(b)
<1>1. MinuteLen \in Nat /\ MinuteLen > 0
  BY HistoryAssumption
<1>2. (a + 1) * MinuteLen <= b * MinuteLen
  BY <1>1
<1> QED BY <1>2 DEF StartOf, EndOf

(* The times before the horizon lie in a minute.                           *)
LEMMA TheMinute ==
    ASSUME NEW t \in Nat
    PROVE  /\ MinuteOf(t) \in Nat
           /\ StartOf(MinuteOf(t)) <= t /\ t < EndOf(MinuteOf(t))
           /\ t < Horizon => MinuteOf(t) \in Minutes
<1>1. MinuteLen \in Nat /\ MinuteLen > 0 /\ MaxMinute \in Nat
  BY HistoryAssumption
<1> DEFINE q == t \div MinuteLen
<1>2. q \in Nat
  BY <1>1
<1>3. MinuteLen * q <= t /\ t < MinuteLen * q + MinuteLen
  BY <1>1
<1>4. q * MinuteLen = MinuteLen * q /\ (q + 1) * MinuteLen = MinuteLen * q + MinuteLen
  BY <1>1, <1>2
<1>5. StartOf(MinuteOf(t)) <= t /\ t < EndOf(MinuteOf(t))
  BY <1>3, <1>4 DEF StartOf, EndOf, MinuteOf
<1>6. ASSUME t < Horizon PROVE q <= MaxMinute
  <2>1. SUFFICES ASSUME q > MaxMinute PROVE FALSE
    BY <1>1, <1>2
  <2>2. EndOf(MaxMinute) <= StartOf(q)
    BY <2>1, <1>1, <1>2, MinutesAscend
  <2>3. EndOf(MaxMinute) \in Nat /\ StartOf(q) \in Nat
    BY <1>1, <1>2, MinuteBounds
  <2>4. StartOf(q) <= t /\ EndOf(MaxMinute) = Horizon
    BY <1>5 DEF MinuteOf, EndOf, Horizon
  <2>5. Horizon \in Nat
    BY <2>3, <2>4
  <2> QED BY <2>2, <2>3, <2>4, <2>5, <1>6
<1> QED BY <1>2, <1>5, <1>6 DEF MinuteOf, Minutes

(* Later minutes are of the same day or of a later one, and sessions are   *)
(* at minutes of the clock.                                                *)
LEMMA DaysAscend ==
    ASSUME NEW a \in Nat, NEW b \in Nat, a <= b
    PROVE  DayOf(a) \in Nat /\ DayOf(b) \in Nat /\ DayOf(a) <= DayOf(b)
<1>1. DayLen \in Nat /\ DayLen > 0 /\ DayOffset \in Nat
  BY HistoryAssumption
<1> DEFINE x == a + DayOffset
           y == b + DayOffset
           q == x \div DayLen
           r == y \div DayLen
<1>2. x \in Nat /\ y \in Nat /\ x <= y
  BY <1>1
<1> HIDE DEF x, y
<1>3. q \in Nat /\ r \in Nat
  BY <1>1, <1>2
<1>4. DayLen * q <= x /\ y < DayLen * r + DayLen
  BY <1>1, <1>2
<1> HIDE DEF q, r
<1>5. q <= r
  <2> SUFFICES ASSUME r + 1 <= q PROVE FALSE
    BY <1>3
  <2>1. (r + 1) * DayLen <= q * DayLen
    BY <1>1, <1>3
  <2>2. (r + 1) * DayLen = DayLen * r + DayLen /\ q * DayLen = DayLen * q
    BY <1>1, <1>3
  <2>3. DayLen * r \in Nat /\ DayLen * q \in Nat
    BY <1>1, <1>3
  <2> HIDE DEF x, y
  <2> QED BY <2>1, <2>2, <2>3, <1>1, <1>2, <1>4
<1> QED BY <1>3, <1>5 DEF q, r, x, y, DayOf

LEMMA SessionMinutes ==
    ASSUME NEW day \in Nat
    PROVE  OpenOf(day) \in Nat /\ CloseOf(day) \in Int
<1>1. /\ DayLen \in Nat /\ DayOffset \in Nat /\ OpenMinute \in Nat /\ CloseMinute \in Nat
      /\ DayOffset <= OpenMinute
  BY HistoryAssumption
<1>2. day * DayLen \in Nat
  BY <1>1
<1> QED BY <1>1, <1>2 DEF OpenOf, CloseOf

-----------------------------------------------------------------------------
(* The candle of a sequence of trades.                                     *)

(* c is the candle of the first n trades of s.                             *)
Summary(c, s, n) ==
    /\ n \in 1..Len(s)
    /\ c.open = s[1] /\ c.close = s[n]
    /\ (\E i \in 1..n : c.high = s[i]) /\ (\A i \in 1..n : s[i] <= c.high)
    /\ (\E i \in 1..n : c.low = s[i]) /\ (\A i \in 1..n : s[i] >= c.low)

(* The exchange's candle of a minute with trades s.                        *)
CandleOf(m, s) ==
    [minute |-> m, open |-> s[1], high |-> Max({s[i] : i \in DOMAIN s}),
     low |-> Min({s[i] : i \in DOMAIN s}), close |-> s[Len(s)]]

(* Prices are numbers.                                                     *)
LEMMA PricesOf ==
    ASSUME NEW s \in Seq(Prices)
    PROVE  /\ Len(s) \in Nat /\ DOMAIN s = 1..Len(s)
           /\ \A i \in 1..Len(s) : s[i] \in Prices /\ s[i] \in Nat
           /\ s # <<>> => Len(s) > 0
<1>1. \A i \in 1..Len(s) : s[i] \in Prices
  OBVIOUS
<1>2. \A p \in Prices : p \in Nat
  BY HistoryAssumption
<1> QED BY <1>1, <1>2

(* There is one candle of all the trades of a minute: the exchange's.      *)
LEMMA OneCandle ==
    ASSUME NEW s \in Seq(Prices), NEW c \in Candles, Summary(c, s, Len(s))
    PROVE  c = CandleOf(c.minute, s)
<1> DEFINE n == Len(s)
           T == {s[i] : i \in DOMAIN s}
<1>1. n \in Nat /\ DOMAIN s = 1..n /\ \A i \in 1..n : s[i] \in Nat
  BY PricesOf
<1>2. c.high \in Nat /\ c.low \in Nat
  BY HistoryAssumption DEF Candles
<1>3. c.high \in T /\ \A y \in T : c.high >= y
  BY <1>1, <1>2 DEF Summary
<1>4. c.low \in T /\ \A y \in T : c.low <= y
  BY <1>1, <1>2 DEF Summary
<1>5. \A y \in T : y \in Nat
  BY <1>1
<1> HIDE DEF T
<1>6. Max(T) = c.high
  BY <1>2, <1>3, <1>5 DEF Max
<1>7. Min(T) = c.low
  BY <1>2, <1>4, <1>5 DEF Min
<1>8. c = [minute |-> c.minute, open |-> c.open, high |-> c.high, low |-> c.low,
           close |-> c.close]
  BY DEF Candles
<1> QED BY <1>6, <1>7, <1>8 DEF CandleOf, Summary, T

(* A minute with a trade has a candle.                                     *)
LEMMA CandleExists ==
    ASSUME NEW s \in Seq(Prices), s # <<>>, NEW m \in Minutes
    PROVE  CandleOf(m, s) \in Candles /\ Summary(CandleOf(m, s), s, Len(s))
<1> DEFINE n == Len(s)
           T == {s[i] : i \in DOMAIN s}
<1>1. /\ n \in Nat /\ n > 0 /\ DOMAIN s = 1..n
      /\ \A i \in 1..n : s[i] \in Prices /\ s[i] \in Nat
  BY PricesOf
<1>2. T \in SUBSET Prices /\ T \in SUBSET Int /\ s[1] \in T /\ T # {}
  <2>1. T \in SUBSET Prices
    BY <1>1
  <2>2. T \in SUBSET Int
    BY <1>1
  <2>3. s[1] \in T
    BY <1>1
  <2> QED BY <2>1, <2>2, <2>3
<1>3. IsFiniteSet(T)
  <2>1. IsFiniteSet(1..n)
    BY <1>1, FS_Interval
  <2> DEFINE f == [i \in 1..n |-> s[i]]
  <2>2. f \in Surjection(1..n, T)
    BY <1>1 DEF Surjection
  <2> QED BY <2>1, <2>2, FS_Surjection
<1>4. /\ Max(T) \in T /\ \A y \in T : Max(T) >= y
      /\ Min(T) \in T /\ \A y \in T : Min(T) <= y
  <2> HIDE DEF T
  <2> QED BY <1>2, <1>3, HasMax, HasMin
<1> DEFINE h == Max(T)
           l == Min(T)
<1>5. h \in T /\ l \in T /\ \A i \in 1..n : s[i] <= h /\ s[i] >= l
  <2>1. \A i \in 1..n : s[i] \in T
    BY <1>1
  <2> HIDE DEF T
  <2>2. \A y \in T : y \in Int
    BY <1>2
  <2> QED BY <1>4, <2>1, <2>2
<1>6. \E i \in 1..n : h = s[i]
  <2> HIDE DEF h
  <2> QED BY <1>5, <1>1
<1>7. \E i \in 1..n : l = s[i]
  <2> HIDE DEF l
  <2> QED BY <1>5, <1>1
<1>8. CandleOf(m, s) = [minute |-> m, open |-> s[1], high |-> h, low |-> l, close |-> s[n]]
  BY DEF CandleOf
<1>9. h \in Prices /\ l \in Prices
  BY <1>5, <1>2
<1> HIDE DEF T, h, l
<1> QED BY <1>1, <1>5, <1>6, <1>7, <1>8, <1>9 DEF Summary, Candles

(* The first price of a minute opens its candle.                           *)
LEMMA FirstTrade ==
    ASSUME NEW s \in Seq(Prices), s # <<>>, NEW m \in Minutes
    PROVE  Summary(NewCandle(m, s[1]), s, 1)
<1>1. Len(s) \in Nat /\ Len(s) > 0 /\ s[1] \in Nat
  BY PricesOf
<1> QED BY <1>1 DEF Summary, NewCandle

(* A first price makes a candle, one more price another candle of the same *)
(* minute.                                                                 *)
LEMMA FirstCandle ==
    ASSUME NEW m \in Minutes, NEW p \in Prices
    PROVE  NewCandle(m, p) \in Candles /\ NewCandle(m, p).minute = m /\ NewCandle(m, p) # NoCandle
<1> QED BY NoCandleAssumption DEF Candles, NewCandle

LEMMA CandleTypes ==
    ASSUME NEW p \in Prices, NEW c \in Candles
    PROVE  ApplyPrice(c, p) \in Candles /\ ApplyPrice(c, p).minute = c.minute
<1> QED BY DEF Candles, ApplyPrice

(* The next price of a minute makes the candle of one trade more.          *)
LEMMA NextTrade ==
    ASSUME NEW s \in Seq(Prices), NEW c \in Candles, NEW n, Summary(c, s, n),
           n + 1 <= Len(s)
    PROVE  Summary(ApplyPrice(c, s[n + 1]), s, n + 1)
<1>1. n \in 1..Len(s) /\ n + 1 \in 1..Len(s) /\ n \in Nat /\ Len(s) \in Nat
  BY DEF Summary
<1>2. \A i \in 1..Len(s) : s[i] \in Nat
  BY PricesOf
<1>3. c.high \in Nat /\ c.low \in Nat
  BY HistoryAssumption DEF Candles
<1> DEFINE p == s[n + 1]
           d == ApplyPrice(c, p)
<1>4. /\ d.open = c.open /\ d.close = p
      /\ d.high = IF p > c.high THEN p ELSE c.high
      /\ d.low = IF p < c.low THEN p ELSE c.low
  BY DEF ApplyPrice, Candles
<1>5. p \in Nat
  BY <1>1, <1>2
<1>6. \A i \in 1..(n + 1) : i \in 1..n \/ i = n + 1
  BY <1>1
<1>7. 1..n \subseteq 1..(n + 1) /\ n + 1 \in 1..(n + 1)
  BY <1>1
<1> HIDE DEF d
<1>8. d.open = s[1] /\ d.close = s[n + 1]
  BY <1>4 DEF Summary
<1>9. (\E i \in 1..(n + 1) : d.high = s[i]) /\ (\A i \in 1..(n + 1) : s[i] <= d.high)
  <2>1. d.high = c.high \/ d.high = p
    BY <1>4
  <2>2. c.high <= d.high /\ p <= d.high
    BY <1>3, <1>4, <1>5
  <2>3. d.high \in Nat
    BY <2>1, <1>3, <1>5
  <2>4. \E i \in 1..(n + 1) : d.high = s[i]
    BY <2>1, <1>7 DEF Summary
  <2>5. ASSUME NEW i \in 1..(n + 1) PROVE s[i] <= d.high
    <3>1. CASE i \in 1..n
      <4>1. s[i] <= c.high /\ s[i] \in Nat
        BY <3>1, <1>1, <1>2 DEF Summary
      <4> QED BY <4>1, <2>2, <2>3, <1>3
    <3>2. CASE i = n + 1
      BY <3>2, <2>2
    <3> QED BY <3>1, <3>2, <1>6
  <2> QED BY <2>4, <2>5
<1>10. (\E i \in 1..(n + 1) : d.low = s[i]) /\ (\A i \in 1..(n + 1) : s[i] >= d.low)
  <2>1. d.low = c.low \/ d.low = p
    BY <1>4
  <2>2. c.low >= d.low /\ p >= d.low
    BY <1>3, <1>4, <1>5
  <2>3. d.low \in Nat
    BY <2>1, <1>3, <1>5
  <2>4. \E i \in 1..(n + 1) : d.low = s[i]
    BY <2>1, <1>7 DEF Summary
  <2>5. ASSUME NEW i \in 1..(n + 1) PROVE s[i] >= d.low
    <3>1. CASE i \in 1..n
      <4>1. s[i] >= c.low /\ s[i] \in Nat
        BY <3>1, <1>1, <1>2 DEF Summary
      <4> QED BY <4>1, <2>2, <2>3, <1>3
    <3>2. CASE i = n + 1
      BY <3>2, <2>2
    <3> QED BY <3>1, <3>2, <1>6
  <2> QED BY <2>4, <2>5
<1>11. Summary(d, s, n + 1)
  BY <1>1, <1>8, <1>9, <1>10 DEF Summary
<1> QED BY <1>11 DEF d

(* A trade does not change the candle of the trades before it.             *)
LEMMA MoreTrades ==
    ASSUME NEW s \in Seq(Prices), NEW p \in Prices, NEW c, NEW n, Summary(c, s, n)
    PROVE  Summary(c, Append(s, p), n)
<1>1. n \in 1..Len(s) /\ Len(s) \in Nat /\ Len(Append(s, p)) = Len(s) + 1
  BY DEF Summary
<1>2. \A i \in 1..Len(s) : Append(s, p)[i] = s[i]
  OBVIOUS
<1>3. \A i \in 1..n : Append(s, p)[i] = s[i]
  BY <1>1, <1>2
<1>4. n \in 1..Len(Append(s, p)) /\ 1 \in 1..n /\ n \in 1..n
  BY <1>1
<1> QED BY <1>3, <1>4 DEF Summary
-----------------------------------------------------------------------------
(* The inductive invariant.                                                *)

MaybeCandle == Candles \cup {NoCandle}
Stages == {"idle", "recover", "maintain"}
Syncs == [stage : Stages, cursor : Nat, start : Nat, end : Nat, cutoff : Nat,
          due : BOOLEAN, touched : SUBSET Minutes]
Sent == [minute : Minutes, nth : Nat]

MarketTypes == now \in Times /\ market \in [Minutes -> Seq(Prices)]
HistoryTypes ==
    /\ net \subseteq Sent /\ table \in [Minutes -> MaybeCandle]
    /\ active \in MaybeCandle /\ ticked \in MaybeCandle /\ flushed \in MaybeCandle
    /\ closed_end \in Nat /\ sync \in Syncs /\ source \in {"DELTA", "FYERS"}
    /\ seen \in [Minutes -> Nat] /\ missed \subseteq Minutes /\ taken \subseteq Minutes

(* The minute is over: no more trades in it.                               *)
Over(m) == EndOf(m) <= now

InNet(m) == \E k \in net : k.minute = m

(* The candle of the first n trades of its minute.                         *)
OfFirst(c, n) == Summary(c, market[c.minute], n)

(* A trade is of a minute that has begun, and a tick is a trade.           *)
TradesOK ==
    /\ \A m \in Traded : StartOf(m) <= now /\ InSession(m)
    /\ \A k \in net : k.nth \in 1..Len(market[k.minute])

(* What this run has not seen of a minute it has missed, or is on its way; *)
(* what it has seen it has taken out of memory, or is in the active candle.*)
SeenOK(m) ==
    /\ seen[m] <= Len(market[m])
    /\ m \in missed \/ \A i \in (seen[m] + 1)..Len(market[m]) : [minute |-> m, nth |-> i] \in net
    /\ seen[m] > 0 => m \in missed \/ m \in taken \/ (active # NoCandle /\ active.minute = m)

TakenOK == \A m \in taken : EndOf(m) <= closed_end

ActiveOK ==
    active # NoCandle =>
        /\ active.minute \in Traded /\ EndOf(active.minute) > closed_end
        /\ active.minute \in missed \/ OfFirst(active, seen[active.minute])

(* A candle on its way to the table.                                       *)
LeavingOK(c) ==
    c # NoCandle =>
        /\ c.minute \in Traded /\ Over(c.minute)
        /\ c.minute \in missed \/ (c.minute \in taken /\ OfFirst(c, seen[c.minute]))

RowOK(m) ==
    table[m] # NoCandle =>
        /\ m \in Traded /\ Over(m)
        /\ table[m] = Exact(m) \/ m \in missed \/ (m \in taken /\ InNet(m))

(* A sync has filled the part of its range before the cursor.              *)
Filled(m) ==
    StartOf(m) >= sync.start /\ EndOf(m) <= sync.end /\ StartOf(m) < sync.cursor
        => table[m] = Exact(m)
SyncOK ==
    sync.stage # "idle" => sync.end <= now /\ \A m \in Traded \ sync.touched : Filled(m)

MemoryOK ==
    /\ TradesOK /\ (\A m \in Minutes : SeenOK(m)) /\ TakenOK
    /\ ActiveOK /\ LeavingOK(ticked) /\ LeavingOK(flushed)
RowsOK == \A m \in Minutes : RowOK(m)
HistoryInv == MarketTypes /\ HistoryTypes /\ MemoryOK /\ RowsOK /\ SyncOK

-----------------------------------------------------------------------------
(* What the steps have in common.                                          *)

(* The exchange's candle of a minute, before and after a step.             *)
LEMMA ExactIs ==
    ASSUME NEW m \in Minutes
    PROVE  Exact(m) = CandleOf(m, market[m]) /\ Exact(m)' = CandleOf(m, market'[m])
<1> QED BY DEF Exact, CandleOf

(* The exchange's candle of a traded minute is a candle of it.             *)
LEMMA ExactIsCandle ==
    ASSUME MarketTypes, NEW m \in Traded
    PROVE  /\ m \in Minutes /\ Exact(m) \in Candles /\ Exact(m) # NoCandle
           /\ Exact(m).minute = m
<1>1. m \in Minutes /\ market[m] # <<>> /\ market[m] \in Seq(Prices)
  BY DEF Traded, MarketTypes
<1>2. CandleOf(m, market[m]) \in Candles
  BY <1>1, CandleExists
<1>3. Exact(m) = CandleOf(m, market[m])
  BY <1>1, ExactIs
<1> QED BY <1>1, <1>2, <1>3, NoCandleAssumption DEF CandleOf

(* The constants a proof about the history needs.                          *)
LEMMA HistoryConstants ==
    /\ MinuteLen \in Nat /\ MinuteLen > 0 /\ MaxMinute \in Nat /\ Horizon \in Nat
    /\ \A m \in Minutes : m \in Nat
    /\ \A t \in Times : t \in Nat /\ t <= Horizon
    /\ \A c \in Candles : c # NoCandle /\ c.minute \in Minutes
<1>1. MinuteLen \in Nat /\ MinuteLen > 0 /\ MaxMinute \in Nat
  BY HistoryAssumption
<1>2. Horizon \in Nat
  BY <1>1, MinuteBounds DEF Horizon, EndOf
<1>3. \A c \in Candles : c # NoCandle /\ c.minute \in Minutes
  BY NoCandleAssumption DEF Candles
<1> QED BY <1>1, <1>2, <1>3 DEF Minutes, Times

(* There are finitely many minutes.                                        *)
LEMMA FewMinutes ==
    ASSUME NEW S \in SUBSET Minutes
    PROVE  IsFiniteSet(S) /\ S \in SUBSET Int
<1>1. MaxMinute \in Int /\ 0 \in Int
  BY HistoryConstants
<1>2. IsFiniteSet(0..MaxMinute)
  BY <1>1, FS_Interval
<1>3. IsFiniteSet(Minutes)
  BY <1>2 DEF Minutes
<1>4. IsFiniteSet(S)
  BY <1>3, FS_Subset
<1>5. S \in SUBSET Int
  BY DEF Minutes
<1> QED BY <1>4, <1>5

(* A step that leaves the market and the memory alone, but for candles     *)
(* that have been stored or are lost.                                      *)
LEMMA MemoryStays ==
    ASSUME MemoryOK,
           UNCHANGED <<now, source, market, net, active, closed_end, seen, missed, taken>>,
           ticked' \in {ticked, NoCandle}, flushed' \in {flushed, NoCandle}
    PROVE  MemoryOK'
<1>1. now' = now /\ source' = source /\ market' = market /\ net' = net /\ active' = active
      /\ closed_end' = closed_end /\ seen' = seen /\ missed' = missed /\ taken' = taken
  OBVIOUS
<1>2. TradesOK'
  <2>1. Traded' = Traded
    BY <1>1 DEF Traded
  <2>2. \A m \in Traded : StartOf(m) <= now' /\ InSession(m)'
    BY <1>1 DEF MemoryOK, TradesOK, InSession
  <2> QED BY <2>1, <2>2, <1>1 DEF MemoryOK, TradesOK
<1>3. \A m \in Minutes : SeenOK(m)'
  BY <1>1 DEF MemoryOK, SeenOK
<1>4. TakenOK'
  BY <1>1 DEF MemoryOK, TakenOK
<1>5. ActiveOK'
  BY <1>1 DEF MemoryOK, ActiveOK, Traded, OfFirst
<1>6. LeavingOK(ticked)'
  BY <1>1 DEF MemoryOK, LeavingOK, Traded, OfFirst, Over
<1>7. LeavingOK(flushed)'
  BY <1>1 DEF MemoryOK, LeavingOK, Traded, OfFirst, Over
<1> QED BY <1>2, <1>3, <1>4, <1>5, <1>6, <1>7 DEF MemoryOK

(* A row that a step leaves alone, deletes, or replaces by the exchange's  *)
(* candle of a minute that is over.                                        *)
RowStep(m) ==
    \/ table'[m] \in {table[m], NoCandle}
    \/ table'[m] = Exact(m) /\ m \in Traded /\ Over(m)

LEMMA RowsStay ==
    ASSUME HistoryTypes, MarketTypes, RowsOK, UNCHANGED <<now, market, net, missed, taken>>,
           NEW m \in Minutes, RowStep(m)
    PROVE  RowOK(m)' /\ table'[m] \in MaybeCandle
<1>1. now' = now /\ market' = market /\ net' = net /\ missed' = missed /\ taken' = taken
  OBVIOUS
<1>2. Traded' = Traded /\ (Over(m) <=> Over(m)') /\ (InNet(m) <=> InNet(m)')
  BY <1>1 DEF Traded, Over, InNet
<1>3. Exact(m)' = Exact(m)
  BY <1>1, ExactIs
<1>4. RowOK(m) /\ table[m] \in MaybeCandle
  BY DEF RowsOK, HistoryTypes
<1>5. CASE table'[m] = table[m]
  <2>1. RowOK(m)'
    BY <1>1, <1>2, <1>3, <1>4, <1>5 DEF RowOK
  <2> QED BY <2>1, <1>4, <1>5
<1>6. CASE table'[m] = NoCandle
  BY <1>6 DEF RowOK, MaybeCandle
<1>7. CASE table'[m] = Exact(m) /\ m \in Traded /\ Over(m)
  <2>1. RowOK(m)'
    BY <1>2, <1>3, <1>7 DEF RowOK
  <2> QED BY <2>1, <1>7, ExactIsCandle DEF MaybeCandle
<1> QED BY <1>5, <1>6, <1>7 DEF RowStep
-----------------------------------------------------------------------------
(* The exchange and the clock.                                             *)

(* The initial state: nothing traded, nothing stored.                      *)
LEMMA InitHistory == Init => HistoryInv
<1> SUFFICES ASSUME Init PROVE HistoryInv
  OBVIOUS
<1> USE DEF Init
<1>1. MarketTypes
  BY HistoryConstants DEF MarketTypes, Times
<1>2. HistoryTypes
  <2>1. Idle \in Syncs
    BY DEF Idle, Syncs, Stages
  <2>2. source \in {"DELTA", "FYERS"}
    BY HistoryAssumption
  <2> QED BY <2>1, <2>2 DEF HistoryTypes, MaybeCandle
<1>3. Traded = {}
  BY DEF Traded
<1>4. TradesOK
  BY <1>3 DEF TradesOK
<1>5. ASSUME NEW m \in Minutes PROVE SeenOK(m)
  <2>1. Len(market[m]) = 0 /\ seen[m] = 0
    OBVIOUS
  <2> QED BY <2>1 DEF SeenOK
<1>6. TakenOK /\ ActiveOK /\ LeavingOK(ticked) /\ LeavingOK(flushed)
  BY DEF TakenOK, ActiveOK, LeavingOK
<1>7. RowsOK
  BY DEF RowsOK, RowOK
<1>8. SyncOK
  BY DEF SyncOK, Idle
<1> QED BY <1>1, <1>2, <1>4, <1>5, <1>6, <1>7, <1>8 DEF HistoryInv, MemoryOK

(* As time passes what is over stays over.                                 *)
LEMMA AdvanceKeeps ==
    ASSUME HistoryInv, Advance
    PROVE  HistoryInv'
<1> USE DEF HistoryInv, Advance
<1>1. now \in Nat /\ now' = now + 1 /\ now < Horizon /\ now' \in Nat
  BY HistoryConstants DEF MarketTypes
<1>2. /\ source' = source /\ market' = market /\ net' = net /\ table' = table
      /\ active' = active /\ closed_end' = closed_end /\ ticked' = ticked
      /\ flushed' = flushed /\ sync' = sync /\ seen' = seen /\ missed' = missed
      /\ taken' = taken
  BY DEF service, observers
<1>3. MarketTypes'
  BY <1>1, <1>2, HistoryConstants DEF MarketTypes, Times
<1>4. HistoryTypes'
  BY <1>2 DEF HistoryTypes
<1>5. Traded' = Traded
  BY <1>2 DEF Traded
<1>6. \A m \in Minutes : StartOf(m) \in Nat /\ EndOf(m) \in Nat /\ (Over(m) => Over(m)')
                         /\ (InSession(m) => InSession(m)')
  <2> TAKE m \in Minutes
  <2>1. StartOf(m) \in Nat /\ EndOf(m) \in Nat
    BY MinuteBounds, HistoryConstants
  <2>2. Over(m) => Over(m)'
    BY <1>1, <2>1 DEF Over
  <2>3. InSession(m) => InSession(m)'
    BY <1>2 DEF InSession
  <2> QED BY <2>1, <2>2, <2>3
<1>7. \A m \in Traded : m \in Minutes
  BY DEF Traded
<1>8. TradesOK'
  <2>1. \A m \in Traded : StartOf(m) <= now' /\ InSession(m)'
    BY <1>1, <1>6, <1>7 DEF MemoryOK, TradesOK
  <2> QED BY <1>2, <1>5, <2>1 DEF MemoryOK, TradesOK
<1>9. (\A m \in Minutes : SeenOK(m)') /\ TakenOK'
  BY <1>2 DEF MemoryOK, SeenOK, TakenOK
<1>10. ActiveOK'
  BY <1>2, <1>5 DEF MemoryOK, ActiveOK, OfFirst
<1>11. LeavingOK(ticked)'
  <2>1. ticked # NoCandle => EndOf(ticked.minute) <= now'
    BY <1>6, <1>7 DEF MemoryOK, LeavingOK, Over
  <2> QED BY <1>2, <1>5, <2>1 DEF MemoryOK, LeavingOK, OfFirst, Over
<1>12. LeavingOK(flushed)'
  <2>1. flushed # NoCandle => EndOf(flushed.minute) <= now'
    BY <1>6, <1>7 DEF MemoryOK, LeavingOK, Over
  <2> QED BY <1>2, <1>5, <2>1 DEF MemoryOK, LeavingOK, OfFirst, Over
<1>13. \A m \in Minutes : Exact(m)' = Exact(m)
  BY <1>2, ExactIs
<1>14. RowsOK'
  BY <1>2, <1>5, <1>6, <1>13 DEF RowsOK, RowOK, InNet
<1>15. SyncOK'
  <2>1. sync.stage # "idle" => sync.end <= now'
    <3>1. sync.end \in Nat
      BY DEF HistoryTypes, Syncs
    <3> QED BY <1>1, <3>1 DEF SyncOK
  <2> QED BY <1>2, <1>5, <1>7, <1>13, <2>1 DEF SyncOK, Filled
<1> QED BY <1>3, <1>4, <1>8, <1>9, <1>10, <1>11, <1>12, <1>14, <1>15 DEF MemoryOK

(* A trade is of the minute that is running: of one that is not over.      *)
LEMMA TradeKeeps ==
    ASSUME HistoryInv, NEW p \in Prices, Trade(p)
    PROVE  HistoryInv'
<1> DEFINE r == MinuteOf(now)
<1>1. now \in Nat /\ now < Horizon
  BY HistoryConstants DEF HistoryInv, MarketTypes, Trade
<1>2. r \in Minutes /\ StartOf(r) <= now /\ now < EndOf(r) /\ r \in Nat
  BY <1>1, TheMinute
<1>3. /\ InSession(r) /\ market' = [market EXCEPT ![r] = Append(@, p)]
      /\ \/ /\ net' = net \cup {[minute |-> r, nth |-> Len(market[r]) + 1]}
            /\ missed' = missed
         \/ missed' = missed \cup {r} /\ net' = net
      /\ now' = now /\ source' = source /\ table' = table
      /\ active' = active /\ closed_end' = closed_end /\ ticked' = ticked
      /\ flushed' = flushed /\ sync' = sync /\ seen' = seen /\ taken' = taken
  BY DEF Trade, service
<1> HIDE DEF r
<1> USE DEF HistoryInv
<1>4. market \in [Minutes -> Seq(Prices)] /\ now \in Times
  BY DEF MarketTypes
<1> DEFINE s == market[r]
<1>5. s \in Seq(Prices) /\ Len(s) \in Nat /\ Append(s, p) \in Seq(Prices)
      /\ Len(Append(s, p)) = Len(s) + 1 /\ Append(s, p) # <<>>
  BY <1>2, <1>4
<1>6. market'[r] = Append(s, p) /\ \A m \in Minutes \ {r} : market'[m] = market[m]
  BY <1>2, <1>3, <1>4
<1>7. MarketTypes'
  BY <1>2, <1>3, <1>4, <1>5 DEF MarketTypes
<1>8. HistoryTypes'
  <2>1. [minute |-> r, nth |-> Len(s) + 1] \in Sent
    BY <1>2, <1>5 DEF Sent
  <2>2. net' \subseteq Sent /\ missed' \subseteq Minutes
    BY <2>1, <1>2, <1>3 DEF HistoryTypes
  <2> QED BY <1>3, <2>2 DEF HistoryTypes
<1> HIDE DEF s
<1>9. Traded' = Traded \cup {r}
  <2>1. \A m \in Minutes : market'[m] # <<>> <=> m = r \/ market[m] # <<>>
    BY <1>5, <1>6, <1>2
  <2> QED BY <2>1, <1>2 DEF Traded
<1>10. ~Over(r) /\ \A m \in Minutes : Over(m) <=> Over(m)'
  BY <1>1, <1>2, <1>3, MinuteBounds DEF Over
<1>11. \A m \in Minutes : market[m] \in Seq(Prices) /\ Len(market[m]) \in Nat
                          /\ (m # r => Len(market'[m]) = Len(market[m]))
                          /\ Len(market[m]) <= Len(market'[m])
  <2> TAKE m \in Minutes
  <2>1. market[m] \in Seq(Prices) /\ Len(market[m]) \in Nat
    BY <1>4
  <2>2. CASE m = r
    BY <2>1, <2>2, <1>5, <1>6 DEF s
  <2>3. CASE m # r
    BY <2>1, <2>3, <1>6
  <2> QED BY <2>1, <2>2, <2>3
<1>12. TradesOK'
  <2>1. \A m \in Traded' : StartOf(m) <= now' /\ InSession(m)'
    BY <1>2, <1>3, <1>9 DEF MemoryOK, TradesOK, InSession
  <2>2. \A k \in net : k.minute \in Minutes /\ k.nth \in 1..Len(market[k.minute])
    BY DEF MemoryOK, TradesOK, HistoryTypes, Sent
  <2>3. \A k \in net : k.nth \in 1..Len(market'[k.minute])
    BY <2>2, <1>11
  <2>4. Len(s) + 1 \in 1..Len(market'[r])
    BY <1>5, <1>6
  <2> QED BY <2>1, <2>3, <2>4, <1>3 DEF TradesOK, s
<1>13. ASSUME NEW m \in Minutes PROVE SeenOK(m)'
  <2>1. SeenOK(m) /\ seen[m] \in Nat
    BY DEF MemoryOK, HistoryTypes
  <2>2. seen[m] <= Len(market'[m])
    BY <2>1, <1>11 DEF SeenOK
  <2>3. m \in missed' \/ \A i \in (seen[m] + 1)..Len(market'[m]) : [minute |-> m, nth |-> i] \in net'
    <3>1. CASE m # r
      BY <3>1, <2>1, <1>3, <1>6 DEF SeenOK
    <3>2. CASE m = r /\ missed' = missed
      <4>1. \A i \in (seen[m] + 1)..Len(market'[m]) :
               i \in (seen[m] + 1)..Len(market[m]) \/ i = Len(s) + 1
        BY <3>2, <2>1, <1>5, <1>6 DEF s
      <4>2. m \in missed \/ net' = net \cup {[minute |-> m, nth |-> Len(s) + 1]}
        BY <3>2, <1>3 DEF s
      <4> QED BY <2>1, <3>2, <4>1, <4>2 DEF SeenOK
    <3>3. CASE r \in missed' /\ m = r
      BY <3>3
    <3> QED BY <3>1, <3>2, <3>3, <1>3
  <2>4. seen[m] > 0 => m \in missed' \/ m \in taken \/ (active # NoCandle /\ active.minute = m)
    BY <2>1, <1>3 DEF SeenOK
  <2> QED BY <2>2, <2>3, <2>4, <1>3 DEF SeenOK
<1>14. TakenOK'
  BY <1>3 DEF MemoryOK, TakenOK
<1>15. ASSUME NEW c \in Candles, NEW n, OfFirst(c, n) PROVE OfFirst(c, n)'
  <2>1. c.minute \in Minutes
    BY HistoryConstants
  <2>2. CASE c.minute = r
    BY <2>2, <1>5, <1>6, <1>15, MoreTrades DEF OfFirst, s
  <2>3. CASE c.minute # r
    BY <2>1, <2>3, <1>6, <1>15 DEF OfFirst
  <2> QED BY <2>2, <2>3
<1>16. missed \subseteq missed' /\ Traded \subseteq Traded'
  BY <1>3, <1>9
<1>17. ActiveOK'
  <2>1. active # NoCandle => active \in Candles
    BY DEF HistoryTypes, MaybeCandle
  <2>2. active # NoCandle =>
          /\ active.minute \in Traded' /\ EndOf(active.minute) > closed_end
          /\ active.minute \in missed' \/ OfFirst(active, seen[active.minute])
    BY <1>16 DEF MemoryOK, ActiveOK
  <2>3. ASSUME active # NoCandle, OfFirst(active, seen[active.minute])
        PROVE  Summary(active, market'[active.minute], seen[active.minute])
    <3>1. PICK c \in Candles : c = active
      BY <2>1, <2>3
    <3>2. PICK n : n = seen[active.minute]
      OBVIOUS
    <3>3. OfFirst(c, n)'
      BY <3>1, <3>2, <2>3, <1>15
    <3> QED BY <3>1, <3>2, <3>3 DEF OfFirst
  <2> QED BY <2>2, <2>3, <1>3 DEF ActiveOK, OfFirst
<1>18. ASSUME NEW x \in MaybeCandle, LeavingOK(x) PROVE LeavingOK(x)'
  <2> SUFFICES ASSUME x # NoCandle
               PROVE  /\ x.minute \in Traded' /\ Over(x.minute)'
                      /\ x.minute \in missed' \/ (x.minute \in taken' /\ OfFirst(x, seen[x.minute])')
    BY DEF LeavingOK
  <2>1. x \in Candles /\ x.minute \in Minutes
    BY HistoryConstants DEF MaybeCandle
  <2>2. x.minute \in Traded /\ Over(x.minute)
        /\ (x.minute \in missed \/ (x.minute \in taken /\ OfFirst(x, seen[x.minute])))
    BY <1>18 DEF LeavingOK
  <2>3. ASSUME OfFirst(x, seen[x.minute]) PROVE OfFirst(x, seen[x.minute])'
    <3>1. PICK n : n = seen[x.minute]
      OBVIOUS
    <3>2. OfFirst(x, n)'
      BY <3>1, <2>1, <2>3, <1>15
    <3> QED BY <3>1, <3>2, <1>3
  <2> QED BY <2>1, <2>2, <2>3, <1>3, <1>10, <1>16
<1>19. LeavingOK(ticked)' /\ LeavingOK(flushed)'
  <2>1. PICK x \in MaybeCandle, y \in MaybeCandle : x = ticked /\ y = flushed
    BY DEF HistoryTypes
  <2>2. LeavingOK(x)' /\ LeavingOK(y)'
    BY <2>1, <1>18 DEF MemoryOK
  <2>3. x = ticked' /\ y = flushed'
    BY <2>1, <1>3
  <2> QED BY <2>2, <2>3
<1>20. \A m \in Minutes : Over(m) => Exact(m)' = Exact(m)
  BY <1>6, <1>10, ExactIs
<1>21. RowsOK'
  <2>1. ASSUME NEW m \in Minutes PROVE RowOK(m)'
    <3>1. RowOK(m)
      BY DEF RowsOK
    <3>2. InNet(m) => InNet(m)'
      BY <1>3 DEF InNet
    <3> QED BY <3>1, <3>2, <1>3, <1>10, <1>16, <1>20 DEF RowOK
  <2> QED BY <2>1 DEF RowsOK
<1>22. SyncOK'
  <2> SUFFICES ASSUME sync.stage # "idle"
               PROVE  sync.end <= now /\ \A m \in Traded' \ sync.touched : Filled(m)'
    BY <1>3 DEF SyncOK
  <2>1. sync.end <= now /\ sync.end \in Nat
    BY DEF SyncOK, HistoryTypes, Syncs
  <2>2. ASSUME NEW m \in Traded' \ sync.touched PROVE Filled(m)'
    <3>1. m \in Minutes /\ EndOf(m) \in Nat
      BY <1>2, <1>9, MinuteBounds, HistoryConstants DEF Traded
    <3>2. CASE Over(m)
      <4>1. m \in Traded
        BY <3>2, <1>9, <1>10
      <4>2. Filled(m)
        BY <4>1 DEF SyncOK
      <4> QED BY <4>2, <3>1, <3>2, <1>3, <1>20 DEF Filled
    <3>3. CASE ~Over(m)
      <4>1. ~(EndOf(m) <= sync.end)
        BY <3>1, <3>3, <2>1, <1>1 DEF Over
      <4> QED BY <4>1, <1>3 DEF Filled
    <3> QED BY <3>2, <3>3
  <2> QED BY <2>1, <2>2
<1> QED BY <1>7, <1>8, <1>12, <1>13, <1>14, <1>17, <1>19, <1>21, <1>22 DEF MemoryOK
-----------------------------------------------------------------------------
(* The candle service.                                                     *)

(* What a tick that is late does: nothing but miss its minute.             *)
LateTick(k) ==
    /\ Late(k.minute) /\ UNCHANGED <<service, seen, taken>>
    /\ missed' = missed \cup {k.minute}

(* What a tick in time does: the active candle is of its minute and was    *)
(* before, or was not there, or leaves memory.                             *)
TakenIn(k) ==
    LET m == k.minute
        p == market[m][k.nth]
    IN
    /\ ~Late(m) /\ active' # NoCandle /\ active'.minute = m
    /\ \/ active = NoCandle /\ active' = NewCandle(m, p) /\ ticked' = NoCandle
          /\ closed_end' = closed_end /\ taken' = taken
       \/ active # NoCandle /\ active.minute = m /\ active' = ApplyPrice(active, p)
          /\ ticked' = NoCandle /\ closed_end' = closed_end /\ taken' = taken
       \/ active # NoCandle /\ active.minute < m /\ active' = NewCandle(m, p)
          /\ ticked' = active /\ closed_end' = EndOf(active.minute)
          /\ taken' = taken \cup {active.minute}
    /\ \/ /\ k.nth = seen[m] + 1 /\ seen' = [seen EXCEPT ![m] = @ + 1] /\ missed' = missed
       \/ seen' = seen /\ missed' = missed \cup {m}

(* A tick is late or taken in.                                             *)
LEMMA TickIs ==
    ASSUME HistoryInv, NEW k \in net, Deliver(k)
    PROVE  /\ k = [minute |-> k.minute, nth |-> k.nth] /\ k.minute \in Traded
           /\ k.minute \in Minutes /\ k.nth \in 1..Len(market[k.minute])
           /\ market[k.minute][k.nth] \in Prices /\ active' \in MaybeCandle
           /\ ticked = NoCandle /\ flushed' = flushed /\ net' = net \ {k}
           /\ now' = now /\ source' = source /\ market' = market /\ table' = table
           /\ sync' = sync
           /\ LateTick(k) \/ TakenIn(k)
<1> USE DEF HistoryInv
<1> DEFINE m == k.minute
           p == market[m][k.nth]
<1>1. k \in Sent /\ m \in Minutes /\ k = [minute |-> m, nth |-> k.nth]
  BY DEF HistoryTypes, Sent
<1>2. k.nth \in 1..Len(market[m]) /\ market[m] \in Seq(Prices)
  BY <1>1 DEF MemoryOK, TradesOK, MarketTypes
<1>3. p \in Prices /\ market[m] # <<>>
  BY <1>2
<1>4. m \in Traded
  BY <1>1, <1>3 DEF Traded
<1>5. /\ ticked = NoCandle /\ net' = net \ {k} /\ now' = now /\ source' = source
      /\ market' = market /\ table' = table /\ sync' = sync
      /\ AggregateTick(m, p)
      /\ IF ~Late(m) /\ k.nth = seen[m] + 1
           THEN seen' = [seen EXCEPT ![m] = @ + 1] /\ UNCHANGED missed
           ELSE missed' = missed \cup {m} /\ UNCHANGED seen
      /\ taken' = IF ticked' = NoCandle THEN taken ELSE taken \cup {ticked'.minute}
  BY DEF Deliver
<1> HIDE DEF p, m
<1>6. active \in MaybeCandle /\ (active # NoCandle => active \in Candles)
  BY DEF HistoryTypes, MaybeCandle
<1>7. NewCandle(m, p) \in Candles /\ NewCandle(m, p).minute = m /\ NewCandle(m, p) # NoCandle
  BY <1>1, <1>3, FirstCandle
<1>8. CASE Late(m)
  <2>1. UNCHANGED service
    BY <1>5, <1>8 DEF AggregateTick
  <2>2. ticked' = ticked /\ active' = active /\ flushed' = flushed
    BY <2>1 DEF service
  <2>3. LateTick(k)
    BY <2>1, <2>2, <1>5, <1>8 DEF LateTick, m
  <2> QED BY <2>2, <2>3, <1>1, <1>2, <1>3, <1>4, <1>5, <1>6 DEF m, p
<1>9. CASE ~Late(m)
  <2>1. \/ k.nth = seen[m] + 1 /\ seen' = [seen EXCEPT ![m] = @ + 1] /\ missed' = missed
        \/ seen' = seen /\ missed' = missed \cup {m}
    BY <1>5
  <2>2. CASE active = NoCandle
    <3>1. active' = NewCandle(m, p) /\ closed_end' = closed_end /\ ticked' = ticked
          /\ flushed' = flushed
      BY <2>2, <1>5, <1>9 DEF AggregateTick
    <3>2. taken' = taken
      BY <3>1, <1>5
    <3>3. TakenIn(k)
      BY <2>1, <2>2, <3>1, <3>2, <1>5, <1>7, <1>9 DEF TakenIn, m, p
    <3> QED BY <3>1, <3>3, <1>1, <1>2, <1>3, <1>4, <1>5, <1>7 DEF m, p, MaybeCandle
  <2>3. CASE active # NoCandle /\ active.minute = m
    <3>1. active' = ApplyPrice(active, p) /\ closed_end' = closed_end /\ ticked' = ticked
          /\ flushed' = flushed
      <4>1. ~(active.minute < m)
        BY <2>3, <1>1, HistoryConstants
      <4> QED BY <4>1, <2>3, <1>5, <1>9 DEF AggregateTick
    <3>2. taken' = taken
      BY <3>1, <1>5
    <3>3. active' \in Candles /\ active'.minute = m /\ active' # NoCandle
      BY <3>1, <2>3, <1>1, <1>3, <1>6, CandleTypes, NoCandleAssumption
    <3>4. TakenIn(k)
      BY <2>1, <2>3, <3>1, <3>2, <3>3, <1>5, <1>9 DEF TakenIn, m, p
    <3> QED BY <3>1, <3>3, <3>4, <1>1, <1>2, <1>3, <1>4, <1>5 DEF m, p, MaybeCandle
  <2>4. CASE active # NoCandle /\ active.minute < m
    <3>1. active' = NewCandle(m, p) /\ closed_end' = EndOf(active.minute)
          /\ ticked' = active /\ flushed' = flushed
      <4>1. active.minute # m
        BY <2>4, <1>1, <1>6, HistoryConstants
      <4> QED BY <4>1, <2>4, <1>5, <1>9 DEF AggregateTick
    <3>2. taken' = taken \cup {active.minute}
      BY <3>1, <2>4, <1>5
    <3>3. TakenIn(k)
      BY <2>1, <2>4, <3>1, <3>2, <1>5, <1>7, <1>9 DEF TakenIn, m, p
    <3> QED BY <3>1, <3>3, <1>1, <1>2, <1>3, <1>4, <1>5, <1>7 DEF m, p, MaybeCandle
  <2> QED BY <2>2, <2>3, <2>4, <1>5, <1>9 DEF AggregateTick
<1> QED BY <1>8, <1>9

(* Every tick, late or in time, leaves what has been seen, missed and      *)
(* taken in agreement with what is in memory.                              *)
LEMMA DeliverKeeps ==
    ASSUME HistoryInv, NEW k \in net, Deliver(k)
    PROVE  HistoryInv'
<1> DEFINE m == k.minute
           p == market[m][k.nth]
<1>1. /\ k = [minute |-> m, nth |-> k.nth] /\ m \in Traded /\ m \in Minutes
      /\ k.nth \in 1..Len(market[m]) /\ p \in Prices /\ active' \in MaybeCandle
      /\ ticked = NoCandle /\ flushed' = flushed /\ net' = net \ {k}
      /\ now' = now /\ source' = source /\ market' = market /\ table' = table
      /\ sync' = sync
      /\ LateTick(k) \/ TakenIn(k)
  BY TickIs
<1> HIDE DEF p, m
<1> USE DEF HistoryInv
<1>2. m \in Nat /\ EndOf(m) \in Nat /\ StartOf(m) \in Nat /\ StartOf(m) < EndOf(m)
  BY <1>1, HistoryConstants, MinuteBounds
<1>3. /\ active \in MaybeCandle /\ closed_end \in Nat /\ seen \in [Minutes -> Nat]
      /\ market \in [Minutes -> Seq(Prices)] /\ now \in Nat
      /\ missed \subseteq Minutes /\ taken \subseteq Minutes
  BY HistoryConstants DEF HistoryTypes, MarketTypes
<1>4. active # NoCandle => /\ active \in Candles /\ active.minute \in Minutes
                           /\ active.minute \in Nat /\ EndOf(active.minute) \in Nat
  BY <1>3, HistoryConstants, MinuteBounds DEF MaybeCandle
<1>5. CASE LateTick(k)
  <2>1. /\ Late(m) /\ active' = active /\ closed_end' = closed_end /\ ticked' = ticked
        /\ seen' = seen /\ taken' = taken /\ missed' = missed \cup {m}
    BY <1>5 DEF LateTick, service, m
  <2>2. MarketTypes' /\ HistoryTypes'
    BY <1>1, <2>1 DEF MarketTypes, HistoryTypes
  <2>3. Traded' = Traded
    BY <1>1 DEF Traded
  <2>4. TradesOK'
    <3>1. \A x \in Traded' : StartOf(x) <= now' /\ InSession(x)'
      BY <1>1, <2>3 DEF MemoryOK, TradesOK, InSession
    <3> QED BY <3>1, <1>1 DEF MemoryOK, TradesOK
  <2>5. ASSUME NEW x \in Minutes PROVE SeenOK(x)'
    <3>1. SeenOK(x)
      BY DEF MemoryOK
    <3>2. x \in missed' \/ \A i \in (seen'[x] + 1)..Len(market'[x]) : [minute |-> x, nth |-> i] \in net'
      <4>1. x # m => \A i \in Nat : [minute |-> x, nth |-> i] # k
        BY <1>1
      <4> QED BY <3>1, <4>1, <1>1, <1>3, <2>1 DEF SeenOK
    <3> QED BY <3>1, <3>2, <1>1, <2>1 DEF SeenOK
  <2>6. TakenOK' /\ ActiveOK'
    BY <1>1, <2>1, <2>3 DEF MemoryOK, TakenOK, ActiveOK, OfFirst
  <2>7. LeavingOK(ticked)' /\ LeavingOK(flushed)'
    BY <1>1, <2>1, <2>3 DEF MemoryOK, LeavingOK, OfFirst, Over
  <2>8. ASSUME NEW x \in Minutes PROVE RowOK(x)'
    <3>1. RowOK(x) /\ Exact(x)' = Exact(x)
      BY <1>1, ExactIs DEF RowsOK
    <3>2. InNet(x) => InNet(x)' \/ x = m
      BY <1>1 DEF InNet, m
    <3> QED BY <3>1, <3>2, <1>1, <2>1, <2>3 DEF RowOK, Over
  <2>9. SyncOK'
    <3>1. \A x \in Traded : Exact(x)' = Exact(x)
      BY <1>1, ExactIs DEF Traded
    <3> QED BY <3>1, <1>1, <2>3 DEF SyncOK, Filled
  <2> QED BY <2>2, <2>4, <2>5, <2>6, <2>7, <2>8, <2>9 DEF MemoryOK, RowsOK
<1>6. CASE TakenIn(k)
  <2>1. ~Late(m) /\ active' # NoCandle /\ active'.minute = m
    BY <1>6 DEF TakenIn, m
  <2>2. \/ active = NoCandle /\ active' = NewCandle(m, p) /\ ticked' = NoCandle
           /\ closed_end' = closed_end /\ taken' = taken
        \/ active # NoCandle /\ active.minute = m /\ active' = ApplyPrice(active, p)
           /\ ticked' = NoCandle /\ closed_end' = closed_end /\ taken' = taken
        \/ active # NoCandle /\ active.minute < m /\ active' = NewCandle(m, p)
           /\ ticked' = active /\ closed_end' = EndOf(active.minute)
           /\ taken' = taken \cup {active.minute}
    BY <1>6 DEF TakenIn, m, p
  <2>3. \/ /\ k.nth = seen[m] + 1 /\ seen' = [seen EXCEPT ![m] = @ + 1] /\ missed' = missed
        \/ seen' = seen /\ missed' = missed \cup {m}
    BY <1>6 DEF TakenIn, m
  <2>4. EndOf(m) > closed_end /\ m \notin taken
    <3>1. ~(EndOf(m) <= closed_end)
      BY <2>1 DEF Late
    <3> QED BY <3>1, <1>2, <1>3 DEF MemoryOK, TakenOK
  <2>5. closed_end' \in Nat /\ closed_end <= closed_end' /\ closed_end' < EndOf(m)
        /\ taken \subseteq taken' /\ taken' \subseteq Minutes /\ ticked' \in MaybeCandle
    <3>1. CASE closed_end' = closed_end /\ taken' = taken /\ ticked' = NoCandle
      BY <3>1, <1>3, <2>4 DEF MaybeCandle
    <3>2. CASE active # NoCandle /\ active.minute < m /\ ticked' = active
               /\ closed_end' = EndOf(active.minute) /\ taken' = taken \cup {active.minute}
      <4>1. EndOf(active.minute) > closed_end
        BY <3>2 DEF MemoryOK, ActiveOK
      <4>2. EndOf(active.minute) <= StartOf(m)
        BY <3>2, <1>2, <1>4, MinutesAscend
      <4> QED BY <4>1, <4>2, <3>2, <1>2, <1>3, <1>4
    <3> QED BY <3>1, <3>2, <2>2
  <2>6. MarketTypes' /\ HistoryTypes'
    <3>1. seen' \in [Minutes -> Nat]
      <4>1. CASE seen' = [seen EXCEPT ![m] = @ + 1]
        <5>1. seen[m] + 1 \in Nat
          BY <1>1, <1>3
        <5> QED BY <4>1, <5>1, <1>1, <1>3
      <4> QED BY <4>1, <1>3, <2>3
    <3>2. missed' \subseteq Minutes
      BY <1>1, <1>3, <2>3
    <3> QED BY <3>1, <3>2, <1>1, <2>5 DEF MarketTypes, HistoryTypes
  <2>7. Traded' = Traded
    BY <1>1 DEF Traded
  <2>8. TradesOK'
    <3>1. \A x \in Traded' : StartOf(x) <= now' /\ InSession(x)'
      BY <1>1, <2>7 DEF MemoryOK, TradesOK, InSession
    <3> QED BY <3>1, <1>1 DEF MemoryOK, TradesOK
  <2>9. \A x \in Minutes : x # m => seen'[x] = seen[x] /\ (x \in missed' <=> x \in missed)
    BY <1>3, <2>3
  <2>10. m \in missed' \/ /\ k.nth = seen[m] + 1 /\ seen'[m] = k.nth /\ missed' = missed
    BY <1>1, <1>3, <2>3
  <2>11. missed \subseteq missed' /\ seen'[m] <= Len(market[m]) /\ seen'[m] \in Nat
    <3>1. seen[m] <= Len(market[m]) /\ Len(market[m]) \in Nat /\ seen[m] \in Nat
      BY <1>1, <1>3 DEF MemoryOK, SeenOK
    <3> QED BY <3>1, <1>1, <1>3, <2>3
  <2>12. ASSUME NEW x \in Minutes PROVE SeenOK(x)'
    <3>1. SeenOK(x) /\ seen[x] \in Nat /\ Len(market[x]) \in Nat
      BY <1>3 DEF MemoryOK
    <3>2. seen'[x] <= Len(market'[x])
      BY <3>1, <1>1, <2>9, <2>11 DEF SeenOK
    <3>3. x \in missed' \/ \A i \in (seen'[x] + 1)..Len(market'[x]) : [minute |-> x, nth |-> i] \in net'
      <4>1. CASE x # m
        <5>1. \A i \in Nat : [minute |-> x, nth |-> i] # k
          BY <4>1, <1>1
        <5> QED BY <5>1, <4>1, <3>1, <1>1, <2>9 DEF SeenOK
      <4>2. CASE x = m /\ x \notin missed'
        <5>1. seen'[m] = seen[m] + 1 /\ k.nth = seen[m] + 1 /\ m \notin missed
          BY <4>2, <2>10
        <5>2. ASSUME NEW i \in (seen'[m] + 1)..Len(market[m])
              PROVE  [minute |-> m, nth |-> i] \in net'
          <6>1. i \in (seen[m] + 1)..Len(market[m]) /\ i # k.nth
            BY <5>1, <3>1, <4>2
          <6>2. [minute |-> m, nth |-> i] \in net
            BY <6>1, <5>1, <4>2, <3>1 DEF SeenOK
          <6>3. [minute |-> m, nth |-> i] # k
            BY <6>1
          <6> QED BY <6>2, <6>3, <1>1
        <5> QED BY <5>2, <4>2, <1>1
      <4> QED BY <4>1, <4>2
    <3>4. seen'[x] > 0 => x \in missed' \/ x \in taken' \/ (active' # NoCandle /\ active'.minute = x)
      <4>1. CASE x = m
        BY <4>1, <2>1
      <4>2. CASE x # m
        <5>1. (active # NoCandle /\ active.minute = x) => x \in taken'
          BY <4>2, <2>2
        <5> QED BY <5>1, <4>2, <3>1, <2>5, <2>9, <2>11 DEF SeenOK
      <4> QED BY <4>1, <4>2
    <3> QED BY <3>2, <3>3, <3>4 DEF SeenOK
  <2>13. TakenOK'
    <3>1. \A x \in taken : EndOf(x) \in Nat /\ EndOf(x) <= closed_end
      BY <1>3, MinuteBounds, HistoryConstants DEF MemoryOK, TakenOK
    <3>2. \A x \in taken : EndOf(x) <= closed_end'
      BY <3>1, <1>3, <2>5
    <3>3. taken' = taken \/ /\ taken' = taken \cup {active.minute}
                            /\ closed_end' = EndOf(active.minute)
                            /\ EndOf(active.minute) \in Nat
      BY <1>4, <2>2
    <3> QED BY <3>2, <3>3 DEF TakenOK
  <2>14. m \in missed \/ active = NoCandle \/ active.minute = m \/ seen[m] = 0
    <3>1. seen[m] \in Nat /\ SeenOK(m)
      BY <1>1, <1>3 DEF MemoryOK
    <3> QED BY <3>1, <2>4 DEF SeenOK
  <2>15. m \in missed' \/ Summary(active', market[m], k.nth)
    <3> SUFFICES ASSUME m \notin missed' PROVE Summary(active', market[m], k.nth)
      OBVIOUS
    <3>1. k.nth = seen[m] + 1 /\ m \notin missed /\ market[m] \in Seq(Prices)
          /\ seen[m] \in Nat /\ market[m] # <<>>
      BY <1>1, <1>3, <2>10, <2>11 DEF Traded
    <3>2. CASE active # NoCandle /\ active.minute = m
      <4>1. Summary(active, market[m], seen[m])
        BY <3>1, <3>2 DEF MemoryOK, ActiveOK, OfFirst
      <4>2. active \in Candles /\ seen[m] + 1 <= Len(market[m])
        BY <3>1, <3>2, <1>1, <1>4
      <4>3. Summary(ApplyPrice(active, market[m][seen[m] + 1]), market[m], seen[m] + 1)
        BY <4>1, <4>2, <3>1, NextTrade
      <4>4. active' = ApplyPrice(active, p)
        BY <3>2, <2>2, <1>2
      <4> QED BY <4>3, <4>4, <3>1 DEF p
    <3>3. CASE ~(active # NoCandle /\ active.minute = m)
      <4>1. seen[m] = 0
        <5>1. SeenOK(m)
          BY <1>1 DEF MemoryOK
        <5> QED BY <5>1, <3>1, <3>3, <2>4 DEF SeenOK
      <4>2. active' = NewCandle(m, market[m][1])
        BY <4>1, <3>1, <3>3, <2>2 DEF p
      <4> QED BY <4>1, <4>2, <3>1, <1>1, FirstTrade
    <3> QED BY <3>2, <3>3
  <2>16. ActiveOK'
    <3>1. active'.minute \in Traded' /\ EndOf(active'.minute) > closed_end'
      BY <1>1, <1>2, <2>1, <2>5, <2>7
    <3>2. m \in missed' \/ seen'[m] = k.nth
      BY <2>10
    <3>3. active'.minute \in missed' \/ OfFirst(active, seen[active.minute])'
      BY <2>1, <2>15, <3>2, <1>1 DEF OfFirst
    <3> QED BY <3>1, <3>3 DEF ActiveOK
  <2>17. LeavingOK(ticked)'
    <3> SUFFICES ASSUME ticked' # NoCandle PROVE LeavingOK(ticked)'
      BY DEF LeavingOK
    <3>1. /\ active # NoCandle /\ active.minute < m /\ ticked' = active
          /\ active.minute \in taken'
      BY <2>2
    <3>2. active.minute \in Traded /\ (active.minute \in missed \/ OfFirst(active, seen[active.minute]))
      BY <3>1 DEF MemoryOK, ActiveOK
    <3>3. EndOf(active.minute) <= now'
      <4>1. EndOf(active.minute) <= StartOf(m)
        BY <3>1, <1>2, <1>4, MinutesAscend
      <4>2. StartOf(m) <= now
        BY <1>1 DEF MemoryOK, TradesOK
      <4>3. EndOf(active.minute) \in Nat
        BY <3>1, <1>4
      <4> QED BY <4>1, <4>2, <4>3, <1>1, <1>2, <1>3
    <3>4. active.minute # m /\ active.minute \in Minutes
      BY <3>1, <1>2, <1>4
    <3>5. seen'[active.minute] = seen[active.minute]
      BY <3>4, <2>9
    <3> QED BY <3>1, <3>2, <3>3, <3>5, <1>1, <2>7, <2>11 DEF LeavingOK, OfFirst, Over
  <2>18. LeavingOK(flushed)'
    <3> SUFFICES ASSUME flushed # NoCandle PROVE LeavingOK(flushed)'
      BY <1>1 DEF LeavingOK
    <3>1. flushed.minute \in Traded /\ Over(flushed.minute) /\ flushed.minute \in Minutes
      BY DEF MemoryOK, LeavingOK, Traded
    <3>2. \/ flushed.minute \in missed'
          \/ /\ flushed.minute \in taken' /\ flushed.minute # m
             /\ OfFirst(flushed, seen[flushed.minute])
      BY <2>4, <2>5, <2>11 DEF MemoryOK, LeavingOK
    <3>3. flushed.minute # m => seen'[flushed.minute] = seen[flushed.minute]
      BY <3>1, <2>9
    <3> QED BY <3>1, <3>2, <3>3, <1>1, <2>7 DEF LeavingOK, OfFirst, Over
  <2>19. ASSUME NEW x \in Minutes PROVE RowOK(x)'
    <3>1. RowOK(x) /\ Exact(x)' = Exact(x)
      BY <1>1, ExactIs DEF RowsOK
    <3>2. x \in taken => x # m
      BY <2>4
    <3>3. InNet(x) => InNet(x)' \/ x = m
      BY <1>1 DEF InNet, m
    <3> QED BY <3>1, <3>2, <3>3, <1>1, <2>5, <2>7, <2>11 DEF RowOK, Over
  <2>20. SyncOK'
    <3>1. \A x \in Traded : Exact(x)' = Exact(x)
      BY <1>1, ExactIs DEF Traded
    <3> QED BY <3>1, <1>1, <2>7 DEF SyncOK, Filled
  <2> QED BY <2>6, <2>8, <2>12, <2>13, <2>16, <2>17, <2>18, <2>19, <2>20 DEF MemoryOK, RowsOK
<1> QED BY <1>1, <1>5, <1>6
(* The last trade, sent again, is a trade: nothing else was on its way.    *)
LEMMA SnapshotKeeps ==
    ASSUME HistoryInv, Snapshot
    PROVE  HistoryInv'
<1> USE DEF HistoryInv
<1> DEFINE m == Max(Traded)
           k == [minute |-> m, nth |-> Len(market[m])]
<1>1. /\ net = {} /\ net' = {k} /\ Traded # {} /\ now' = now /\ source' = source
      /\ market' = market /\ table' = table /\ sync' = sync /\ active' = active
      /\ closed_end' = closed_end /\ ticked' = ticked /\ flushed' = flushed
      /\ seen' = seen /\ missed' = missed /\ taken' = taken
  BY DEF Snapshot, service, observers
<1>2. m \in Traded
  <2>1. Traded \subseteq 0..MaxMinute
    BY DEF Traded, Minutes
  <2>2. IsFiniteSet(Traded)
    BY <2>1, FewMinutes DEF Minutes
  <2>3. Traded \in SUBSET Int
    BY <2>1
  <2> QED BY <2>2, <2>3, <1>1, HasMax
<1> HIDE DEF m
<1>3. m \in Minutes /\ market[m] \in Seq(Prices) /\ market[m] # <<>>
  BY <1>2 DEF Traded, MarketTypes
<1>4. Len(market[m]) \in Nat /\ Len(market[m]) \in 1..Len(market[m])
  BY <1>3
<1>5. MarketTypes' /\ HistoryTypes'
  <2>1. net' \subseteq Sent
    BY <1>1, <1>3, <1>4 DEF Sent
  <2> QED BY <2>1, <1>1 DEF MarketTypes, HistoryTypes
<1>6. Traded' = Traded
  BY <1>1 DEF Traded
<1>7. TradesOK'
  <2>1. \A x \in Traded' : StartOf(x) <= now' /\ InSession(x)'
    BY <1>1, <1>6 DEF MemoryOK, TradesOK, InSession
  <2> QED BY <2>1, <1>1, <1>4 DEF TradesOK
<1>8. ASSUME NEW x \in Minutes PROVE SeenOK(x)'
  <2>1. SeenOK(x)
    BY DEF MemoryOK
  <2>2. x \in missed' \/ \A i \in (seen'[x] + 1)..Len(market'[x]) : [minute |-> x, nth |-> i] \in net'
    BY <2>1, <1>1 DEF SeenOK
  <2> QED BY <2>1, <2>2, <1>1 DEF SeenOK
<1>9. TakenOK' /\ ActiveOK'
  BY <1>1, <1>6 DEF MemoryOK, TakenOK, ActiveOK, OfFirst
<1>10. LeavingOK(ticked)' /\ LeavingOK(flushed)'
  BY <1>1, <1>6 DEF MemoryOK, LeavingOK, OfFirst, Over
<1>11. ASSUME NEW x \in Minutes PROVE RowOK(x)'
  <2>1. RowOK(x) /\ Exact(x)' = Exact(x) /\ ~InNet(x)
    BY <1>1, ExactIs DEF RowsOK, InNet
  <2> QED BY <2>1, <1>1, <1>6 DEF RowOK, Over
<1>12. SyncOK'
  <2>1. \A x \in Traded : Exact(x)' = Exact(x)
    BY <1>1, ExactIs DEF Traded
  <2> QED BY <2>1, <1>1, <1>6 DEF SyncOK, Filled
<1> QED BY <1>5, <1>7, <1>8, <1>9, <1>10, <1>11, <1>12 DEF MemoryOK, RowsOK

(* What the flusher takes is over, and late from now on.                   *)
LEMMA FlushKeeps ==
    ASSUME HistoryInv, Flush
    PROVE  HistoryInv'
<1> USE DEF HistoryInv
<1> DEFINE a == active.minute
<1>1. /\ active # NoCandle /\ EndOf(a) <= now /\ closed_end' = EndOf(a)
      /\ flushed' = active /\ active' = NoCandle /\ taken' = taken \cup {a}
      /\ now' = now /\ source' = source /\ market' = market /\ net' = net
      /\ table' = table /\ sync' = sync /\ ticked' = ticked
      /\ seen' = seen /\ missed' = missed
  BY DEF Flush
<1>2. active \in Candles /\ a \in Minutes
  BY <1>1, HistoryConstants DEF HistoryTypes, MaybeCandle
<1>3. EndOf(a) \in Nat /\ closed_end \in Nat /\ EndOf(a) > closed_end /\ a \in Traded
      /\ (a \in missed \/ OfFirst(active, seen[a]))
  BY <1>1, <1>2, MinuteBounds, HistoryConstants DEF HistoryTypes, MemoryOK, ActiveOK
<1> HIDE DEF a
<1>4. MarketTypes' /\ HistoryTypes'
  BY <1>1, <1>2, <1>3 DEF MarketTypes, HistoryTypes, MaybeCandle
<1>5. Traded' = Traded
  BY <1>1 DEF Traded
<1>6. TradesOK'
  <2>1. \A x \in Traded' : StartOf(x) <= now' /\ InSession(x)'
    BY <1>1, <1>5 DEF MemoryOK, TradesOK, InSession
  <2> QED BY <2>1, <1>1 DEF MemoryOK, TradesOK
<1>7. ASSUME NEW x \in Minutes PROVE SeenOK(x)'
  BY <1>1 DEF MemoryOK, SeenOK, a
<1>8. TakenOK'
  <2>1. \A x \in taken : EndOf(x) \in Nat /\ EndOf(x) <= closed_end
    BY MinuteBounds, HistoryConstants DEF MemoryOK, TakenOK, HistoryTypes
  <2> QED BY <2>1, <1>1, <1>3 DEF TakenOK
<1>9. ActiveOK'
  BY <1>1 DEF ActiveOK
<1>10. LeavingOK(ticked)'
  BY <1>1, <1>5 DEF MemoryOK, LeavingOK, OfFirst, Over
<1>11. LeavingOK(flushed)'
  BY <1>1, <1>3, <1>5 DEF LeavingOK, OfFirst, Over, a
<1>12. ASSUME NEW x \in Minutes PROVE RowOK(x)'
  <2>1. RowOK(x) /\ Exact(x)' = Exact(x)
    BY <1>1, ExactIs DEF RowsOK
  <2> QED BY <2>1, <1>1, <1>5 DEF RowOK, Over, InNet
<1>13. SyncOK'
  <2>1. \A x \in Traded : Exact(x)' = Exact(x)
    BY <1>1, ExactIs DEF Traded
  <2> QED BY <2>1, <1>1, <1>5 DEF SyncOK, Filled
<1> QED BY <1>4, <1>6, <1>7, <1>8, <1>9, <1>10, <1>11, <1>12, <1>13 DEF MemoryOK, RowsOK

(* A run that ends has missed what was on its way and what it had seen.    *)
LEMMA LostKeeps ==
    ASSUME HistoryInv, LoseMemory, UNCHANGED <<now, source, market, table>>,
           flushed' \in {flushed, NoCandle}, sync' \in {sync, Idle}
    PROVE  HistoryInv'
<1> USE DEF HistoryInv
<1>1. /\ net' = {} /\ active' = NoCandle /\ closed_end' = 0 /\ ticked' = NoCandle
      /\ seen' = [m \in Minutes |-> 0] /\ taken' = {}
      /\ missed' = missed \cup {k.minute : k \in net} \cup {m \in Minutes : seen[m] > 0}
      /\ now' = now /\ source' = source /\ market' = market /\ table' = table
  BY DEF LoseMemory
<1>2. MarketTypes' /\ HistoryTypes'
  <2>1. sync' \in Syncs
    <3>1. Idle \in Syncs
      BY DEF Idle, Syncs, Stages
    <3> QED BY <3>1 DEF HistoryTypes
  <2>2. missed' \subseteq Minutes
    BY <1>1 DEF HistoryTypes, Sent
  <2>3. flushed' \in MaybeCandle /\ active' \in MaybeCandle /\ ticked' \in MaybeCandle
    BY <1>1 DEF HistoryTypes, MaybeCandle
  <2> QED BY <2>1, <2>2, <2>3, <1>1 DEF MarketTypes, HistoryTypes
<1>3. Traded' = Traded
  BY <1>1 DEF Traded
<1>4. TradesOK'
  <2>1. \A x \in Traded' : StartOf(x) <= now' /\ InSession(x)'
    BY <1>1, <1>3 DEF MemoryOK, TradesOK, InSession
  <2> QED BY <2>1, <1>1 DEF TradesOK
<1>5. \A x \in Minutes : InNet(x) \/ seen[x] > 0 => x \in missed'
  BY <1>1 DEF InNet
<1>6. \A x \in Minutes : seen[x] \in Nat /\ Len(market[x]) \in Nat
  BY DEF HistoryTypes, MarketTypes
<1>7. ASSUME NEW x \in Minutes PROVE SeenOK(x)'
  <2>1. SeenOK(x)
    BY DEF MemoryOK
  <2>2. ASSUME x \notin missed' PROVE Len(market[x]) = 0
    <3>1. x \notin missed /\ ~InNet(x) /\ seen[x] = 0
      BY <2>2, <1>1, <1>5, <1>6
    <3>2. \A i \in 1..Len(market[x]) : [minute |-> x, nth |-> i] \in net
      BY <3>1, <2>1 DEF SeenOK
    <3>3. \A i \in 1..Len(market[x]) : FALSE
      BY <3>1, <3>2 DEF InNet
    <3> QED BY <3>3, <1>6
  <2>3. seen'[x] = 0
    BY <1>1
  <2> QED BY <2>2, <2>3, <1>1, <1>6 DEF SeenOK
<1>8. TakenOK' /\ ActiveOK' /\ LeavingOK(ticked)'
  BY <1>1 DEF TakenOK, ActiveOK, LeavingOK
<1>9. LeavingOK(flushed)'
  <2> SUFFICES ASSUME flushed' # NoCandle PROVE LeavingOK(flushed)'
    BY DEF LeavingOK
  <2>1. flushed' = flushed /\ flushed # NoCandle
    OBVIOUS
  <2>2. flushed.minute \in Traded /\ Over(flushed.minute) /\ flushed.minute \in Minutes
    BY <2>1 DEF MemoryOK, LeavingOK, Traded
  <2>3. flushed.minute \in missed \/ Summary(flushed, market[flushed.minute], seen[flushed.minute])
    BY <2>1 DEF MemoryOK, LeavingOK, OfFirst
  <2>4. Summary(flushed, market[flushed.minute], seen[flushed.minute]) => seen[flushed.minute] > 0
    BY <2>2, <1>6 DEF Summary
  <2>5. flushed.minute \in missed'
    BY <2>2, <2>3, <2>4, <1>1, <1>5
  <2> QED BY <2>1, <2>2, <2>5, <1>1, <1>3 DEF LeavingOK, Over
<1>10. ASSUME NEW x \in Minutes PROVE RowOK(x)'
  <2>1. RowOK(x) /\ Exact(x)' = Exact(x)
    BY <1>1, ExactIs DEF RowsOK
  <2> QED BY <2>1, <1>1, <1>3, <1>5 DEF RowOK, Over
<1>11. SyncOK'
  <2>1. \A x \in Traded : Exact(x)' = Exact(x)
    BY <1>1, ExactIs DEF Traded
  <2>2. CASE sync' = sync
    BY <2>1, <2>2, <1>1, <1>3 DEF SyncOK, Filled
  <2>3. CASE sync' = Idle
    BY <2>3 DEF SyncOK, Idle
  <2> QED BY <2>2, <2>3
<1> QED BY <1>2, <1>4, <1>7, <1>8, <1>9, <1>10, <1>11 DEF MemoryOK, RowsOK

-----------------------------------------------------------------------------
(* The table.                                                              *)

(* A candle of memory is stored as it left: the exchange's, unless a trade *)
(* of its minute was missed or is on its way.                              *)
LEMMA StoreKeeps ==
    ASSUME HistoryInv, NEW c \in Candles, LeavingOK(c), UpsertCandle(c),
           UNCHANGED <<now, source, market, net, active, closed_end, observers>>,
           ticked' \in {ticked, NoCandle}, flushed' \in {flushed, NoCandle}
    PROVE  HistoryInv'
<1> USE DEF HistoryInv
<1> DEFINE m == c.minute
<1>1. /\ now' = now /\ source' = source /\ market' = market /\ net' = net
      /\ active' = active /\ closed_end' = closed_end
      /\ seen' = seen /\ missed' = missed /\ taken' = taken
      /\ table' = [table EXCEPT ![m] = c]
      /\ sync' = [sync EXCEPT !.touched = IF sync.stage = "idle" THEN @ ELSE @ \cup {m}]
  BY DEF observers, UpsertCandle
<1>2. m \in Minutes /\ c # NoCandle
  BY HistoryConstants
<1>3. m \in Traded /\ Over(m)
      /\ (m \in missed \/ (m \in taken /\ Summary(c, market[m], seen[m])))
  BY <1>2 DEF LeavingOK, OfFirst
<1>4. table \in [Minutes -> MaybeCandle] /\ sync \in Syncs
  BY DEF HistoryTypes
<1>5. c = Exact(m) \/ m \in missed \/ (m \in taken /\ InNet(m))
  <2> SUFFICES ASSUME m \notin missed, ~InNet(m) PROVE c = Exact(m)
    BY <1>3
  <2>1. SeenOK(m) /\ seen[m] \in Nat /\ Len(market[m]) \in Nat /\ market[m] \in Seq(Prices)
    BY <1>2 DEF MemoryOK, HistoryTypes, MarketTypes
  <2>2. \A i \in (seen[m] + 1)..Len(market[m]) : FALSE
    <3>1. \A i \in (seen[m] + 1)..Len(market[m]) : [minute |-> m, nth |-> i] \in net
      BY <2>1 DEF SeenOK
    <3> HIDE DEF m
    <3> QED BY <3>1 DEF InNet
  <2>3. seen[m] = Len(market[m])
    <3>1. seen[m] <= Len(market[m])
      BY <2>1 DEF SeenOK
    <3>2. ~(seen[m] < Len(market[m]))
      <4> HIDE DEF m
      <4>1. seen[m] < Len(market[m]) => Len(market[m]) \in (seen[m] + 1)..Len(market[m])
        BY <2>1
      <4> QED BY <4>1, <2>2
    <3> QED BY <3>1, <3>2, <2>1
  <2>4. Summary(c, market[m], Len(market[m]))
    BY <2>3, <1>3
  <2>5. c = CandleOf(m, market[m])
    BY <2>1, <2>4, OneCandle
  <2> QED BY <2>5, <1>2, ExactIs
<1> HIDE DEF m
<1>6. MemoryOK'
  BY <1>1, MemoryStays
<1>7. sync' \in Syncs /\ sync'.stage = sync.stage /\ sync'.start = sync.start
      /\ sync'.end = sync.end /\ sync'.cursor = sync.cursor
      /\ sync'.touched = IF sync.stage = "idle" THEN sync.touched ELSE sync.touched \cup {m}
  BY <1>1, <1>2, <1>4 DEF Syncs
<1>8. table' \in [Minutes -> MaybeCandle] /\ table'[m] = c
      /\ \A x \in Minutes \ {m} : table'[x] = table[x]
  BY <1>1, <1>2, <1>4 DEF MaybeCandle
<1>9. MarketTypes' /\ HistoryTypes'
  BY <1>1, <1>7, <1>8 DEF MarketTypes, HistoryTypes, MaybeCandle
<1>10. Traded' = Traded
  BY <1>1 DEF Traded
<1>11. ASSUME NEW x \in Minutes PROVE RowOK(x)'
  <2>1. RowOK(x) /\ Exact(x)' = Exact(x)
    BY <1>1, ExactIs DEF RowsOK
  <2>2. CASE x = m
    BY <2>1, <2>2, <1>1, <1>3, <1>5, <1>8, <1>10 DEF RowOK, Over, InNet
  <2>3. CASE x # m
    BY <2>1, <2>3, <1>1, <1>8, <1>10 DEF RowOK, Over, InNet
  <2> QED BY <2>2, <2>3
<1>12. SyncOK'
  <2> SUFFICES ASSUME sync.stage # "idle" PROVE SyncOK'
    BY <1>7 DEF SyncOK
  <2>1. sync'.end <= now'
    BY <1>1, <1>7 DEF SyncOK
  <2>2. ASSUME NEW x \in Traded' \ sync'.touched PROVE Filled(x)'
    <3>1. x \in Traded \ sync.touched /\ x # m /\ x \in Minutes
      BY <1>7, <1>10 DEF Traded
    <3>2. Filled(x) /\ Exact(x)' = Exact(x) /\ table'[x] = table[x]
      BY <3>1, <1>1, <1>8, ExactIs DEF SyncOK
    <3> QED BY <3>2, <1>7 DEF Filled
  <2> QED BY <2>1, <2>2 DEF SyncOK
<1> QED BY <1>6, <1>9, <1>11, <1>12 DEF RowsOK

(* A step that leaves the market and the memory alone, and the table but   *)
(* for rows it deletes or fills with the exchange's candles.               *)
LEMMA QuietKeeps ==
    ASSUME HistoryInv,
           UNCHANGED <<now, source, market, net, active, closed_end, observers>>,
           ticked' \in {ticked, NoCandle}, flushed' \in {flushed, NoCandle},
           DOMAIN table' = Minutes, table' = [m \in DOMAIN table' |-> table'[m]],
           \A m \in Minutes : RowStep(m), sync' \in Syncs, SyncOK'
    PROVE  HistoryInv'
<1> USE DEF HistoryInv
<1>1. /\ now' = now /\ source' = source /\ market' = market /\ net' = net
      /\ active' = active /\ closed_end' = closed_end
      /\ seen' = seen /\ missed' = missed /\ taken' = taken
  BY DEF observers
<1>2. MemoryOK'
  BY <1>1, MemoryStays
<1>3. \A m \in Minutes : RowOK(m)' /\ table'[m] \in MaybeCandle
  BY <1>1, RowsStay
<1>4. table' \in [Minutes -> MaybeCandle]
  BY <1>3
<1>5. MarketTypes' /\ HistoryTypes'
  BY <1>1, <1>4 DEF MarketTypes, HistoryTypes, MaybeCandle
<1> QED BY <1>2, <1>3, <1>5 DEF RowsOK
-----------------------------------------------------------------------------
(* Recovery and maintenance.                                               *)

(* What a sync begins with is a range of the past, none of it filled yet.  *)
LEMMA BeginSyncIs ==
    ASSUME HistoryInv, NEW stage \in Stages, NEW start \in Nat, NEW due \in BOOLEAN,
           BeginSync(stage, start, due), now' = now
    PROVE  sync' \in Syncs /\ SyncOK'
<1>1. now \in Nat /\ MinuteLen \in Nat /\ Retention \in Nat
  BY HistoryConstants, HistoryAssumption DEF HistoryInv, MarketTypes
<1>2. Retention * MinuteLen \in Nat
  BY <1>1
<1>3. Cutoff \in Nat
  BY <1>1, <1>2 DEF Cutoff, Before, MaxOf
<1>4. sync' = [stage |-> stage, cursor |-> start, start |-> start, end |-> now,
               cutoff |-> Cutoff, due |-> due, touched |-> {}]
  BY DEF BeginSync
<1> HIDE DEF Cutoff
<1>5. sync' \in Syncs
  BY <1>1, <1>3, <1>4 DEF Syncs
<1>6. sync'.end = now /\ sync'.start = start /\ sync'.cursor = start
  BY <1>4
<1>7. sync'.end <= now'
  BY <1>1, <1>6
<1>8. \A m \in Minutes : ~(StartOf(m) >= start /\ StartOf(m) < start)
  BY MinuteBounds, HistoryConstants
<1>9. \A m \in Traded' \ sync'.touched : Filled(m)'
  BY <1>6, <1>8 DEF Filled, Traded
<1> QED BY <1>5, <1>7, <1>9 DEF SyncOK

(* A sync of a later stage starts from a time.                             *)
LEMMA StartsAreTimes ==
    ASSUME HistoryInv
    PROVE  RecoveryStart \in Nat /\ MaintenanceStart \in Nat
<1>1. now \in Nat /\ MinuteLen \in Nat /\ Retention \in Nat /\ Reconcile \in Nat
  BY HistoryConstants, HistoryAssumption DEF HistoryInv, MarketTypes
<1>2. Retention * MinuteLen \in Nat /\ Reconcile * MinuteLen \in Nat
  BY <1>1
<1>3. Before(Retention) \in Nat /\ Before(Reconcile) \in Nat
  BY <1>1, <1>2 DEF Before, MaxOf
<1>4. Cutoff \in Nat
  BY <1>3 DEF Cutoff
<1>5. LatestEnd \in Nat
  <2>1. Stored # {} => Max(Stored) \in Minutes
    <3>1. Stored \in SUBSET Minutes
      BY DEF Stored
    <3>2. IsFiniteSet(Stored) /\ Stored \in SUBSET Int
      BY <3>1, FewMinutes
    <3> QED BY <3>1, <3>2, HasMax
  <2> QED BY <2>1, MinuteBounds, HistoryConstants DEF LatestEnd
<1>6. RecoveryStart \in Nat
  BY <1>1, <1>4, <1>5 DEF RecoveryStart, MinOf, MaxOf
<1>7. MaintenanceStart \in Nat
  BY <1>1, <1>3, <1>4 DEF MaintenanceStart, MaxOf
<1> QED BY <1>6, <1>7

LEMMA BeginRecoveryKeeps ==
    ASSUME HistoryInv, BeginRecovery
    PROVE  HistoryInv'
<1>1. RecoveryStart \in Nat /\ "recover" \in Stages
  BY StartsAreTimes DEF Stages
<1>2. BeginSync("recover", RecoveryStart, FALSE) /\ now' = now /\ table' = table
      /\ UNCHANGED <<source, market, net, active, closed_end, observers>>
      /\ ticked' = ticked /\ flushed' = flushed
  BY DEF BeginRecovery, service
<1>3. sync' \in Syncs /\ SyncOK'
  BY <1>1, <1>2, BeginSyncIs
<1>4. table' = [m \in Minutes |-> table'[m]] /\ DOMAIN table' = Minutes
  BY <1>2 DEF HistoryInv, HistoryTypes
<1>5. \A m \in Minutes : RowStep(m)
  BY <1>2 DEF RowStep
<1> QED BY <1>2, <1>3, <1>4, <1>5, QuietKeeps

LEMMA BeginMaintenanceKeeps ==
    ASSUME HistoryInv, BeginMaintenance
    PROVE  HistoryInv'
<1>1. MaintenanceStart \in Nat /\ "maintain" \in Stages
  BY StartsAreTimes DEF Stages
<1>2. BeginSync("maintain", MaintenanceStart, FALSE) /\ now' = now /\ table' = table
      /\ UNCHANGED <<source, market, net, active, closed_end, observers>>
      /\ ticked' = ticked /\ flushed' = flushed
  BY DEF BeginMaintenance, service
<1>3. sync' \in Syncs /\ SyncOK'
  BY <1>1, <1>2, BeginSyncIs
<1>4. table' = [m \in Minutes |-> table'[m]] /\ DOMAIN table' = Minutes
  BY <1>2 DEF HistoryInv, HistoryTypes
<1>5. \A m \in Minutes : RowStep(m)
  BY <1>2 DEF RowStep
<1> QED BY <1>2, <1>3, <1>4, <1>5, QuietKeeps

(* What a request brings and the sync keeps are the exchange's candles of  *)
(* minutes that are over.                                                  *)
LEMMA FetchedExact ==
    ASSUME HistoryInv, sync.stage # "idle", NEW c \in Fetched
    PROVE  /\ c.minute \in Traded /\ c.minute \in Minutes /\ c = Exact(c.minute)
           /\ Over(c.minute) /\ EndOf(c.minute) > sync.cursor
           /\ c \in FetchCandles(sync.cursor, ChunkEnd)
<1>1. c \in FetchCandles(sync.cursor, ChunkEnd) /\ EndOf(c.minute) > sync.cursor
      /\ EndOf(c.minute) <= sync.end
  BY DEF Fetched
<1>2. PICK m \in Traded : c = Exact(m)
  BY <1>1 DEF FetchCandles, DeltaCandles, FyersCandles, StartingIn
<1>3. c.minute = m /\ m \in Minutes
  BY <1>2 DEF Exact, Traded
<1>4. EndOf(m) \in Nat /\ sync.end \in Nat /\ now \in Nat /\ sync.end <= now
  BY <1>3, MinuteBounds, HistoryConstants
     DEF HistoryInv, HistoryTypes, MarketTypes, Syncs, SyncOK
<1>5. Over(m)
  BY <1>1, <1>3, <1>4 DEF Over
<1> QED BY <1>1, <1>2, <1>3, <1>5

(* The table with some of them.                                            *)
LEMMA WithCandlesIs ==
    ASSUME HistoryInv, sync.stage # "idle", NEW S \in SUBSET Fetched, NEW m \in Minutes
    PROVE  WithCandles(S)[m] = IF \E c \in S : c.minute = m THEN Exact(m) ELSE table[m]
<1>1. CASE \E c \in S : c.minute = m
  <2> DEFINE d == CHOOSE c \in S : c.minute = m
  <2>1. d \in S /\ d.minute = m
    BY <1>1
  <2>2. WithCandles(S)[m] = d
    BY <1>1 DEF WithCandles
  <2> HIDE DEF d
  <2>3. d = Exact(m)
    BY <2>1, FetchedExact
  <2> QED BY <1>1, <2>2, <2>3
<1>2. CASE ~\E c \in S : c.minute = m
  BY <1>2 DEF WithCandles
<1> QED BY <1>1, <1>2

LEMMA FilledRows ==
    ASSUME HistoryInv, sync.stage # "idle", NEW S \in SUBSET Fetched,
           table' = WithCandles(S)
    PROVE  /\ DOMAIN table' = Minutes /\ table' = [m \in DOMAIN table' |-> table'[m]]
           /\ \A m \in Minutes : RowStep(m)
<1>1. DOMAIN table' = Minutes /\ table' = [m \in DOMAIN table' |-> table'[m]]
  BY DEF WithCandles
<1>2. ASSUME NEW m \in Minutes PROVE RowStep(m)
  <2>1. CASE \E c \in S : c.minute = m
    <3>1. m \in Traded /\ Over(m)
      BY <2>1, FetchedExact
    <3>2. table'[m] = Exact(m)
      BY <2>1, WithCandlesIs
    <3> QED BY <3>1, <3>2 DEF RowStep
  <2>2. CASE ~\E c \in S : c.minute = m
    <3>1. table'[m] = table[m]
      BY <2>2, WithCandlesIs
    <3> QED BY <3>1 DEF RowStep
  <2> QED BY <2>1, <2>2
<1> QED BY <1>1, <1>2

(* The times of a sync.                                                    *)
LEMMA SyncTimes ==
    ASSUME HistoryInv
    PROVE  /\ sync.cursor \in Nat /\ sync.end \in Nat /\ now \in Nat /\ ChunkEnd \in Nat
           /\ sync.touched \subseteq Minutes
<1>1. sync.cursor \in Nat /\ sync.end \in Nat /\ now \in Nat /\ sync.touched \subseteq Minutes
  BY HistoryConstants DEF HistoryInv, HistoryTypes, MarketTypes, Syncs
<1>2. Chunk \in Nat /\ MinuteLen \in Nat
  BY HistoryAssumption
<1>3. Chunk * MinuteLen \in Nat
  BY <1>2
<1> QED BY <1>1, <1>3 DEF ChunkEnd, MinOf

(* A candle of a window is of a minute that starts in it.                  *)
LEMMA StartsWithin ==
    ASSUME NEW from, NEW to, NEW c \in StartingIn(from, to)
    PROVE  StartOf(c.minute) \in from..to
<1>1. PICK m \in Traded : c = Exact(m) /\ StartOf(m) \in from..to
  BY DEF StartingIn
<1>2. c.minute = m
  BY <1>1 DEF Exact
<1> QED BY <1>1, <1>2

(* The minutes of a response have no gap: a minute that starts within the  *)
(* chunk, or before a minute of the response, is in it.                    *)
LEMMA ResponseHasNoGap ==
    ASSUME HistoryInv, sync.stage # "idle", NEW m \in Traded,
           StartOf(m) >= sync.cursor, EndOf(m) <= sync.end,
           StartOf(m) < ChunkEnd \/ \E c \in Fetched : StartOf(m) <= StartOf(c.minute)
    PROVE  Exact(m) \in Fetched
<1>1. m \in Minutes /\ m \in Nat /\ Exact(m).minute = m
  BY HistoryConstants DEF Exact, Traded
<1>2. StartOf(m) \in Nat /\ EndOf(m) \in Nat /\ StartOf(m) < EndOf(m)
  BY <1>1, MinuteBounds
<1>3. sync.cursor \in Nat /\ sync.end \in Nat /\ now \in Nat /\ ChunkEnd \in Nat
      /\ sync.end <= now
  BY SyncTimes DEF HistoryInv, SyncOK
<1>4. EndOf(m) > sync.cursor
  BY <1>2, <1>3
<1>5. SUFFICES Exact(m) \in FetchCandles(sync.cursor, ChunkEnd)
  BY <1>1, <1>4 DEF Fetched
<1> DEFINE today == DayOf(MinuteOf(now))
           other == DayOf(MinuteOf(sync.cursor)) # today \/ DayOf(MinuteOf(ChunkEnd)) # today
<1>6. CASE FetchCandles(sync.cursor, ChunkEnd) = StartingIn(sync.cursor, ChunkEnd)
  <2>1. SUFFICES StartOf(m) \in sync.cursor..ChunkEnd
    BY <1>6 DEF StartingIn
  <2>2. CASE StartOf(m) < ChunkEnd
    BY <2>2, <1>2, <1>3
  <2>3. CASE \E c \in Fetched : StartOf(m) <= StartOf(c.minute)
    <3>1. PICK c \in Fetched : StartOf(m) <= StartOf(c.minute)
      BY <2>3
    <3>2. c \in StartingIn(sync.cursor, ChunkEnd)
      BY <1>6, FetchedExact
    <3>3. StartOf(c.minute) \in sync.cursor..ChunkEnd
      BY <3>2, StartsWithin
    <3> QED BY <3>1, <3>3, <1>2, <1>3
  <2> QED BY <2>2, <2>3
<1>7. CASE source # "DELTA" /\ ~other
  <2> DEFINE Open == OpenOf(today)
             Close == CloseOf(today)
             close == StartOf(Close)
             open  == StartOf(Open)
             whole == StartOf(MinuteOf(now))
             last  == MinOf(MinOf(ChunkEnd, close), whole)
  <2>1. source = "FYERS"
    BY <1>7 DEF HistoryInv, HistoryTypes
  <2>7. m < MinuteOf(now) /\ EndOf(m) <= whole /\ MinuteOf(now) \in Nat
    <3>0. MinuteOf(now) \in Nat
      BY <1>3, TheMinute
    <3>1. m < MinuteOf(now)
      <4> SUFFICES ASSUME MinuteOf(now) <= m PROVE FALSE
        BY <3>0, <1>1
      <4>1. now < EndOf(MinuteOf(now)) /\ EndOf(MinuteOf(now)) \in Nat
        BY <1>3, <3>0, TheMinute, MinuteBounds
      <4>2. EndOf(m) <= now
        BY <1>2, <1>3
      <4>3. MinuteOf(now) < m => EndOf(MinuteOf(now)) <= StartOf(m)
        BY <3>0, <1>1, MinutesAscend
      <4>4. MinuteOf(now) = m \/ MinuteOf(now) < m
        BY <3>0, <1>1
      <4> QED BY <4>1, <4>2, <4>3, <4>4, <1>2, <1>3
    <3> QED BY <3>0, <3>1, <1>1, MinutesAscend
  <2>2. DayOf(m) = today /\ today \in Nat
    <3>1. MinuteOf(sync.cursor) \in Nat /\ StartOf(MinuteOf(sync.cursor)) <= sync.cursor
          /\ sync.cursor < EndOf(MinuteOf(sync.cursor))
      BY <1>3, TheMinute
    <3>2. MinuteOf(sync.cursor) <= m
      <4> SUFFICES ASSUME m < MinuteOf(sync.cursor) PROVE FALSE
        BY <3>1, <1>1
      <4>1. EndOf(m) <= StartOf(MinuteOf(sync.cursor))
            /\ StartOf(MinuteOf(sync.cursor)) \in Nat
        BY <3>1, <1>1, MinutesAscend, MinuteBounds
      <4> QED BY <4>1, <3>1, <1>2, <1>3, <1>4
    <3>3. DayOf(MinuteOf(sync.cursor)) <= DayOf(m) /\ DayOf(m) \in Nat
      BY <3>1, <3>2, <1>1, DaysAscend
    <3>4. m <= MinuteOf(now)
      BY <2>7, <1>1
    <3>5. DayOf(m) <= today /\ today \in Nat
      BY <3>4, <2>7, <1>1, DaysAscend
    <3>6. DayOf(MinuteOf(sync.cursor)) = today
      BY <1>7
    <3> HIDE DEF today
    <3> QED BY <3>3, <3>5, <3>6
  <2>4. Open <= m /\ m < Close /\ Open \in Nat /\ Close \in Nat
    <3>1. InSession(m)
      BY DEF HistoryInv, MemoryOK, TradesOK
    <3>2. Open \in Nat /\ Close \in Int
      BY <2>2, SessionMinutes
    <3>3. m \in Open..(Close - 1)
      BY <3>1, <2>1, <2>2 DEF InSession
    <3> HIDE DEF Open, Close
    <3> QED BY <3>2, <3>3, <1>1
  <2> HIDE DEF Open, Close, today
  <2>3. close \in Nat /\ open \in Nat /\ whole \in Nat
    BY <2>4, <2>7, MinuteBounds
  <2>5. open <= StartOf(m)
    <3>1. Open < m => EndOf(Open) <= StartOf(m)
      BY <2>4, <1>1, MinutesAscend
    <3>2. open < EndOf(Open) /\ EndOf(Open) \in Nat
      BY <2>4, MinuteBounds
    <3>3. Open = m => open = StartOf(m)
      OBVIOUS
    <3> HIDE DEF open
    <3> QED BY <3>1, <3>2, <3>3, <2>3, <2>4, <1>1, <1>2
  <2>6. EndOf(m) <= close
    BY <2>4, <1>1, MinutesAscend
  <2>8. RequestWindow(sync.cursor, ChunkEnd) = IF last <= open THEN {} ELSE {<<open, last>>}
    BY <1>7 DEF RequestWindow, Open, Close, today
  <2>9. last \in Nat /\ (StartOf(m) < ChunkEnd => StartOf(m) < last)
    <3> HIDE DEF close, whole
    <3> QED BY <2>3, <2>6, <2>7, <1>2, <1>3 DEF MinOf
  <2> HIDE DEF open, last
  <2>10. SUFFICES open < last /\ StartOf(m) <= last
    <3>1. <<open, last>> \in RequestWindow(sync.cursor, ChunkEnd)
      BY <2>3, <2>8, <2>9, <2>10
    <3>2. Exact(m) \in StartingIn(open, last)
      BY <2>3, <2>5, <2>9, <2>10, <1>2 DEF StartingIn
    <3>3. Exact(m) \in FyersCandles(sync.cursor, ChunkEnd)
      <4> DEFINE w == <<open, last>>
      <4>1. w[1] = open /\ w[2] = last
        OBVIOUS
      <4>2. w \in RequestWindow(sync.cursor, ChunkEnd) /\ Exact(m) \in StartingIn(w[1], w[2])
        BY <3>1, <3>2, <4>1
      <4> HIDE DEF w
      <4> QED BY <4>2 DEF FyersCandles
    <3> QED BY <3>3, <1>7 DEF FetchCandles
  <2>11. CASE StartOf(m) < ChunkEnd
    BY <2>11, <2>3, <2>5, <2>9, <1>2
  <2>12. CASE \E c \in Fetched : StartOf(m) <= StartOf(c.minute)
    <3>1. PICK c \in Fetched : StartOf(m) <= StartOf(c.minute)
      BY <2>12
    <3>2. c \in FyersCandles(sync.cursor, ChunkEnd)
      BY <1>7, FetchedExact DEF FetchCandles
    <3>3. PICK w \in RequestWindow(sync.cursor, ChunkEnd) : c \in StartingIn(w[1], w[2])
      BY <3>2 DEF FyersCandles
    <3>4. ~(last <= open) /\ w[1] = open /\ w[2] = last
      BY <3>3, <2>8
    <3>5. StartOf(c.minute) \in open..last
      BY <3>3, <3>4, StartsWithin
    <3> QED BY <3>1, <3>4, <3>5, <2>3, <2>9, <1>2
  <2> QED BY <2>11, <2>12
<1>8. CASE source = "DELTA" \/ other
  <2>1. CASE source = "DELTA"
    BY <2>1, <1>6 DEF FetchCandles, DeltaCandles
  <2>2. CASE source # "DELTA" /\ other
    <3> DEFINE w == <<sync.cursor, ChunkEnd>>
    <3>1. RequestWindow(sync.cursor, ChunkEnd) = {w}
      BY <2>2 DEF RequestWindow
    <3>2. w[1] = sync.cursor /\ w[2] = ChunkEnd
      OBVIOUS
    <3> HIDE DEF w
    <3>3. FyersCandles(sync.cursor, ChunkEnd) = StartingIn(sync.cursor, ChunkEnd)
      BY <3>1, <3>2 DEF FyersCandles
    <3> QED BY <3>3, <2>2, <1>6 DEF FetchCandles
  <2> QED BY <2>1, <2>2, <1>8
<1> QED BY <1>7, <1>8
(* A chunk fills the part of the range that its cursor moves over.         *)
LEMMA SyncChunkKeeps ==
    ASSUME HistoryInv, SyncChunk
    PROVE  HistoryInv'
<1> DEFINE ends == {EndOf(c.minute) : c \in Fetched}
           next == IF Fetched = {} THEN ChunkEnd ELSE Max(ends)
           brought == {c.minute : c \in Fetched}
<1>1. /\ sync.stage # "idle" /\ table' = WithCandles(Fetched)
      /\ sync' = [sync EXCEPT !.cursor = next, !.touched = @ \ brought]
      /\ UNCHANGED <<now, source, market, net, active, closed_end, observers>>
      /\ ticked' = ticked /\ flushed' = flushed
  BY DEF SyncChunk, service
<1>2. /\ sync.cursor \in Nat /\ sync.end \in Nat /\ now \in Nat /\ ChunkEnd \in Nat
      /\ sync.touched \subseteq Minutes /\ sync \in Syncs
  BY SyncTimes DEF HistoryInv, HistoryTypes
<1>3. \A c \in Fetched : /\ c.minute \in Traded /\ c.minute \in Minutes
                         /\ Over(c.minute) /\ EndOf(c.minute) \in 0..now
  <2> TAKE c \in Fetched
  <2>1. c.minute \in Traded /\ c.minute \in Minutes /\ Over(c.minute)
    BY <1>1, FetchedExact
  <2>2. EndOf(c.minute) \in Nat
    BY <2>1, MinuteBounds, HistoryConstants
  <2> QED BY <2>1, <2>2, <1>2 DEF Over
<1>4. Fetched # {} => Max(ends) \in ends /\ Max(ends) \in Nat
  <2> SUFFICES ASSUME Fetched # {} PROVE Max(ends) \in ends /\ Max(ends) \in Nat
    OBVIOUS
  <2>1. ends \in SUBSET (0..now) /\ ends # {}
    BY <1>3
  <2> HIDE DEF ends
  <2>2. IsFiniteSet(0..now)
    BY <1>2, FS_Interval
  <2>3. IsFiniteSet(ends)
    BY <2>1, <2>2, FS_Subset
  <2>4. ends \in SUBSET Int
    BY <2>1, <1>2
  <2>5. Max(ends) \in ends
    BY <2>1, <2>3, <2>4, HasMax
  <2> QED BY <2>1, <2>5, <1>2
<1>5. next \in Nat
  BY <1>2, <1>4
<1>6. Fetched # {} => \E c \in Fetched : EndOf(c.minute) = next
  BY <1>4
<1> HIDE DEF next
<1>7. sync' \in Syncs /\ sync'.stage = sync.stage /\ sync'.start = sync.start
      /\ sync'.end = sync.end /\ sync'.cursor = next
      /\ sync'.touched = sync.touched \ brought
  <2> HIDE DEF brought
  <2> QED BY <1>1, <1>2, <1>5 DEF Syncs
<1>8. /\ DOMAIN table' = Minutes /\ table' = [m \in DOMAIN table' |-> table'[m]]
      /\ \A m \in Minutes : RowStep(m)
  BY <1>1, FilledRows
<1>9. now' = now /\ market' = market
  BY <1>1
<1>10. Traded' = Traded
  BY <1>9 DEF Traded
<1>11. ASSUME NEW m \in Traded \ sync'.touched PROVE Filled(m)'
  <2> SUFFICES ASSUME StartOf(m) >= sync.start, EndOf(m) <= sync.end, StartOf(m) < next
               PROVE  table'[m] = Exact(m)'
    BY <1>7 DEF Filled
  <2>1. m \in Minutes /\ m \in Nat /\ Exact(m)' = Exact(m) /\ Exact(m).minute = m
    BY <1>9, ExactIs, HistoryConstants DEF Traded, Exact
  <2>2. StartOf(m) \in Nat /\ EndOf(m) \in Nat /\ StartOf(m) < EndOf(m)
    BY <2>1, MinuteBounds
  <2>3. CASE Exact(m) \in Fetched
    BY <2>1, <2>3, <1>1, WithCandlesIs
  <2>4. CASE Exact(m) \notin Fetched
    <3>1. ~\E c \in Fetched : c.minute = m
      BY <2>4, <1>1, FetchedExact
    <3>2. m \notin sync.touched
      BY <3>1, <1>7
    <3>3. table'[m] = table[m]
      BY <3>1, <2>1, <1>1, WithCandlesIs
    <3>4. StartOf(m) < sync.cursor
      <4> SUFFICES ASSUME StartOf(m) >= sync.cursor PROVE FALSE
        BY <1>2, <2>2
      <4>1. CASE Fetched = {}
        <5>1. StartOf(m) < ChunkEnd
          BY <4>1 DEF next
        <5> QED BY <5>1, <2>4, <1>1, ResponseHasNoGap
      <4>2. CASE Fetched # {}
        <5>1. PICK c \in Fetched : EndOf(c.minute) = next
          BY <4>2, <1>6
        <5>2. c.minute \in Nat
          BY <1>3, HistoryConstants
        <5>3. StartOf(c.minute) \in Nat /\ StartOf(m) < EndOf(c.minute)
          BY <5>1, <5>2, MinuteBounds
        <5>4. c.minute < m => EndOf(c.minute) <= StartOf(m)
          BY <5>2, <2>1, MinutesAscend
        <5>5. m < c.minute => EndOf(m) <= StartOf(c.minute)
          BY <5>2, <2>1, MinutesAscend
        <5>6. StartOf(m) <= StartOf(c.minute)
          <6>1. EndOf(c.minute) \in Nat
            BY <5>2, MinuteBounds
          <6>2. m < c.minute \/ m = c.minute
            BY <5>2, <5>3, <5>4, <6>1, <2>1, <2>2
          <6>3. CASE m = c.minute
            BY <6>3, <5>3
          <6>4. CASE m < c.minute
            BY <6>4, <5>3, <5>5, <2>2
          <6> QED BY <6>2, <6>3, <6>4
        <5> QED BY <5>6, <2>4, <1>1, ResponseHasNoGap
      <4> QED BY <4>1, <4>2
    <3>5. Filled(m)
      BY <3>2, <1>1 DEF HistoryInv, SyncOK
    <3> QED BY <3>3, <3>4, <3>5, <2>1 DEF Filled
  <2> QED BY <2>3, <2>4
<1>12. SyncOK'
  BY <1>1, <1>7, <1>9, <1>10, <1>11 DEF SyncOK, HistoryInv
<1> QED BY <1>1, <1>7, <1>8, <1>12, QuietKeeps

(* The end of a sync deletes rows and adds none.                           *)
LEMMA EndSyncKeeps ==
    ASSUME HistoryInv, EndSync
    PROVE  HistoryInv'
<1>1. /\ table' = Pruned(sync.cutoff)
      /\ sync' = [Idle EXCEPT !.due = sync.stage = "recover" /\ ScheduledAfter(now)]
      /\ UNCHANGED <<now, source, market, net, active, closed_end, observers>>
      /\ ticked' = ticked /\ flushed' = flushed
  BY DEF EndSync, service
<1>2. DOMAIN table' = Minutes /\ table' = [m \in DOMAIN table' |-> table'[m]]
  BY <1>1 DEF Pruned
<1>3. \A m \in Minutes : RowStep(m)
  BY <1>1 DEF Pruned, RowStep
<1>4. sync' \in Syncs /\ sync'.stage = "idle"
  BY <1>1 DEF Idle, Syncs, Stages
<1>5. SyncOK'
  BY <1>4 DEF SyncOK
<1> QED BY <1>1, <1>2, <1>3, <1>4, <1>5, QuietKeeps

(* A sync that fails has stored some of the exchange's candles.            *)
LEMMA SyncFailsKeeps ==
    ASSUME HistoryInv, SyncFails
    PROVE  HistoryInv'
<1>1. /\ sync.stage # "idle" /\ sync' = Idle
      /\ UNCHANGED <<now, source, market, net, active, closed_end, observers>>
      /\ ticked' = ticked /\ flushed' = flushed
  BY DEF SyncFails, service
<1>2. PICK S \in SUBSET (IF sync.cursor < sync.end THEN Fetched ELSE {}) :
        table' = WithCandles(S)
  BY DEF SyncFails
<1>3. S \in SUBSET Fetched
  OBVIOUS
<1>4. /\ DOMAIN table' = Minutes /\ table' = [m \in DOMAIN table' |-> table'[m]]
      /\ \A m \in Minutes : RowStep(m)
  BY <1>1, <1>2, <1>3, FilledRows
<1>5. sync' \in Syncs /\ SyncOK'
  BY <1>1 DEF Idle, Syncs, Stages, SyncOK
<1> QED BY <1>1, <1>4, <1>5, QuietKeeps

(* A candle that could not be stored is gone, and a run that has ended     *)
(* leaves no sync behind.                                                  *)
LEMMA StoreFlushedFailsKeeps ==
    ASSUME HistoryInv, StoreFlushedFails
    PROVE  HistoryInv'
<1>1. /\ flushed' = NoCandle /\ ticked' = ticked /\ sync' = sync /\ table' = table
      /\ now' = now /\ market' = market
      /\ UNCHANGED <<now, source, market, net, active, closed_end, observers>>
  BY DEF StoreFlushedFails
<1>2. table' = [m \in Minutes |-> table'[m]] /\ DOMAIN table' = Minutes
  BY <1>1 DEF HistoryInv, HistoryTypes
<1>3. \A m \in Minutes : RowStep(m)
  BY <1>1 DEF RowStep
<1>4. Traded' = Traded /\ \A m \in Traded : Exact(m)' = Exact(m)
  BY <1>1, ExactIs DEF Traded
<1>5. sync' \in Syncs /\ SyncOK'
  BY <1>1, <1>4 DEF HistoryInv, HistoryTypes, SyncOK, Filled
<1> QED BY <1>1, <1>2, <1>3, <1>5, QuietKeeps

LEMMA JoinedKeeps ==
    ASSUME HistoryInv, Joined
    PROVE  HistoryInv'
<1>1. /\ sync' = Idle /\ ticked' = ticked /\ flushed' = flushed /\ table' = table
      /\ UNCHANGED <<now, source, market, net, active, closed_end, observers>>
  BY DEF Joined, service
<1>2. table' = [m \in Minutes |-> table'[m]] /\ DOMAIN table' = Minutes
  BY <1>1 DEF HistoryInv, HistoryTypes
<1>3. \A m \in Minutes : RowStep(m)
  BY <1>1 DEF RowStep
<1>4. sync' \in Syncs /\ SyncOK'
  BY <1>1 DEF Idle, Syncs, Stages, SyncOK
<1> QED BY <1>1, <1>2, <1>3, <1>4, QuietKeeps

(* A candle in memory is stored by the thread that took it.                *)
LEMMA StoresKeep ==
    ASSUME HistoryInv, StoreTicked \/ StoreFlushed
    PROVE  HistoryInv'
<1>1. CASE StoreTicked
  <2>1. /\ ticked # NoCandle /\ UpsertCandle(ticked) /\ ticked' = NoCandle
        /\ flushed' = flushed
        /\ UNCHANGED <<now, source, market, net, active, closed_end, observers>>
    BY <1>1 DEF StoreTicked
  <2>2. ticked \in Candles /\ LeavingOK(ticked)
    BY <2>1 DEF HistoryInv, HistoryTypes, MemoryOK, MaybeCandle
  <2> QED BY <2>1, <2>2, StoreKeeps
<1>2. CASE StoreFlushed
  <2>1. /\ flushed # NoCandle /\ UpsertCandle(flushed) /\ flushed' = NoCandle
        /\ ticked' = ticked
        /\ UNCHANGED <<now, source, market, net, active, closed_end, observers>>
    BY <1>2 DEF StoreFlushed
  <2>2. flushed \in Candles /\ LeavingOK(flushed)
    BY <2>1 DEF HistoryInv, HistoryTypes, MemoryOK, MaybeCandle
  <2> QED BY <2>1, <2>2, StoreKeeps
<1> QED BY <1>1, <1>2

(* The steps that end a run.                                               *)
LEMMA EndsKeep ==
    ASSUME HistoryInv, StoreTickedFails \/ Disconnect \/ Kill
    PROVE  HistoryInv'
<1>1. LoseMemory /\ UNCHANGED <<now, source, market, table>>
      /\ flushed' \in {flushed, NoCandle} /\ sync' \in {sync, Idle}
  BY DEF StoreTickedFails, Disconnect, Kill
<1> QED BY <1>1, LostKeeps

(* Nothing happens, but for the flusher.                                   *)
LEMMA StutterKeeps ==
    ASSUME HistoryInv,
           UNCHANGED <<now, source, market, net, table, run, service, sync, observers>>
    PROVE  HistoryInv'
<1>1. /\ sync' = sync /\ ticked' = ticked /\ flushed' = flushed /\ table' = table
      /\ now' = now /\ market' = market
      /\ UNCHANGED <<now, source, market, net, active, closed_end, observers>>
  BY DEF service
<1>2. table' = [m \in Minutes |-> table'[m]] /\ DOMAIN table' = Minutes
  BY <1>1 DEF HistoryInv, HistoryTypes
<1>3. \A m \in Minutes : RowStep(m)
  BY <1>1 DEF RowStep
<1>4. Traded' = Traded /\ \A m \in Traded : Exact(m)' = Exact(m)
  BY <1>1, ExactIs DEF Traded
<1>5. sync' \in Syncs /\ SyncOK'
  BY <1>1, <1>4 DEF HistoryInv, HistoryTypes, SyncOK, Filled
<1> QED BY <1>1, <1>2, <1>3, <1>5, QuietKeeps

LEMMA HistoryNext == HistoryInv /\ [Next]_vars => HistoryInv'
<1> SUFFICES ASSUME HistoryInv, [Next]_vars PROVE HistoryInv'
  OBVIOUS
<1>1. CASE Advance
  BY <1>1, AdvanceKeeps
<1>2. CASE \E p \in Prices : Trade(p)
  BY <1>2, TradeKeeps
<1>3. CASE \E k \in net : Deliver(k)
  BY <1>3, DeliverKeeps
<1>4. CASE Snapshot
  BY <1>4, SnapshotKeeps
<1>5. CASE StoreTicked \/ StoreFlushed
  BY <1>5, StoresKeep
<1>6. CASE StoreTickedFails \/ Disconnect \/ Kill
  BY <1>6, EndsKeep
<1>7. CASE Flush
  BY <1>7, FlushKeeps
<1>8. CASE StoreFlushedFails
  BY <1>8, StoreFlushedFailsKeeps
<1>9. CASE BeginRecovery \/ BeginMaintenance
  BY <1>9, BeginRecoveryKeeps, BeginMaintenanceKeeps
<1>10. CASE SyncChunk
  BY <1>10, SyncChunkKeeps
<1>11. CASE EndSync
  BY <1>11, EndSyncKeeps
<1>12. CASE SyncFails
  BY <1>12, SyncFailsKeeps
<1>13. CASE Joined
  BY <1>13, JoinedKeeps
<1>14. CASE OpenFlusher \/ OpenFlusherFails \/ UNCHANGED vars
  BY <1>14, StutterKeeps DEF OpenFlusher, OpenFlusherFails, vars
<1> QED BY <1>1, <1>2, <1>3, <1>4, <1>5, <1>6, <1>7, <1>8, <1>9, <1>10, <1>11, <1>12,
           <1>13, <1>14 DEF Next

(* In every reachable state of the history, for every market and every     *)
(* order of ticks: what is seen, missed, in memory, leaving it and stored  *)
(* agree, and a sync has filled what its cursor has moved over.            *)
THEOREM HistoryInvariant == Spec => []HistoryInv
<1>1. Init => HistoryInv
  BY InitHistory
<1>2. HistoryInv /\ [Next]_vars => HistoryInv'
  BY HistoryNext
<1> QED BY <1>1, <1>2, PTL DEF Spec

-----------------------------------------------------------------------------
(* The properties.                                                         *)

(* A stored candle is the exchange's own, unless a trade of its minute was *)
(* missed or is still on its way.                                          *)
THEOREM StoredAlwaysExact == Spec => []StoredIsExact
<1>1. HistoryInv => StoredIsExact
  BY DEF HistoryInv, RowsOK, RowOK, StoredIsExact, Stored, InNet
<1> QED BY <1>1, HistoryInvariant, PTL

(* A minute leaves memory once in a run, and minutes leave it in order,    *)
(* whichever of broker thread and flusher takes them.                      *)
THEOREM MinutesTakenOnce == Spec => TakenOnce
<1> DEFINE Once == \A c \in {ticked', flushed'} \ {NoCandle, ticked, flushed} :
                       \A m \in taken : c.minute > m
<1>1. ASSUME HistoryInv, [Next]_vars PROVE Once
  <2> SUFFICES ASSUME NEW c \in {ticked', flushed'} \ {NoCandle, ticked, flushed},
                      NEW m \in taken
               PROVE  c.minute > m
    OBVIOUS
  <2>1. c = active /\ active # NoCandle
    <3>1. CASE \E k \in net : Deliver(k)
      <4>1. PICK k \in net : Deliver(k)
        BY <3>1
      <4>2. flushed' = flushed /\ (LateTick(k) \/ TakenIn(k))
        BY <4>1, <1>1, TickIs
      <4>3. ticked' \in {ticked, NoCandle} \/ (ticked' = active /\ active # NoCandle)
        BY <4>2 DEF LateTick, TakenIn, service
      <4> QED BY <4>2, <4>3
    <3>2. CASE Flush
      BY <3>2 DEF Flush
    <3>3. CASE ~Flush /\ ~\E k \in net : Deliver(k)
      <4>1. ticked' \in {ticked, NoCandle} /\ flushed' \in {flushed, NoCandle}
        BY <1>1, <3>3 DEF Next, vars, service, Advance, Trade, Snapshot, StoreTicked,
           StoreTickedFails, OpenFlusher, OpenFlusherFails, StoreFlushed,
           StoreFlushedFails, BeginRecovery, BeginMaintenance, SyncChunk, EndSync, SyncFails, Disconnect, Joined, Kill,
           LoseMemory
      <4> QED BY <4>1
    <3> QED BY <3>1, <3>2, <3>3
  <2>2. EndOf(active.minute) > closed_end /\ active.minute \in Nat
    BY <1>1, <2>1, HistoryConstants DEF HistoryInv, MemoryOK, ActiveOK, Traded
  <2>3. EndOf(m) <= closed_end /\ m \in Nat /\ closed_end \in Nat
    BY <1>1, HistoryConstants DEF HistoryInv, MemoryOK, TakenOK, HistoryTypes
  <2>4. EndOf(active.minute) \in Nat /\ EndOf(m) \in Nat /\ StartOf(m) \in Nat
        /\ StartOf(m) < EndOf(m)
    BY <2>2, <2>3, MinuteBounds
  <2>5. active.minute < m => EndOf(active.minute) <= StartOf(m)
    BY <2>2, <2>3, MinutesAscend
  <2>6. active.minute # m
    BY <2>2, <2>3, <2>4
  <2> QED BY <2>1, <2>2, <2>3, <2>4, <2>5, <2>6
<1>2. HistoryInv /\ [Next]_vars => [Once]_vars
  BY <1>1
<1>3. Spec => [][Once]_vars
  BY <1>2, HistoryInvariant, PTL DEF Spec
<1> QED BY <1>3 DEF TakenOnce
(* The failures of a run are counted.                                      *)
FaultsCounted == faults \in Nat

(* A recovery or maintenance that ends well leaves the exchange's candle   *)
(* of every traded minute of its range that the live service has not       *)
(* stored again, for every size of chunk, session and retention.           *)
THEOREM SyncAlwaysFills == Spec => SyncFills
<1> DEFINE Done == sync.stage # "idle" /\ sync'.stage = "idle" /\ faults' = faults
           Fills == Done =>
                      \A m \in Traded \ sync.touched :
                         (StartOf(m) >= MaxOf(sync.start, sync.cutoff) /\ EndOf(m) <= sync.end)
                            => table'[m] = Exact(m)
<1>1. Init => FaultsCounted
  BY DEF Init, FaultsCounted
<1>2. FaultsCounted /\ [Next]_vars => FaultsCounted'
  <2> SUFFICES ASSUME FaultsCounted, [Next]_vars PROVE FaultsCounted'
    OBVIOUS
  <2>1. faults' = faults \/ faults' = faults + 1
    BY DEF Next, vars, Fault, Advance, Trade, Deliver, Snapshot, StoreTicked, StoreTickedFails,
       OpenFlusher, OpenFlusherFails, Flush, StoreFlushed, StoreFlushedFails, BeginRecovery,
       BeginMaintenance, SyncChunk, EndSync, SyncFails, Disconnect, Joined, Kill
  <2> QED BY <2>1 DEF FaultsCounted
<1>3. ASSUME HistoryInv, FaultsCounted, [Next]_vars PROVE Fills
  <2> SUFFICES ASSUME Done, NEW m \in Traded \ sync.touched,
                      StartOf(m) >= MaxOf(sync.start, sync.cutoff), EndOf(m) <= sync.end
               PROVE  table'[m] = Exact(m)
    OBVIOUS
  <2>1. faults' # faults + 1
    BY <1>3 DEF FaultsCounted
  <2>2. EndSync
    <3>1. ~(sync' = sync \/ UpsertCandle(ticked) \/ UpsertCandle(flushed))
      <4>1. sync \in Syncs
        BY <1>3 DEF HistoryInv, HistoryTypes
      <4> QED BY <4>1 DEF UpsertCandle, Syncs
    <3>2. ~SyncChunk
      <4>1. sync \in Syncs
        BY <1>3 DEF HistoryInv, HistoryTypes
      <4> QED BY <4>1 DEF SyncChunk, Syncs
    <3>3. ~(BeginMaintenance \/ Joined)
      BY DEF BeginMaintenance, Joined
    <3>4. ~BeginRecovery
      BY DEF BeginRecovery, BeginSync
    <3>5. ~(StoreTickedFails \/ StoreFlushedFails \/ SyncFails \/ Disconnect \/ Kill)
      BY <2>1 DEF StoreTickedFails, StoreFlushedFails, SyncFails, Disconnect, Kill, Fault
    <3>6. ~(StoreTicked \/ StoreFlushed)
      BY <3>1 DEF StoreTicked, StoreFlushed
    <3>7. ~(Advance \/ (\E p \in Prices : Trade(p)) \/ (\E k \in net : Deliver(k)) \/ Snapshot
            \/ OpenFlusher \/ OpenFlusherFails \/ Flush \/ UNCHANGED vars)
      BY <3>1 DEF Advance, Trade, Deliver, Snapshot, OpenFlusher, OpenFlusherFails, Flush, vars
    <3> QED BY <1>3, <3>2, <3>3, <3>4, <3>5, <3>6, <3>7 DEF Next
  <2>3. sync.cursor >= sync.end /\ table' = Pruned(sync.cutoff)
    BY <2>2 DEF EndSync
  <2>4. m \in Minutes /\ StartOf(m) \in Nat /\ EndOf(m) \in Nat /\ StartOf(m) < EndOf(m)
    BY MinuteBounds, HistoryConstants DEF Traded
  <2>5. sync.start \in Nat /\ sync.end \in Nat /\ sync.cutoff \in Nat /\ sync.cursor \in Nat
    BY <1>3 DEF HistoryInv, HistoryTypes, Syncs
  <2>6. StartOf(m) >= sync.start /\ StartOf(m) >= sync.cutoff
    BY <2>4, <2>5 DEF MaxOf
  <2>7. StartOf(m) < sync.cursor
    BY <2>3, <2>4, <2>5
  <2>8. table[m] = Exact(m)
    BY <1>3, <2>6, <2>7 DEF HistoryInv, SyncOK, Filled
  <2>9. table'[m] = table[m]
    <3>1. ~(m < MinuteOf(sync.cutoff))
      <4> SUFFICES ASSUME m < MinuteOf(sync.cutoff) PROVE FALSE
        OBVIOUS
      <4>1. MinuteOf(sync.cutoff) \in Nat /\ StartOf(MinuteOf(sync.cutoff)) <= sync.cutoff
            /\ m \in Nat
        BY <2>4, <2>5, TheMinute, HistoryConstants
      <4>2. EndOf(m) <= StartOf(MinuteOf(sync.cutoff))
            /\ StartOf(MinuteOf(sync.cutoff)) \in Nat
        BY <4>1, MinutesAscend, MinuteBounds
      <4> QED BY <4>1, <4>2, <2>4, <2>5, <2>6
    <3> QED BY <2>3, <2>4, <3>1 DEF Pruned
  <2> QED BY <2>8, <2>9
<1>4. HistoryInv /\ FaultsCounted /\ [Next]_vars => [Fills]_vars
  BY <1>3
<1>5. Spec => [][Fills]_vars
  BY <1>1, <1>2, <1>4, HistoryInvariant, PTL DEF Spec
<1> QED BY <1>5 DEF SyncFills
-----------------------------------------------------------------------------
(* The bars of a warmup.                                                   *)

(* A minute lies in its bucket, and an earlier bucket ends before a later  *)
(* one starts.                                                             *)
LEMMA InBucket ==
    ASSUME NEW m \in Nat
    PROVE  /\ BucketOf(m) \in Nat
           /\ BucketStart(BucketOf(m)) <= m /\ m < BucketEnd(BucketOf(m))
<1>1. Factor \in Nat /\ Factor > 0
  BY HistoryAssumption
<1> DEFINE q == m \div Factor
<1>2. q \in Nat
  BY <1>1
<1>3. Factor * q <= m /\ m < Factor * q + Factor
  BY <1>1
<1>4. q * Factor = Factor * q /\ (q + 1) * Factor = Factor * q + Factor
  BY <1>1, <1>2
<1> QED BY <1>2, <1>3, <1>4 DEF BucketOf, BucketStart, BucketEnd

LEMMA BucketsAscend ==
    ASSUME NEW a \in Nat, NEW b \in Nat, a < b
    PROVE  /\ BucketEnd(a) \in Nat /\ BucketStart(b) \in Nat
           /\ BucketEnd(a) <= BucketStart(b)
<1>1. Factor \in Nat /\ Factor > 0
  BY HistoryAssumption
<1>2. (a + 1) * Factor <= b * Factor
  BY <1>1
<1>3. (a + 1) * Factor \in Nat /\ b * Factor \in Nat
  BY <1>1
<1> QED BY <1>2, <1>3 DEF BucketEnd, BucketStart

(* The newest minutes of a set are closed under later minutes of it.       *)
LEMMA NewestIsClosed ==
    ASSUME NEW S \in SUBSET Minutes, NEW n \in Nat, NEW lo \in Newest(S, n), NEW m \in S, lo <= m
    PROVE  m \in Newest(S, n)
<1> DEFINE later(x) == {y \in S : y > x}
<1>1. lo \in S /\ Cardinality(later(lo)) < n
  BY DEF Newest
<1>2. \A y \in S : y \in Nat
  BY HistoryConstants
<1>3. later(m) \subseteq later(lo)
  BY <1>1, <1>2
<1>4. IsFiniteSet(later(lo)) /\ IsFiniteSet(later(m))
  BY FewMinutes
<1>5. Cardinality(later(m)) <= Cardinality(later(lo)) /\ Cardinality(later(m)) \in Nat
      /\ Cardinality(later(lo)) \in Nat
  <2> HIDE DEF later
  <2> QED BY <1>3, <1>4, FS_Subset, FS_CardinalityType
<1>6. Cardinality(later(m)) < n
  <2> HIDE DEF later
  <2> QED BY <1>1, <1>5
<1> QED BY <1>6 DEF Newest

(* A bucket that is not dropped at an edge lies within the minutes.        *)
LEMMA WholeBucketWithin ==
    ASSUME NEW S \in SUBSET Minutes,
           NEW b \in WholeBuckets(S, {BucketOf(m) : m \in S})
    PROVE  /\ S # {} /\ b \in {BucketOf(m) : m \in S} /\ b \in Nat
           /\ Min(S) \in S /\ Max(S) \in S
           /\ Min(S) <= BucketStart(b) /\ BucketEnd(b) <= Max(S) + 1
<1> DEFINE B == {BucketOf(m) : m \in S}
           lo == Min(S)
           hi == Max(S)
           late == {x \in B : x = Min(B) /\ lo > BucketStart(x)}
           rest == B \ late
           early == {x \in rest : x = Max(rest) /\ hi + 1 < BucketEnd(x)}
<1>1. b \in rest /\ b \notin early /\ b \in B /\ b \notin late
  BY DEF WholeBuckets
<1>2. S # {} /\ IsFiniteSet(S) /\ S \in SUBSET Int /\ \A m \in S : m \in Nat
  BY <1>1, FewMinutes, HistoryConstants
<1>3. lo \in S /\ hi \in S /\ \A m \in S : lo <= m /\ m <= hi
  BY <1>2, HasMin, HasMax
<1>4. \A m \in S : BucketOf(m) \in Nat
  BY <1>2, InBucket
<1>5. B \in SUBSET Int /\ IsFiniteSet(B) /\ B # {}
  <2> DEFINE f == [m \in S |-> BucketOf(m)]
  <2>1. f \in Surjection(S, B)
    BY DEF Surjection
  <2>2. IsFiniteSet(B)
    BY <2>1, <1>2, FS_Surjection
  <2> QED BY <2>2, <1>1, <1>4
<1> HIDE DEF lo, hi
<1>6. lo \in Nat /\ hi \in Nat /\ b \in Nat /\ \A x \in B : x \in Nat
  BY <1>1, <1>2, <1>3, <1>4
<1>7. BucketStart(b) \in Nat /\ BucketEnd(b) \in Nat
  <2>1. b < b + 1 /\ b + 1 \in Nat
    BY <1>6
  <2>2. BucketEnd(b) \in Nat
    BY <2>1, <1>6, BucketsAscend
  <2>3. Factor \in Nat
    BY HistoryAssumption
  <2> QED BY <2>2, <2>3, <1>6 DEF BucketStart
<1>8. lo <= BucketStart(b)
  <2>1. Min(B) \in B /\ \A x \in B : Min(B) <= x
    <3> HIDE DEF B
    <3> QED BY <1>5, HasMin
  <2>2. CASE b = Min(B)
    <3>1. ~(lo > BucketStart(b))
      BY <2>2, <1>1
    <3> QED BY <3>1, <1>6, <1>7
  <2>3. CASE b # Min(B)
    <3>1. PICK a \in B : a = Min(B)
      BY <2>1
    <3>2. a < b /\ a \in Nat
      BY <3>1, <2>1, <2>3, <1>1, <1>6
    <3>3. PICK m \in S : a = BucketOf(m)
      BY <3>1
    <3>4. m < BucketEnd(a) /\ m \in Nat
      BY <3>3, <1>2, InBucket
    <3>5. BucketEnd(a) <= BucketStart(b) /\ BucketEnd(a) \in Nat
      BY <3>2, <1>6, BucketsAscend
    <3>6. lo <= m
      BY <1>3
    <3> QED BY <3>4, <3>5, <3>6, <1>6, <1>7
  <2> QED BY <2>2, <2>3
<1>9. BucketEnd(b) <= hi + 1
  <2>1. Max(rest) \in rest /\ \A x \in rest : Max(rest) >= x
    <3>1. rest \in SUBSET Int /\ rest # {} /\ rest \subseteq B
      BY <1>1, <1>5
    <3>2. IsFiniteSet(rest)
      <4> HIDE DEF B
      <4> QED BY <3>1, <1>5, FS_Subset
    <3> HIDE DEF rest
    <3> QED BY <3>1, <3>2, HasMax
  <2>2. CASE b = Max(rest)
    <3>1. ~(hi + 1 < BucketEnd(b))
      BY <2>2, <1>1
    <3> QED BY <3>1, <1>6, <1>7
  <2>3. CASE b # Max(rest)
    <3>1. PICK a \in rest : a = Max(rest)
      BY <2>1
    <3>2. b < a /\ a \in Nat /\ a \in B
      <4>1. a \in B /\ b <= a
        BY <3>1, <2>1, <1>1
      <4>2. a \in Nat /\ a # b
        BY <4>1, <3>1, <2>3, <1>6
      <4> QED BY <4>1, <4>2, <1>6
    <3>3. PICK m \in S : a = BucketOf(m)
      BY <3>2
    <3>4. BucketStart(a) <= m /\ m \in Nat
      BY <3>3, <1>2, InBucket
    <3>5. BucketEnd(b) <= BucketStart(a) /\ BucketStart(a) \in Nat
      BY <3>2, <1>6, BucketsAscend
    <3>6. m <= hi
      BY <1>3
    <3> QED BY <3>4, <3>5, <3>6, <1>6, <1>7
  <2> QED BY <2>2, <2>3
<1> QED BY <1>1, <1>2, <1>3, <1>6, <1>8, <1>9 DEF lo, hi

(* A bar a strategy is warmed up with is the exchange's bar of its bucket, *)
(* if the stored history has no hole: for every timeframe, every limit and *)
(* every edge of the history.                                              *)
THEOREM WarmupBarsAlwaysExact == Spec => []WarmupBarsExact
<1>1. ASSUME HistoryInv, NEW b \in WarmupBuckets, NoHole
      PROVE  BarOf(b) = LET ms == {m \in Traded : BucketOf(m) = b}
                        IN  [minute |-> BucketStart(b),
                             open |-> Exact(Min(ms)).open,
                             high |-> Max({Exact(m).high : m \in ms}),
                             low  |-> Min({Exact(m).low : m \in ms}),
                             close |-> Exact(Max(ms)).close]
  <2> DEFINE S == SourceMinutes
             ms == {m \in Traded : BucketOf(m) = b}
             n == (Limit + 2) * Factor
  <2>1. Stored \in SUBSET Minutes /\ S \subseteq Stored /\ S \in SUBSET Minutes /\ n \in Nat
        /\ S = Newest(Stored, n)
    <3>1. Limit \in Nat /\ Factor \in Nat
      BY HistoryAssumption
    <3>2. (Limit + 2) * Factor \in Nat
      BY <3>1
    <3> QED BY <3>2 DEF Stored, SourceMinutes, Newest
  <2>2. b \in WholeBuckets(S, {BucketOf(m) : m \in S})
    BY DEF WarmupBuckets, Newest
  <2> HIDE DEF n, S
  <2>3. /\ S # {} /\ b \in {BucketOf(m) : m \in S} /\ b \in Nat
        /\ Min(S) \in S /\ Max(S) \in S
        /\ Min(S) <= BucketStart(b) /\ BucketEnd(b) <= Max(S) + 1
    BY <2>1, <2>2, WholeBucketWithin
  <2>4. \A m \in Minutes : m \in Nat
    BY HistoryConstants
  <2>5. Min(S) \in Nat /\ Max(S) \in Nat
    BY <2>1, <2>3, <2>4
  <2>6. S \subseteq Traded
    BY <1>1, <2>1 DEF Stored, HistoryInv, RowsOK, RowOK
  <2>7. ASSUME NEW m \in ms PROVE table[m] = Exact(m) /\ m \in S
    <3>1. m \in Minutes /\ m \in Nat /\ m \in Traded /\ BucketOf(m) = b
      BY <2>4 DEF Traded
    <3>2. BucketStart(b) <= m /\ m < BucketEnd(b)
      BY <3>1, InBucket
    <3>3. BucketStart(b) \in Int /\ BucketEnd(b) \in Int
      <4>1. Factor \in Nat
        BY HistoryAssumption
      <4> QED BY <4>1, <2>3 DEF BucketStart, BucketEnd
    <3>4. m \in Min(S)..Max(S)
      BY <3>1, <3>2, <3>3, <2>3, <2>5
    <3>5. table[m] = Exact(m)
      BY <3>1, <3>4, <1>1 DEF NoHole, S
    <3>6. m \in Stored
      BY <3>1, <3>5, <1>1, ExactIsCandle DEF Stored, HistoryInv
    <3>7. Min(S) <= m
      BY <3>4, <2>5
    <3>8. m \in Newest(Stored, n)
      BY <3>6, <3>7, <2>1, <2>3, NewestIsClosed
    <3> QED BY <3>5, <3>8, <2>1
  <2>8. {m \in SourceMinutes : BucketOf(m) = b} = ms
    BY <2>6, <2>7 DEF S
  <2>9. ms # {} /\ IsFiniteSet(ms) /\ ms \in SUBSET Int
    <3>1. ms # {}
      BY <2>3, <2>6
    <3>2. ms \in SUBSET Minutes
      BY DEF Traded
    <3> QED BY <3>1, <3>2, FewMinutes
  <2> HIDE DEF ms
  <2>10. Min(ms) \in ms /\ Max(ms) \in ms
    BY <2>9, HasMin, HasMax
  <2>11. table[Min(ms)] = Exact(Min(ms)) /\ table[Max(ms)] = Exact(Max(ms))
    BY <2>7, <2>10
  <2>12. {table[m].high : m \in ms} = {Exact(m).high : m \in ms}
         /\ {table[m].low : m \in ms} = {Exact(m).low : m \in ms}
    BY <2>7
  <2>13. BarOf(b) = [minute |-> BucketStart(b), open |-> table[Min(ms)].open,
                     high |-> Max({table[m].high : m \in ms}),
                     low  |-> Min({table[m].low : m \in ms}), close |-> table[Max(ms)].close]
    BY <2>8 DEF BarOf
  <2> QED BY <2>11, <2>12, <2>13 DEF ms
<1>2. HistoryInv => WarmupBarsExact
  BY <1>1 DEF WarmupBarsExact
<1> QED BY <1>2, HistoryInvariant, PTL
=============================================================================
