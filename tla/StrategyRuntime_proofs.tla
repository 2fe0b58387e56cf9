----------------------- MODULE StrategyRuntime_proofs -----------------------
(***************************************************************************)
(* What StrategyRuntime guarantees for any number of broker threads,       *)
(* instruments, SSUs and reloads.                                          *)
(***************************************************************************)
EXTENDS StrategyRuntime, SequenceTheorems, FiniteSetTheorems,
        WellFoundedInduction, TLAPS

-----------------------------------------------------------------------------
(* The inductive invariant.  A series may go back, where a reload appended *)
(* a copy, but it never goes forward by more than one bar, and it ends     *)
(* with the latest bar; it is empty only before the first bar.             *)
Grows(bars, last) ==
    /\ bars \in Seq(1..last)
    /\ \A k \in 1..(Len(bars) - 1) : bars[k + 1] <= bars[k] + 1
    /\ bars # <<>> => bars[Len(bars)] = last
    /\ bars = <<>> => last = StoredBars

SeriesOK ==
    \A i \in Instruments, tf \in Timeframes : Grows(series[i][tf], closed[i][tf])

(* Indicator states with no hole: every bar from the first one they have   *)
(* to the latest; none at all only where a replay had nothing to give.     *)
Whole(S, last) == S \subseteq 1..last /\ \A m \in S : m..last \subseteq S
WarmedUp(S, i, last) == Whole(S, last) /\ (S = {} /\ i \in Warmed => last = StoredBars)

(* A thread between its two locks and its return holds what it has to, and *)
(* the bars it is delivering are the latest ones of its instrument.        *)
Inside == {"engine", "dispatch", "deliver"}
Holding == Inside \cup {"gate"}

CallOK(b) ==
    LET c == call[b] IN
    /\ c.pc # "idle" => c.instrument \in Instruments
    /\ c.pc \in Holding => holder[c.instrument] = b
    /\ c.pc \in Inside <=> b \in readers
    /\ c.pc \notin {"dispatch", "deliver"} => c.shut = {} /\ c.event = "tick"
    /\ c.event = "candles" => c.shut = {}
    /\ c.event = "tick" => c.bars = {}
    /\ \A tf \in c.shut : closed[c.instrument][tf] > 0
    /\ \A x \in c.bars : x[2] = closed[c.instrument][x[1]]
    /\ c.pc = "deliver" => c.generation = generation /\ c.todo \subseteq active

CallsOK == \A b \in Brokers : CallOK(b)

(* A reload that has begun to clear is alone in the runtime, and what it   *)
(* has loaded so far is registered and warmed up with the latest bars.     *)
ReloadOK ==
    /\ reload.pc \in {"load", "reset", "register"} => readers = {}
    /\ reload.pc # "register" => reload.loaded = {}
    /\ reload.pc = "register" => registered = reload.loaded
    /\ \A s \in reload.loaded, i \in Instruments :
         WarmedUp(reload.seen[s][i], i, closed[i][TimeframeOf[s]])
    /\ generation + (IF reload.pc = "idle" THEN 0 ELSE 1) <= reloads

(* The latest bar is on its way to SSU s: a thread has it in hand.         *)
Bringing(b, s) ==
    \/ TimeframeOf[s] \in call[b].shut
    \/ /\ \E x \in call[b].bars : x[1] = TimeframeOf[s]
       /\ call[b].pc = "dispatch" \/ s \in call[b].todo
Pending(s, i) ==
    {n \in {closed[i][TimeframeOf[s]]} :
        \E b \in Brokers : call[b].instrument = i /\ Bringing(b, s)}

BarsOK ==
    \A s \in active, i \in Triggering :
        /\ seen[s][i] \subseteq 1..closed[i][TimeframeOf[s]]
        /\ Cardinality(Missed(s, i) \ Pending(s, i)) <= faults

RuntimeInv == TypeOK /\ CallsOK /\ ReloadOK /\ SeriesOK /\ BarsOK

-----------------------------------------------------------------------------
(* A set of natural numbers has a least one.                               *)
LEMMA LeastOf ==
    ASSUME NEW S, S \subseteq Nat, S # {}
    PROVE  \E s \in S : \A t \in S : s <= t
<1>1. PICK s \in S : \A t \in S : <<t, s>> \notin OpToRel(<, Nat)
  BY NatLessThanWellFounded, WFMin, Zenon
<1>2. ASSUME NEW t \in S, t < s
      PROVE  <<t, s>> \in OpToRel(<, Nat)
  <2>1. t \in Nat /\ s \in Nat
    OBVIOUS
  <2>2. <<t, s>> \in {ss \in Nat \X Nat : ss[1] < ss[2]}
    BY <1>2, <2>1, SMT
  <2> QED
    BY <2>2, Zenon DEF OpToRel
<1>3. \A t \in S : ~(t < s)
  BY <1>1, <1>2, Zenon
<1> QED
  BY <1>3, SMT

(* load_active_ssus and dispatch go through the SSUs in order of ssu_id:   *)
(* the next one exists because ids are natural numbers.                    *)
LEMMA NextIsMember ==
    ASSUME NEW todo \in SUBSET Ssus, todo # {}
    PROVE  NextSsu(todo) \in todo
<1>1. todo \subseteq Nat
  BY ConstantsAssumption
<1>2. PICK s \in todo : \A t \in todo : s <= t
  BY <1>1, LeastOf
<1> QED
  BY <1>2 DEF NextSsu

LEMMA Constants ==
    /\ \A s \in Ssus : TimeframeOf[s] \in Timeframes
    /\ \A i \in Triggering : i \in Instruments
    /\ MaxBars \in Nat /\ MaxReloads \in Nat \ {0} /\ MaxFaults \in Nat
    /\ StoredBars \in Nat /\ StoredBars <= MaxBars
    /\ WarmupBars \in Nat \ {0} /\ MaxRecent \in Nat \ {0} /\ StateCapacity \in Nat \ {0}
    /\ NoBroker \notin Brokers
BY ConstantsAssumption DEF Timeframes

-----------------------------------------------------------------------------
(* The series of the engine.                                               *)

(* The last bars of a series that grows are a series that grows.           *)
LEMMA RecentGrows ==
    ASSUME NEW last \in Nat, NEW bars, Grows(bars, last), NEW count \in Nat \ {0}
    PROVE  Grows(Recent(bars, count), last)
<1>1. /\ bars \in Seq(1..last) /\ Len(bars) \in Nat
      /\ \A k \in 1..(Len(bars) - 1) : bars[k + 1] <= bars[k] + 1
  BY LenProperties DEF Grows
<1>2. CASE Len(bars) <= count
  BY <1>2 DEF Recent
<1>3. CASE Len(bars) > count
  <2> DEFINE from == Len(bars) - count + 1
             tail == SubSeq(bars, from, Len(bars))
  <2>1. from \in 1..Len(bars) /\ from \in Nat /\ Len(bars) - from + 1 = count
    BY <1>1, <1>3
  <2>2. /\ tail \in Seq(1..last) /\ Len(tail) = count
        /\ \A k \in 1..count : tail[k] = bars[from + k - 1]
    BY <1>1, <2>1, SubSeqProperties
  <2>3. Recent(bars, count) = tail
    BY <1>1, <1>3 DEF Recent
  <2> HIDE DEF tail
  <2>4. ASSUME NEW k \in 1..(count - 1)
        PROVE  tail[k + 1] <= tail[k] + 1
    <3>1. /\ k \in 1..count /\ k + 1 \in 1..count
          /\ from + k - 1 \in 1..(Len(bars) - 1)
          /\ from + (k + 1) - 1 = (from + k - 1) + 1
      BY <1>1, <1>3
    <3>2. tail[k] = bars[from + k - 1] /\ tail[k + 1] = bars[from + (k + 1) - 1]
      BY <2>2, <3>1
    <3> HIDE DEF from
    <3> QED
      BY <1>1, <3>1, <3>2
  <2>5. tail # <<>> /\ tail[count] = bars[Len(bars)] /\ bars # <<>>
    BY <1>1, <1>3, <2>2
  <2> QED
    BY <2>2, <2>3, <2>4, <2>5 DEF Grows
<1> QED
  BY <1>1, <1>2, <1>3

(* Bars that grow and begin one bar after the end of a series at most      *)
(* can be appended to it.                                                  *)
LEMMA AppendedGrows ==
    ASSUME NEW old \in Nat, NEW last \in Nat, old <= last,
           NEW bars, Grows(bars, old),
           NEW new \in Seq(1..last),
           \A k \in 1..(Len(new) - 1) : new[k + 1] <= new[k] + 1,
           new # <<>> => new[Len(new)] = last /\ (bars # <<>> => new[1] <= old + 1),
           new = <<>> => old = last
    PROVE  Grows(bars \o new, last)
<1> DEFINE all == bars \o new
<1>1. /\ bars \in Seq(1..old) /\ Len(bars) \in Nat /\ Len(new) \in Nat
      /\ bars \in Seq(1..last)
  <2>1. 1..old \subseteq 1..last
    OBVIOUS
  <2> QED
    BY <2>1, LenProperties, SeqMonotonic DEF Grows
<1>2. /\ all \in Seq(1..last) /\ Len(all) = Len(bars) + Len(new)
      /\ \A k \in 1..Len(all) :
           all[k] = IF k <= Len(bars) THEN bars[k] ELSE new[k - Len(bars)]
  BY <1>1, ConcatProperties
<1> HIDE DEF all
<1>0. Len(bars) \in Nat /\ Len(new) \in Nat /\ Len(all) = Len(bars) + Len(new)
  BY <1>1, <1>2
<1>3. ASSUME NEW k \in 1..(Len(all) - 1)
      PROVE  all[k + 1] <= all[k] + 1
  <2>1. k \in 1..Len(all) /\ k + 1 \in 1..Len(all)
    BY <1>0
  <2>2. /\ all[k] = IF k <= Len(bars) THEN bars[k] ELSE new[k - Len(bars)]
        /\ all[k + 1] = IF k + 1 <= Len(bars) THEN bars[k + 1]
                        ELSE new[k + 1 - Len(bars)]
    <3>1. all[k] = IF k <= Len(bars) THEN bars[k] ELSE new[k - Len(bars)]
      BY <1>2, <2>1, Zenon
    <3>2. PICK p \in 1..Len(all) : p = k + 1
      BY <2>1
    <3>3. all[p] = IF p <= Len(bars) THEN bars[p] ELSE new[p - Len(bars)]
      BY <1>2, Zenon
    <3> QED
      BY <3>1, <3>2, <3>3
  <2>3. CASE k < Len(bars)
    <3>1. /\ k \in 1..(Len(bars) - 1) /\ k <= Len(bars) /\ k + 1 <= Len(bars)
          /\ \A j \in 1..(Len(bars) - 1) : bars[j + 1] <= bars[j] + 1
      BY <1>1, <2>1, <2>3 DEF Grows
    <3>2. bars[k + 1] <= bars[k] + 1
      BY <3>1
    <3> QED
      BY <2>2, <3>1, <3>2
  <2>4. CASE k = Len(bars)
    <3>1. Len(bars) > 0 /\ Len(new) > 0 /\ k + 1 - Len(bars) = 1 /\ ~(k + 1 <= Len(bars))
      BY <1>0, <2>4
    <3>2. bars # <<>> /\ new # <<>>
      BY <3>1, EmptySeq
    <3>3. all[k] = old /\ all[k + 1] = new[1]
      BY <2>2, <2>4, <3>1, <3>2 DEF Grows
    <3> QED
      BY <3>2, <3>3
  <2>5. CASE k > Len(bars)
    <3> DEFINE j == k - Len(bars)
    <3>1. j \in 1..(Len(new) - 1) /\ k + 1 - Len(bars) = j + 1
      BY <1>0, <2>5
    <3>2. ~(k <= Len(bars)) /\ ~(k + 1 <= Len(bars))
      BY <1>0, <2>5
    <3>3. all[k] = new[j] /\ all[k + 1] = new[j + 1]
      BY <2>2, <3>1, <3>2
    <3> HIDE DEF j
    <3> QED
      BY <3>1, <3>3
  <2> QED
    BY <1>1, <2>3, <2>4, <2>5
<1>4. all # <<>> => all[Len(all)] = last
  <2>1. CASE new = <<>>
    BY <1>1, <1>2, <2>1 DEF Grows
  <2>2. CASE new # <<>>
    <3>1. Len(new) > 0
      BY <2>2, EmptySeq
    <3>2. /\ Len(all) \in 1..Len(all) /\ ~(Len(all) <= Len(bars))
          /\ Len(all) - Len(bars) = Len(new)
      BY <1>0, <3>1
    <3>3. all[Len(all)] = new[Len(all) - Len(bars)]
      BY <1>2, <3>2, Zenon
    <3> QED
      BY <2>2, <3>2, <3>3
  <2> QED
    BY <2>1, <2>2
<1>5. all = <<>> => last = StoredBars
  BY <1>1, <1>2 DEF Grows
<1> QED
  BY <1>2, <1>3, <1>4, <1>5 DEF Grows, all

(* merge_closed_bar of a bar that has just closed, or of bars that end     *)
(* where the series ends.                                                  *)
LEMMA MergedGrows ==
    ASSUME NEW old \in Nat, NEW last \in Nat, old <= last,
           NEW bars, Grows(bars, old), NEW new, Grows(new, last),
           new # <<>> /\ bars # <<>> => new[1] <= old + 1,
           new = <<>> => old = last
    PROVE  Grows(Merged(bars, new), last)
<1>1. /\ new \in Seq(1..last) /\ Len(new) \in Nat
      /\ \A k \in 1..(Len(new) - 1) : new[k + 1] <= new[k] + 1
      /\ bars \in Seq(1..old) /\ Len(bars) \in Nat
  BY LenProperties DEF Grows
<1>2. CASE bars # <<>> /\ new # <<>> /\ Head(new) = bars[Len(bars)]
  <2> DEFINE rest == Tail(new)
  <2>1. /\ rest \in Seq(1..last) /\ Len(rest) = Len(new) - 1
        /\ \A k \in 1..Len(rest) : rest[k] = new[k + 1]
    BY <1>1, <1>2, HeadTailProperties
  <2>2. Head(new) = new[1] /\ Len(new) > 0
    BY <1>1, <1>2, HeadTailProperties
  <2> HIDE DEF rest
  <2>3. new[1] = old /\ new[Len(new)] = last
    BY <1>2, <2>2 DEF Grows
  <2>4. ASSUME NEW k \in 1..(Len(rest) - 1)
        PROVE  rest[k + 1] <= rest[k] + 1
    <3>1. k \in 1..Len(rest) /\ k + 1 \in 1..Len(rest) /\ k + 1 \in 1..(Len(new) - 1)
      BY <1>1, <2>1
    <3> QED
      BY <1>1, <2>1, <3>1
  <2>5. ASSUME rest # <<>>
        PROVE  rest[Len(rest)] = last /\ rest[1] <= old + 1
    <3>1. Len(rest) > 0
      BY <2>1, <2>5, EmptySeq
    <3>2. /\ 1 \in 1..Len(rest) /\ Len(rest) \in 1..Len(rest) /\ 1 \in 1..(Len(new) - 1)
          /\ Len(rest) + 1 = Len(new)
      BY <1>1, <2>1, <3>1
    <3>3. rest[1] = new[1 + 1] /\ new[1 + 1] <= new[1] + 1
      BY <1>1, <2>1, <3>2
    <3>4. rest[Len(rest)] = new[Len(rest) + 1]
      BY <2>1, <3>2, Zenon
    <3> QED
      BY <2>3, <3>2, <3>3, <3>4
  <2>6. ASSUME rest = <<>> PROVE old = last
    <3>1. Len(new) = 1
      BY <1>1, <2>1, <2>6, EmptySeq
    <3> QED
      BY <2>3, <3>1
  <2>7. Grows(bars \o rest, last)
    BY <2>1, <2>4, <2>5, <2>6, AppendedGrows
  <2> QED
    BY <1>2, <2>7, RecentGrows, Constants DEF Merged, rest
<1>3. CASE ~(bars # <<>> /\ new # <<>> /\ Head(new) = bars[Len(bars)])
  <2>1. Grows(bars \o new, last)
    BY <1>1, AppendedGrows DEF Grows
  <2>2. Merged(bars, new) = Recent(bars \o new, MaxRecent)
    BY <1>3, Zenon DEF Merged
  <2> QED
    BY <2>1, <2>2, RecentGrows, Constants
<1> QED
  BY <1>2, <1>3

(* The warmup of the engine leaves a series that grows.                    *)
LEMMA RewarmedGrows ==
    ASSUME NEW last \in Nat, NEW bars, Grows(bars, last), NEW found \in 0..StoredBars
    PROVE  Grows(Rewarmed(bars, found), last)
<1>1. CASE bars = <<>>
  <2> DEFINE new == [n \in 1..found |-> StoredBars - found + n]
  <2>1. last = StoredBars /\ StoredBars \in Nat /\ found \in Nat /\ found <= StoredBars
    BY <1>1, Constants DEF Grows
  <2>2. \A n \in 1..found : StoredBars - found + n \in 1..last
    BY <2>1
  <2>3. new \in Seq(1..last) /\ Len(new) = found
    BY <2>1, <2>2, IsASeq, LenProperties
  <2>4. \A n \in 1..found : new[n] = StoredBars - found + n
    OBVIOUS
  <2> HIDE DEF new
  <2>5. new # <<>> => found > 0
    BY <2>1, <2>3, EmptySeq
  <2>6. Grows(new, last)
    <3>1. ASSUME NEW k \in 1..(Len(new) - 1)
          PROVE  new[k + 1] <= new[k] + 1
      <4>1. k \in 1..found /\ k + 1 \in 1..found
        BY <2>1, <2>3
      <4> QED
        BY <2>1, <2>4, <4>1
    <3>2. new # <<>> => new[Len(new)] = last
      BY <2>1, <2>3, <2>4, <2>5
    <3> QED
      BY <2>1, <2>3, <3>1, <3>2 DEF Grows
  <2>7. Grows(Merged(bars, new), last)
    BY <1>1, <2>6, MergedGrows
  <2> QED
    BY <1>1, <2>7 DEF Rewarmed, new
<1>2. CASE bars # <<>>
  <2> DEFINE new == Recent(bars, WarmupBars)
  <2>1. Grows(new, last)
    BY RecentGrows, Constants
  <2> HIDE DEF new
  <2>2. new # <<>> => new[1] <= last + 1
    <3> SUFFICES ASSUME new # <<>> PROVE new[1] <= last + 1
      OBVIOUS
    <3>1. new \in Seq(1..last) /\ Len(new) > 0
      BY <2>1, EmptySeq, LenProperties DEF Grows
    <3>2. new[1] \in 1..last
      BY <3>1, ElementOfSeq
    <3> QED
      BY <3>2
  <2>3. Grows(Merged(bars, new), last)
    BY <2>1, <2>2, MergedGrows
  <2> QED
    BY <1>2, <2>3 DEF Rewarmed, new
<1> QED
  BY <1>1, <1>2

(* register_ssu and the warmup of the engine, for any of the instruments:  *)
(* the other series stay as they are.                                      *)
LEMMA RegisterSeries ==
    ASSUME TypeOK, SeriesOK, closed' = closed,
           NEW s \in Ssus, NEW instruments, Register(s, instruments)
    PROVE  SeriesOK' /\ series' \in [Instruments -> [Timeframes -> Seq(Bars)]]
<1> DEFINE tf == TimeframeOf[s]
<1>1. PICK found \in [Instruments -> 0..StoredBars] :
        series' = WarmedSeries(tf, instruments, found)
  BY DEF Register
<1>2. ASSUME NEW i \in Instruments
      PROVE  /\ series'[i] \in [Timeframes -> Seq(Bars)]
             /\ \A t \in Timeframes : Grows(series'[i][t], closed[i][t])
  <2> DEFINE bars == IF i \in instruments THEN Rewarmed(series[i][tf], found[i])
                     ELSE series[i][tf]
  <2>1. tf \in Timeframes /\ series[i] \in [Timeframes -> Seq(Bars)]
    BY Constants DEF TypeOK
  <2>2. series'[i] = [series[i] EXCEPT ![tf] = bars]
    BY <1>1 DEF WarmedSeries
  <2>3. \A t \in Timeframes : closed[i][t] \in StoredBars..MaxBars
    BY DEF TypeOK
  <2>4. Grows(bars, closed[i][tf])
    <3>1. closed[i][tf] \in Nat /\ Grows(series[i][tf], closed[i][tf])
      BY <2>1, <2>3, Constants DEF SeriesOK
    <3>2. Grows(Rewarmed(series[i][tf], found[i]), closed[i][tf])
      BY <3>1, RewarmedGrows
    <3> QED
      BY <3>1, <3>2
  <2> HIDE DEF bars
  <2>5. bars \in Seq(Bars)
    <3>1. bars \in Seq(1..closed[i][tf])
      BY <2>4 DEF Grows
    <3>2. 1..closed[i][tf] \subseteq Bars
      BY <2>1, <2>3, Constants DEF Bars
    <3> QED
      BY <3>1, <3>2, SeqMonotonic
  <2> HIDE DEF tf
  <2>6. series'[i] \in [Timeframes -> Seq(Bars)]
    BY <2>1, <2>2, <2>5
  <2>7. ASSUME NEW t \in Timeframes PROVE Grows(series'[i][t], closed[i][t])
    <3>1. series'[i][t] = IF t = tf THEN bars ELSE series[i][t]
      BY <2>1, <2>2
    <3> QED
      BY <2>4, <3>1 DEF SeriesOK
  <2> QED
    BY <2>6, <2>7
<1>3. series' = [i \in Instruments |-> series'[i]]
  BY <1>1 DEF WarmedSeries
<1>4. series' \in [Instruments -> [Timeframes -> Seq(Bars)]]
  BY <1>2, <1>3
<1> QED
  BY <1>2, <1>4 DEF SeriesOK

LEMMA AbortSeries ==
    ASSUME TypeOK, SeriesOK, AbortReload
    PROVE  SeriesOK' /\ series' \in [Instruments -> [Timeframes -> Seq(Bars)]]
<1>1. closed' = closed
  BY DEF AbortReload
<1>2. CASE UNCHANGED series
  BY <1>1, <1>2 DEF SeriesOK, TypeOK
<1>3. CASE series' # series
  <2>1. PICK done \in SUBSET Warmed : Register(NextSsu(reload.todo), done)
    BY <1>3 DEF AbortReload
  <2>2. NextSsu(reload.todo) \in Ssus
    BY <1>3, NextIsMember DEF AbortReload, TypeOK, Reloads
  <2> QED
    BY <1>1, <2>1, <2>2, RegisterSeries
<1> QED
  BY <1>2, <1>3

(* A bar that closes is appended to its series.                            *)
LEMMA FormSeries ==
    ASSUME TypeOK, SeriesOK, NEW b \in Brokers, call[b].instrument \in Instruments,
           Form(b)
    PROVE  /\ SeriesOK'
           /\ closed' \in [Instruments -> [Timeframes -> StoredBars..MaxBars]]
           /\ series' \in [Instruments -> [Timeframes -> Seq(Bars)]]
<1> DEFINE i == call[b].instrument
<1>1. PICK shut \in SUBSET (Required \cap forming[i]) :
        /\ \A tf \in shut : closed[i][tf] < MaxBars
        /\ closed' = [closed EXCEPT ![i] =
             [tf \in Timeframes |-> IF tf \in shut THEN @[tf] + 1 ELSE @[tf]]]
        /\ series' = [series EXCEPT ![i] =
             [tf \in Timeframes |->
                IF tf \in shut THEN Merged(@[tf], <<closed[i][tf] + 1>>) ELSE @[tf]]]
  BY DEF Form
<1> HIDE DEF i
<1>2. ASSUME NEW j \in Instruments, NEW t \in Timeframes
      PROVE  /\ Grows(series'[j][t], closed'[j][t])
             /\ closed'[j][t] \in StoredBars..MaxBars
             /\ series'[j][t] \in Seq(Bars)
  <2> DEFINE n == closed[j][t]
  <2>1. n \in StoredBars..MaxBars /\ Grows(series[j][t], n) /\ series[j][t] \in Seq(Bars)
    BY DEF TypeOK, SeriesOK
  <2>2. CASE j = i /\ t \in shut
    <3>1. closed'[j][t] = n + 1
      BY <1>1, <2>2 DEF TypeOK
    <3>2. series'[j][t] = Merged(series[j][t], <<n + 1>>)
      BY <1>1, <2>2 DEF TypeOK
    <3>3. n \in Nat /\ n + 1 \in StoredBars..MaxBars /\ n + 1 \in Nat
      BY <1>1, <2>1, <2>2, Constants
    <3>4. 1..(n + 1) \subseteq Bars
      BY <3>3, Constants DEF Bars
    <3> HIDE DEF n
    <3>5. Grows(<<n + 1>>, n + 1)
      <4>1. <<n + 1>> \in Seq(1..(n + 1)) /\ Len(<<n + 1>>) = 1 /\ <<n + 1>>[1] = n + 1
        BY <3>3
      <4> QED
        BY <4>1 DEF Grows
    <3>6. Grows(Merged(series[j][t], <<n + 1>>), n + 1)
      BY <2>1, <3>3, <3>5, MergedGrows
    <3>7. series'[j][t] \in Seq(Bars)
      BY <3>2, <3>4, <3>6, SeqMonotonic DEF Grows
    <3> QED
      BY <3>1, <3>2, <3>3, <3>6, <3>7
  <2>3. CASE ~(j = i /\ t \in shut)
    <3>1. closed'[j][t] = n /\ series'[j][t] = series[j][t]
      BY <1>1, <2>3 DEF TypeOK
    <3> QED
      BY <2>1, <3>1
  <2> QED
    BY <2>2, <2>3
<1>3. /\ closed' = [j \in Instruments |-> [t \in Timeframes |-> closed'[j][t]]]
      /\ series' = [j \in Instruments |-> [t \in Timeframes |-> series'[j][t]]]
  BY <1>1 DEF TypeOK
<1>4. /\ closed' \in [Instruments -> [Timeframes -> StoredBars..MaxBars]]
      /\ series' \in [Instruments -> [Timeframes -> Seq(Bars)]]
  BY <1>2, <1>3
<1> QED
  BY <1>2, <1>4 DEF SeriesOK

-----------------------------------------------------------------------------
(* What a replay gives.                                                    *)

LEMMA ReplayedType ==
    ASSUME NEW S, NEW bars \in Seq(S), NEW before
    PROVE  Replayed(bars, before) \in SUBSET S
<1> DEFINE last == Recent(bars, StateCapacity)
<1>1. last \in Seq(S)
  <2>1. CASE Len(bars) <= StateCapacity
    BY <2>1 DEF Recent
  <2>2. CASE Len(bars) > StateCapacity
    <3>1. Len(bars) \in Nat
      BY LenProperties
    <3>2. \A k \in (Len(bars) - StateCapacity + 1)..Len(bars) : bars[k] \in S
      BY <2>2, <3>1, ElementOfSeq, Constants
    <3>3. SubSeq(bars, Len(bars) - StateCapacity + 1, Len(bars)) \in Seq(S)
      BY <3>1, <3>2, SubSeqProperties, Constants
    <3> QED
      BY <2>2, <3>1, <3>3, Constants DEF Recent
  <2> QED
    BY <2>1, <2>2, LenProperties, Constants
<1> HIDE DEF last
<1>2. \A k \in DOMAIN last : last[k] \in S
  BY <1>1, LenProperties, ElementOfSeq
<1> QED
  BY <1>2 DEF Replayed, last

(* A replay of a series that grows leaves no hole: it skips older copies,  *)
(* but once it has taken a bar it takes every later one.                   *)
LEMMA ReplayedWhole ==
    ASSUME NEW last \in Nat, NEW bars, Grows(bars, last), NEW before \in Nat,
           NEW m \in Replayed(bars, before), NEW n \in m..last, n < before
    PROVE  n \in Replayed(bars, before)
<1> DEFINE L == Recent(bars, StateCapacity)
           Taken(k) == /\ L[k] < before
                       /\ \A p \in 1..(k - 1) : L[p] < before => L[p] < L[k]
<1>1. Grows(L, last)
  BY RecentGrows, Constants
<1>2. Replayed(bars, before) = {L[k] : k \in {j \in DOMAIN L : Taken(j)}}
  BY DEF Replayed
<1> HIDE DEF L
<1>3. /\ L \in Seq(1..last) /\ Len(L) \in Nat /\ DOMAIN L = 1..Len(L)
      /\ \A k \in 1..Len(L) : L[k] \in 1..last
  BY <1>1, LenProperties, ElementOfSeq DEF Grows
<1>4. PICK k \in 1..Len(L) : m = L[k] /\ Taken(k)
  BY <1>2, <1>3
<1>5. m \in 1..last /\ n \in Nat /\ m <= n /\ n <= last
  BY <1>3, <1>4
<1> DEFINE J == {j \in 1..Len(L) : k <= j /\ L[j] >= n}
<1>6. Len(L) \in J
  <2>1. Len(L) \in 1..Len(L) /\ k <= Len(L) /\ L # <<>>
    BY <1>3, <1>4, EmptySeq
  <2>2. L[Len(L)] = last
    BY <1>1, <2>1 DEF Grows
  <2> QED
    BY <1>5, <2>1, <2>2
<1>7. PICK j \in J : \A p \in J : j <= p
  <2>1. J \subseteq Nat /\ J # {}
    BY <1>6
  <2> HIDE DEF J
  <2> QED
    BY <2>1, LeastOf
<1>8. /\ j \in 1..Len(L) /\ k <= j /\ L[j] >= n
      /\ \A p \in 1..Len(L) : k <= p /\ p < j => L[p] < n
  <2>1. ASSUME NEW p \in 1..Len(L), k <= p, p < j PROVE L[p] < n
    <3>1. p \notin J
      BY <1>3, <1>7, <2>1
    <3> QED
      BY <1>3, <1>5, <2>1, <3>1
  <2> QED
    BY <1>7, <2>1
<1>9. L[j] = n
  <2>1. CASE j = k
    BY <1>4, <1>5, <1>8, <2>1
  <2>2. CASE j # k
    <3>1. PICK p \in 1..(Len(L) - 1) : p + 1 = j
      <4>1. j - 1 \in 1..(Len(L) - 1) /\ (j - 1) + 1 = j
        BY <1>3, <1>4, <1>8, <2>2
      <4> QED
        BY <4>1
    <3>2. L[p + 1] <= L[p] + 1
      BY <1>1, <3>1 DEF Grows
    <3>3. L[p] < n
      BY <1>3, <1>4, <1>8, <2>2, <3>1
    <3>4. L[p] \in Nat /\ L[j] \in Nat
      BY <1>3, <1>8, <3>1
    <3> QED
      BY <1>5, <1>8, <3>1, <3>2, <3>3, <3>4
  <2> QED
    BY <2>1, <2>2
<1>10. ASSUME NEW p \in 1..(j - 1), L[p] < before
       PROVE  L[p] < L[j]
  <2>1. p \in 1..Len(L) /\ p < j
    BY <1>3, <1>8
  <2>2. CASE k <= p
    BY <1>8, <1>9, <2>1, <2>2
  <2>3. CASE p < k
    <3>1. p \in 1..(k - 1)
      BY <1>4, <2>1, <2>3
    <3>2. L[p] < L[k]
      BY <1>4, <1>10, <3>1
    <3> QED
      BY <1>3, <1>4, <1>5, <1>9, <2>1, <3>2
  <2> QED
    BY <1>4, <2>1, <2>2, <2>3
<1>11. Taken(j)
  BY <1>9, <1>10
<1> HIDE DEF Taken
<1> QED
  BY <1>2, <1>3, <1>8, <1>9, <1>11

(* warmup of a new instance replays to the latest bar, if there is one.    *)
LEMMA ReplayedIsWarm ==
    ASSUME NEW last \in 0..MaxBars, NEW bars, Grows(bars, last), NEW i
    PROVE  WarmedUp(Replayed(bars, MaxBars + 1), i, last)
<1> DEFINE S == Replayed(bars, MaxBars + 1)
<1>1. last \in Nat /\ last < MaxBars + 1 /\ MaxBars + 1 \in Nat
  BY Constants
<1>2. S \subseteq 1..last
  BY ReplayedType DEF Grows
<1>3. ASSUME NEW m \in S, NEW n \in m..last PROVE n \in S
  BY <1>1, <1>2, ReplayedWhole
<1>4. ASSUME S = {} PROVE last = StoredBars
  <2> DEFINE L == Recent(bars, StateCapacity)
  <2>1. Grows(L, last)
    BY <1>1, RecentGrows, Constants
  <2>2. S = {L[k] : k \in {j \in DOMAIN L : /\ L[j] < MaxBars + 1
                  /\ \A p \in 1..(j - 1) : L[p] < MaxBars + 1 => L[p] < L[j]}}
    BY DEF Replayed
  <2> HIDE DEF L, S
  <2>3. L = <<>>
    <3> SUFFICES ASSUME L # <<>> PROVE FALSE
      OBVIOUS
    <3>1. 1 \in DOMAIN L /\ L[1] \in 1..last
      BY <2>1, EmptySeq, LenProperties, ElementOfSeq DEF Grows
    <3>2. L[1] < MaxBars + 1
      BY <1>1, <3>1
    <3>3. 1..(1 - 1) = {}
      OBVIOUS
    <3>4. L[1] \in S
      BY <2>2, <3>1, <3>2, <3>3
    <3> QED
      BY <1>4, <3>4
  <2> QED
    BY <2>1, <2>3 DEF Grows
<1> HIDE DEF S
<1>5. Whole(S, last)
  BY <1>2, <1>3 DEF Whole
<1>6. WarmedUp(S, i, last)
  BY <1>4, <1>5 DEF WarmedUp
<1> QED
  BY <1>6 DEF S

-----------------------------------------------------------------------------
(* Every step keeps the types.                                             *)
LEMMA NoCallType == NoCall \in Calls
BY Constants DEF NoCall, Calls

LEMMA LeaveTypes ==
    ASSUME TypeOK, NEW b \in Brokers, Leave(b)
    PROVE  /\ call' \in [Brokers -> Calls]
           /\ readers' \subseteq Brokers
           /\ holder' \in [Instruments -> Brokers \cup {NoBroker}]
BY NoCallType DEF TypeOK, Leave

LEMMA AdvancedType ==
    ASSUME NEW bars \in SUBSET Bars, NEW recent \in Seq(Bars), NEW n \in Bars
    PROVE  Advanced(bars, recent, n) \in SUBSET Bars
<1>1. Replayed(recent, n) \in SUBSET Bars
  BY ReplayedType
<1> QED
  BY <1>1 DEF Advanced

LEMMA HandledType ==
    ASSUME TypeOK, NEW b \in Brokers, call[b].instrument \in Instruments, NEW s \in Ssus
    PROVE  Handled(b, s) \in Seen
<1> DEFINE new == {bar[2] : bar \in {x \in call[b].bars : x[1] = TimeframeOf[s]}}
           i == call[b].instrument
           n == CHOOSE k \in new : TRUE
           recent == series[i][TimeframeOf[s]]
<1>1. CASE call[b].event = "tick" \/ new = {}
  BY <1>1 DEF TypeOK, Handled
<1>2. CASE ~(call[b].event = "tick" \/ new = {})
  <2>1. call[b].bars \subseteq Timeframes \X Bars
    BY DEF TypeOK, Calls
  <2>2. new \subseteq Bars
    BY <2>1
  <2>3. n \in new
    BY <1>2
  <2>4. n \in Bars
    BY <2>2, <2>3
  <2>5. recent \in Seq(Bars)
    BY Constants DEF TypeOK
  <2>6. Handled(b, s) = [seen EXCEPT ![s][i] = Advanced(@, recent, n)]
    BY <1>2 DEF Handled
  <2> HIDE DEF n, recent
  <2>7. seen[s] \in [Instruments -> SUBSET Bars]
    BY DEF TypeOK, Seen
  <2>8. [seen[s] EXCEPT ![i] = Advanced(@, recent, n)] \in [Instruments -> SUBSET Bars]
    <3>1. Advanced(seen[s][i], recent, n) \in SUBSET Bars
      BY <2>4, <2>5, <2>7, AdvancedType
    <3> QED
      BY <2>7, <3>1
  <2>9. [seen EXCEPT ![s][i] = Advanced(@, recent, n)] \in Seen
    BY <2>8 DEF TypeOK, Seen
  <2> QED
    BY <2>6, <2>9
<1> QED
  BY <1>1, <1>2

LEMMA TypeStep ==
    ASSUME TypeOK, CallsOK, ReloadOK, SeriesOK, [Next]_vars
    PROVE  TypeOK'
<1> USE Constants
<1>0. \A b \in Brokers : call[b] \in Calls
  BY DEF TypeOK
<1>1. ASSUME NEW b \in Brokers, Tick(b)
      PROVE  TypeOK'
  <2>1. \A i \in Instruments :
          [NoCall EXCEPT !.pc = "lock", !.instrument = i] \in Calls
    BY NoCallType DEF Calls
  <2>2. PICK i \in Instruments :
          call' = [call EXCEPT ![b] = [NoCall EXCEPT !.pc = "lock", !.instrument = i]]
    BY <1>1 DEF Tick
  <2> DEFINE c == [NoCall EXCEPT !.pc = "lock", !.instrument = i]
  <2>3. c \in Calls /\ call' = [call EXCEPT ![b] = c]
    BY <2>1, <2>2
  <2> HIDE DEF c
  <2>4. call' \in [Brokers -> Calls]
    BY <2>3 DEF TypeOK
  <2>5. UNCHANGED <<holder, readers, reload, ssus, seen, engine, reloads, faults>>
    BY <1>1 DEF Tick
  <2> QED
    BY <2>4, <2>5 DEF TypeOK, ssus, engine
<1>2. ASSUME NEW b \in Brokers, Lock(b) \/ Enter(b)
      PROVE  TypeOK'
  <2>1. /\ [call[b] EXCEPT !.pc = "gate"] \in Calls
        /\ [call[b] EXCEPT !.pc = "engine"] \in Calls
    BY <1>0 DEF Calls
  <2>2. /\ call' \in [Brokers -> Calls] /\ readers' \subseteq Brokers
        /\ holder' \in [Instruments -> Brokers \cup {NoBroker}]
    <3>1. CASE Lock(b)
      BY <2>1, <3>1 DEF TypeOK, Lock
    <3>2. CASE Enter(b)
      BY <2>1, <3>2 DEF TypeOK, Enter
    <3> QED
      BY <1>2, <3>1, <3>2
  <2>3. UNCHANGED <<reload, ssus, seen, engine, reloads, faults>>
    BY <1>2 DEF Lock, Enter
  <2> QED
    BY <2>2, <2>3 DEF TypeOK, ssus, engine
<1>3. ASSUME NEW b \in Brokers, Form(b)
      PROVE  TypeOK'
  <2> DEFINE i == call[b].instrument
  <2>1. i \in Instruments
    BY <1>3 DEF Form, CallsOK, CallOK
  <2>2. Required \subseteq Timeframes
    BY DEF Required, TypeOK
  <2>3. PICK shut \in SUBSET (Required \cap forming[i]) :
          IF i \in Triggering
            THEN /\ call' = [call EXCEPT ![b].pc = "dispatch", ![b].shut = shut]
                 /\ UNCHANGED <<readers, holder>>
            ELSE Leave(b)
    BY <1>3 DEF Form
  <2>4. /\ closed' \in [Instruments -> [Timeframes -> StoredBars..MaxBars]]
        /\ series' \in [Instruments -> [Timeframes -> Seq(Bars)]]
    BY <1>3, <2>1, FormSeries
  <2>5. forming' \in [Instruments -> SUBSET Timeframes]
    BY <1>3, <2>1, <2>2 DEF Form, TypeOK
  <2> HIDE DEF i
  <2>6. /\ call' \in [Brokers -> Calls]
        /\ readers' \subseteq Brokers
        /\ holder' \in [Instruments -> Brokers \cup {NoBroker}]
    <3>1. CASE i \in Triggering
      <4>1. shut \subseteq Timeframes
        BY <2>2, <2>3
      <4>2. [call[b] EXCEPT !.pc = "dispatch", !.shut = shut] \in Calls
        BY <1>0, <4>1 DEF Calls
      <4>3. /\ call' = [call EXCEPT ![b] = [call[b] EXCEPT !.pc = "dispatch", !.shut = shut]]
            /\ UNCHANGED <<readers, holder>>
        BY <2>3, <3>1
      <4> QED
        BY <4>2, <4>3 DEF TypeOK
    <3>2. CASE i \notin Triggering
      BY <2>3, <3>2, LeaveTypes
    <3> QED
      BY <3>1, <3>2
  <2> QED
    BY <1>3, <2>4, <2>5, <2>6 DEF TypeOK, Form, ssus
<1>4. ASSUME NEW b \in Brokers, Dispatch(b)
      PROVE  TypeOK'
  <2>1. active \in SUBSET Ssus /\ generation \in 0..MaxReloads
    BY DEF TypeOK
  <2>2. [call[b] EXCEPT !.pc = "deliver", !.todo = active, !.generation = generation]
          \in Calls
    BY <1>0, <2>1 DEF Calls
  <2> QED
    BY <1>4, <2>2 DEF TypeOK, Dispatch, ssus, engine
<1>5. ASSUME NEW b \in Brokers, Deliver(b)
      PROVE  TypeOK'
  <2> DEFINE s == NextSsu(call[b].todo)
  <2>1. call[b].todo \in SUBSET Ssus
    BY DEF TypeOK, Calls
  <2>2. s \in Ssus
    BY <1>5, <2>1, NextIsMember DEF Deliver
  <2>3. seen' \in Seen
    <3>1. call[b].instrument \in Instruments
      BY <1>5 DEF Deliver, CallsOK, CallOK
    <3> QED
      BY <1>5, <2>2, <3>1, HandledType DEF Deliver, TypeOK
  <2>4. [call[b] EXCEPT !.todo = @ \ {s}] \in Calls
    BY <1>0 DEF Calls
  <2> QED
    BY <1>5, <2>3, <2>4 DEF TypeOK, Deliver, ssus, engine
<1>6. ASSUME NEW b \in Brokers, Collect(b)
      PROVE  TypeOK'
  <2> DEFINE i == call[b].instrument
             bars == {<<tf, closed[i][tf]>> : tf \in call[b].shut}
  <2>1. i \in Instruments
    BY <1>6 DEF Collect, CallsOK, CallOK
  <2>2. call[b].shut \subseteq Timeframes
    BY DEF TypeOK, Calls
  <2>3. \A tf \in call[b].shut : closed[i][tf] \in Bars
    BY <2>1, <2>2, Constants DEF TypeOK, CallsOK, CallOK, Bars
  <2>4. bars \in SUBSET (Timeframes \X Bars)
    BY <2>2, <2>3
  <2>5. [call[b] EXCEPT !.pc = "dispatch", !.event = "candles", !.shut = {},
                        !.bars = bars] \in Calls
    BY <1>0, <2>4 DEF Calls
  <2> HIDE DEF bars
  <2>6. call' = [call EXCEPT ![b] = [call[b] EXCEPT !.pc = "dispatch",
                   !.event = "candles", !.shut = {}, !.bars = bars]]
    BY <1>6 DEF Collect, bars, TypeOK
  <2>7. call' \in [Brokers -> Calls]
    BY <2>5, <2>6 DEF TypeOK
  <2> QED
    BY <1>6, <2>7 DEF TypeOK, Collect, ssus, engine
<1>7. ASSUME NEW b \in Brokers, Return(b)
      PROVE  TypeOK'
  BY <1>7, LeaveTypes DEF Return, TypeOK, ssus, engine
<1>8. ASSUME NEW b \in Brokers, Fail(b)
      PROVE  TypeOK'
  <2>1. call[b].todo \in SUBSET Ssus
    BY DEF TypeOK, Calls
  <2>2. NextSsu(call[b].todo) \in Ssus
    BY <1>8, <2>1, NextIsMember DEF Fail
  <2>3. seen' \in Seen
    <3>1. call[b].instrument \in Instruments
      BY <1>8 DEF Fail, CallsOK, CallOK
    <3> QED
      BY <1>8, <2>2, <3>1, HandledType DEF Fail, TypeOK
  <2>4. faults' \in 0..MaxFaults
    BY <1>8 DEF Fail, TypeOK
  <2> QED
    BY <1>8, <2>3, <2>4, LeaveTypes DEF Fail, TypeOK, ssus, engine
<1>9. ASSUME Request \/ AcquireGate
      PROVE  TypeOK'
  <2>1. /\ [reload EXCEPT !.pc = "wait"] \in Reloads
        /\ [reload EXCEPT !.pc = "load"] \in Reloads
    BY DEF TypeOK, Reloads
  <2>2. reloads' \in 0..MaxReloads
    BY <1>9 DEF Request, AcquireGate, TypeOK
  <2> QED
    BY <1>9, <2>1, <2>2 DEF TypeOK, Request, AcquireGate, ssus, engine
<1>10. ASSUME LoadRows
       PROVE  TypeOK'
  <2>1. \A rows, bad \in SUBSET Ssus :
          [reload EXCEPT !.pc = "reset", !.todo = rows, !.bad = bad] \in Reloads
    BY DEF TypeOK, Reloads
  <2>2. reload' \in Reloads
    BY <1>10, <2>1 DEF LoadRows
  <2> QED
    BY <1>10, <2>2 DEF TypeOK, LoadRows, ssus, engine
<1>11. ASSUME ResetSsus
       PROVE  TypeOK'
  <2>1. [reload EXCEPT !.pc = "register"] \in Reloads
    BY DEF TypeOK, Reloads
  <2> QED
    BY <1>11, <2>1 DEF TypeOK, ResetSsus, Reset, ssus
<1>12. ASSUME LoadSsu
       PROVE  TypeOK'
  <2> DEFINE s == NextSsu(reload.todo)
             bars == [i \in Instruments |->
                        IF i \in Warmed
                          THEN Replayed(series'[i][TimeframeOf[s]], MaxBars + 1) ELSE {}]
  <2>1. s \in reload.todo /\ s \in Ssus
    BY <1>12, NextIsMember DEF LoadSsu, TypeOK, Reloads
  <2>7. series' \in [Instruments -> [Timeframes -> Seq(Bars)]]
    BY <1>12, <2>1, RegisterSeries DEF LoadSsu
  <2>2. bars \in [Instruments -> SUBSET Bars]
    BY <2>1, <2>7, ReplayedType
  <2> HIDE DEF bars
  <2>3. [reload.seen EXCEPT ![s] = bars] \in Seen
    BY <2>2 DEF TypeOK, Reloads, Seen
  <2> HIDE DEF s
  <2>4. [reload EXCEPT !.todo = @ \ {s}, !.loaded = @ \cup {s},
                       !.seen = [@ EXCEPT ![s] = bars]] \in Reloads
    BY <2>1, <2>3 DEF TypeOK, Reloads
  <2>5. reload' \in Reloads
    BY <1>12, <2>4 DEF LoadSsu, s, bars
  <2>6. registered' \subseteq Ssus
    BY <1>12, <2>1 DEF LoadSsu, Register, s, TypeOK
  <2> QED
    BY <1>12, <2>5, <2>6, <2>7 DEF TypeOK, LoadSsu, ssus
<1>13. ASSUME AbortReload
       PROVE  TypeOK'
  <2>1. NoReload \in Reloads
    BY DEF NoReload, Reloads, Seen
  <2>2. registered' \subseteq Ssus
    <3>1. CASE UNCHANGED registered
      BY <3>1 DEF TypeOK
    <3>2. CASE reload.todo # {}
      <4>1. NextSsu(reload.todo) \in Ssus
        BY <3>2, NextIsMember DEF TypeOK, Reloads
      <4> QED
        BY <1>13, <4>1 DEF AbortReload, Register, TypeOK
    <3> QED
      BY <1>13, <3>1, <3>2 DEF AbortReload
  <2>3. faults' \in 0..MaxFaults
    BY <1>13 DEF AbortReload, TypeOK
  <2>4. series' \in [Instruments -> [Timeframes -> Seq(Bars)]]
    BY <1>13, AbortSeries
  <2> QED
    BY <1>13, <2>1, <2>2, <2>3, <2>4 DEF TypeOK, AbortReload, ssus
<1>14. ASSUME Install
       PROVE  TypeOK'
  <2>1. NoReload \in Reloads
    BY DEF NoReload, Reloads, Seen
  <2>2. generation' \in 0..MaxReloads
    BY <1>14 DEF Install, ReloadOK, TypeOK
  <2>3. active' \subseteq Ssus /\ seen' \in Seen
    BY <1>14 DEF Install, TypeOK, Reloads
  <2> QED
    BY <1>14, <2>1, <2>2, <2>3 DEF TypeOK, Install, engine
<1>15. CASE UNCHANGED vars
  BY <1>15 DEF TypeOK, vars, ssus, engine
<1> QED
  BY <1>1, <1>2, <1>3, <1>4, <1>5, <1>6, <1>7, <1>8, <1>9, <1>10, <1>11, <1>12,
     <1>13, <1>14, <1>15 DEF Next, Handling, Reloading

-----------------------------------------------------------------------------
(* Every step keeps what the threads and the reload know.                  *)

(* A step of thread b that keeps the locks of the others and what they     *)
(* were told leaves them as they were.                                     *)
LEMMA OthersKept ==
    ASSUME TypeOK, CallsOK, NEW b \in Brokers, NEW c \in Brokers, c # b,
           call'[c] = call[c],
           c \in readers <=> c \in readers',
           \A i \in Instruments : holder[i] = c => holder'[i] = c,
           call[c].pc \in Inside => closed'[call[c].instrument] = closed[call[c].instrument],
           UNCHANGED <<active, generation>>
    PROVE  CallOK(c)'
<1>1. CallOK(c)
  BY DEF CallsOK
<1>2. CASE call[c].pc \in Inside
  BY <1>1, <1>2 DEF CallOK, Inside, Holding
<1>3. CASE call[c].pc \notin Inside
  <2>1. call[c].bars = {}
    BY <1>1, <1>3 DEF CallOK, Inside
  <2> QED
    BY <1>1, <1>3, <2>1 DEF CallOK, Inside, Holding
<1> QED
  BY <1>2, <1>3

(* What a thread knows of itself when it returns. *)
LEMMA LeaveCalls ==
    ASSUME TypeOK, CallsOK, NEW b \in Brokers, call[b].pc \in Inside, Leave(b),
           \A i \in Instruments : i # call[b].instrument => closed'[i] = closed[i],
           UNCHANGED <<active, generation>>
    PROVE  CallsOK'
<1>1. /\ holder[call[b].instrument] = b
      /\ call[b].instrument \in Instruments
  BY DEF CallsOK, CallOK, Inside, Holding
<1>2. CallOK(b)'
  <2>1. call'[b] = NoCall /\ b \notin readers'
    BY DEF Leave, TypeOK
  <2> QED
    BY <2>1 DEF CallOK, NoCall, Inside, Holding
<1>3. ASSUME NEW c \in Brokers, c # b
      PROVE  CallOK(c)'
  <2>1. call'[c] = call[c] /\ (c \in readers <=> c \in readers')
    BY <1>3 DEF Leave, TypeOK
  <2>2. \A i \in Instruments : holder[i] = c => holder'[i] = c
    BY <1>1, <1>3 DEF Leave, TypeOK
  <2>3. call[c].pc \in Inside => closed'[call[c].instrument] = closed[call[c].instrument]
    BY <1>1, <1>3 DEF CallsOK, CallOK, Inside, Holding
  <2> QED
    BY <1>3, <2>1, <2>2, <2>3, OthersKept
<1> QED
  BY <1>2, <1>3 DEF CallsOK

LEMMA CallsStep ==
    ASSUME TypeOK, CallsOK, ReloadOK, [Next]_vars
    PROVE  CallsOK'
<1> USE Constants DEF Inside, Holding
<1>1. ASSUME NEW b \in Brokers, Tick(b)
      PROVE  CallsOK'
  <2>1. PICK i \in Instruments :
          call' = [call EXCEPT ![b] = [NoCall EXCEPT !.pc = "lock", !.instrument = i]]
    BY <1>1 DEF Tick
  <2>2. call'[b] = [NoCall EXCEPT !.pc = "lock", !.instrument = i]
    BY <2>1 DEF TypeOK
  <2>3. CallOK(b) /\ b \notin readers
    BY <1>1 DEF CallsOK, CallOK, Tick
  <2>4. CallOK(b)'
    BY <1>1, <2>2, <2>3 DEF CallOK, Tick, NoCall
  <2>5. ASSUME NEW c \in Brokers, c # b PROVE CallOK(c)'
    BY <1>1, <2>1, <2>5, OthersKept DEF Tick, TypeOK, ssus, engine
  <2> QED
    BY <2>4, <2>5 DEF CallsOK
<1>2. ASSUME NEW b \in Brokers, Lock(b)
      PROVE  CallsOK'
  <2>1. CallOK(b) /\ call[b] \in Calls /\ call[b].instrument \in Instruments
    BY <1>2 DEF CallsOK, CallOK, TypeOK, Lock
  <2>2. call'[b] = [call[b] EXCEPT !.pc = "gate"]
    BY <1>2 DEF Lock, TypeOK
  <2>3. holder'[call[b].instrument] = b
    BY <1>2, <2>1 DEF Lock, TypeOK
  <2>4. CallOK(b)'
    BY <1>2, <2>1, <2>2, <2>3 DEF CallOK, Lock, Calls, engine
  <2>5. ASSUME NEW c \in Brokers, c # b PROVE CallOK(c)'
    <3>1. \A i \in Instruments : holder[i] = c => holder'[i] = c
      BY <1>2 DEF Lock, MayLock, TypeOK
    <3> QED
      BY <1>2, <2>5, <3>1, OthersKept DEF Lock, TypeOK, ssus, engine
  <2> QED
    BY <2>4, <2>5 DEF CallsOK
<1>3. ASSUME NEW b \in Brokers, Enter(b)
      PROVE  CallsOK'
  <2>1. CallOK(b) /\ call[b] \in Calls
    BY DEF CallsOK, TypeOK
  <2>2. call'[b] = [call[b] EXCEPT !.pc = "engine"]
    BY <1>3 DEF Enter, TypeOK
  <2>3. CallOK(b)'
    BY <1>3, <2>1, <2>2 DEF CallOK, Enter, Calls, engine
  <2>4. ASSUME NEW c \in Brokers, c # b PROVE CallOK(c)'
    BY <1>3, <2>4, OthersKept DEF Enter, TypeOK, ssus, engine
  <2> QED
    BY <2>3, <2>4 DEF CallsOK
<1>4. ASSUME NEW b \in Brokers, Form(b)
      PROVE  CallsOK'
  <2> DEFINE i == call[b].instrument
  <2>1. CallOK(b) /\ call[b] \in Calls /\ i \in Instruments /\ holder[i] = b
    BY <1>4 DEF CallsOK, CallOK, TypeOK, Form
  <2>2. \A j \in Instruments : j # i => closed'[j] = closed[j]
    BY <1>4 DEF Form, TypeOK
  <2>3. CASE i \notin Triggering
    BY <1>4, <2>2, <2>3, LeaveCalls DEF Form, ssus
  <2>4. CASE i \in Triggering
    <3>1. PICK shut \in SUBSET (Required \cap forming[i]) :
            /\ call' = [call EXCEPT ![b].pc = "dispatch", ![b].shut = shut]
            /\ closed' = [closed EXCEPT ![i] =
                 [tf \in Timeframes |-> IF tf \in shut THEN @[tf] + 1 ELSE @[tf]]]
      BY <1>4, <2>4 DEF Form
    <3>2. call'[b] = [call[b] EXCEPT !.pc = "dispatch", !.shut = shut]
      BY <3>1 DEF TypeOK
    <3>3. UNCHANGED <<readers, holder>>
      BY <1>4, <2>4 DEF Form
    <3>6. \A tf \in shut : closed'[i][tf] > 0
      <4>1. shut \subseteq Timeframes
        BY DEF Required, TypeOK
      <4>2. \A tf \in Timeframes : closed[i][tf] \in Nat
        BY <2>1 DEF TypeOK
      <4>3. \A tf \in shut : closed'[i][tf] = closed[i][tf] + 1
        BY <2>1, <3>1, <4>1 DEF TypeOK
      <4> QED
        BY <4>1, <4>2, <4>3
    <3>7. /\ call'[b].pc = "dispatch" /\ call'[b].instrument = i
          /\ call'[b].shut = shut /\ call'[b].event = "tick" /\ call'[b].bars = {}
      BY <1>4, <2>1, <3>2 DEF CallOK, Form, Calls
    <3>8. call[b].pc = "engine"
      BY <1>4 DEF Form
    <3> HIDE DEF i
    <3>4. CallOK(b)'
      BY <2>1, <3>3, <3>6, <3>7, <3>8 DEF CallOK, i
    <3>5. ASSUME NEW c \in Brokers, c # b PROVE CallOK(c)'
      <4>1. call[c].pc \in Inside =>
              closed'[call[c].instrument] = closed[call[c].instrument]
        BY <2>1, <2>2, <3>5 DEF CallsOK, CallOK
      <4>2. call'[c] = call[c]
        BY <3>1, <3>5 DEF TypeOK
      <4> QED
        BY <1>4, <3>3, <3>5, <4>1, <4>2, OthersKept DEF Form, ssus
    <3> QED
      BY <3>4, <3>5 DEF CallsOK
  <2> QED
    BY <2>3, <2>4
<1>5. ASSUME NEW b \in Brokers, Dispatch(b)
      PROVE  CallsOK'
  <2>1. CallOK(b) /\ call[b] \in Calls
    BY DEF CallsOK, TypeOK
  <2>2. call'[b] = [call[b] EXCEPT !.pc = "deliver", !.todo = active,
                                   !.generation = generation]
    BY <1>5 DEF Dispatch, TypeOK
  <2>3. CallOK(b)'
    <3>1. /\ call'[b].pc = "deliver" /\ call'[b].instrument = call[b].instrument
          /\ call'[b].event = call[b].event /\ call'[b].bars = call[b].bars
          /\ call'[b].shut = call[b].shut /\ call'[b].todo = active
          /\ call'[b].generation = generation
      BY <2>1, <2>2 DEF Calls
    <3>2. UNCHANGED <<holder, readers, active, generation, closed>>
      BY <1>5 DEF Dispatch, ssus, engine
    <3> QED
      BY <1>5, <2>1, <3>1, <3>2 DEF CallOK, Dispatch
  <2>4. ASSUME NEW c \in Brokers, c # b PROVE CallOK(c)'
    BY <1>5, <2>4, OthersKept DEF Dispatch, TypeOK, ssus, engine
  <2> QED
    BY <2>3, <2>4 DEF CallsOK
<1>6. ASSUME NEW b \in Brokers, Deliver(b)
      PROVE  CallsOK'
  <2>1. CallOK(b) /\ call[b] \in Calls
    BY DEF CallsOK, TypeOK
  <2>2. call'[b] = [call[b] EXCEPT !.todo = @ \ {NextSsu(call[b].todo)}]
    BY <1>6 DEF Deliver, TypeOK
  <2>3. CallOK(b)'
    <3>1. /\ call'[b].pc = "deliver" /\ call'[b].instrument = call[b].instrument
          /\ call'[b].event = call[b].event /\ call'[b].bars = call[b].bars
          /\ call'[b].shut = call[b].shut /\ call'[b].todo \subseteq call[b].todo
          /\ call'[b].generation = call[b].generation
      BY <1>6, <2>1, <2>2 DEF Deliver, Calls
    <3>2. UNCHANGED <<holder, readers, active, generation, closed>>
      BY <1>6 DEF Deliver, ssus, engine
    <3> QED
      BY <1>6, <2>1, <3>1, <3>2 DEF CallOK, Deliver
  <2>4. ASSUME NEW c \in Brokers, c # b PROVE CallOK(c)'
    BY <1>6, <2>4, OthersKept DEF Deliver, TypeOK, ssus, engine
  <2> QED
    BY <2>3, <2>4 DEF CallsOK
<1>7. ASSUME NEW b \in Brokers, Collect(b)
      PROVE  CallsOK'
  <2> DEFINE bars == {<<tf, closed[call[b].instrument][tf]>> : tf \in call[b].shut}
  <2>1. CallOK(b) /\ call[b] \in Calls
    BY DEF CallsOK, TypeOK
  <2>2. call'[b] = [call[b] EXCEPT !.pc = "dispatch", !.event = "candles",
                                   !.shut = {}, !.bars = bars]
    BY <1>7 DEF Collect, TypeOK
  <2>3. \A x \in bars : x[2] = closed[call[b].instrument][x[1]]
    OBVIOUS
  <2> HIDE DEF bars
  <2>4. CallOK(b)'
    <3>1. /\ call'[b].pc = "dispatch" /\ call'[b].instrument = call[b].instrument
          /\ call'[b].event = "candles" /\ call'[b].bars = bars
          /\ call'[b].shut = {}
      BY <2>1, <2>2 DEF Calls
    <3>2. UNCHANGED <<holder, readers, active, generation, closed>>
      BY <1>7 DEF Collect, ssus, engine
    <3> QED
      BY <1>7, <2>1, <2>3, <3>1, <3>2 DEF CallOK, Collect
  <2>5. ASSUME NEW c \in Brokers, c # b PROVE CallOK(c)'
    BY <1>7, <2>5, OthersKept DEF Collect, TypeOK, ssus, engine
  <2> QED
    BY <2>4, <2>5 DEF CallsOK
<1>8. ASSUME NEW b \in Brokers, Return(b) \/ Fail(b)
      PROVE  CallsOK'
  BY <1>8, LeaveCalls DEF Return, Fail, ssus, engine
<1>9. ASSUME Request \/ AcquireGate \/ LoadRows \/ ResetSsus \/ LoadSsu \/ AbortReload
             \/ UNCHANGED vars
      PROVE  CallsOK'
  <2>1. UNCHANGED <<call, holder, readers, active, generation, closed>>
    BY <1>9 DEF Request, AcquireGate, LoadRows, ResetSsus, LoadSsu, AbortReload,
                vars, ssus, engine
  <2> QED
    BY <2>1 DEF CallsOK, CallOK
<1>10. ASSUME Install
       PROVE  CallsOK'
  <2>1. \A b \in Brokers : call[b].pc \notin Inside
    BY <1>10 DEF Install, ReloadOK, CallsOK, CallOK
  <2>2. UNCHANGED <<call, holder, readers, closed>>
    BY <1>10 DEF Install, engine
  <2> QED
    BY <2>1, <2>2 DEF CallsOK, CallOK
<1> QED
  BY <1>1, <1>2, <1>3, <1>4, <1>5, <1>6, <1>7, <1>8, <1>9, <1>10
     DEF Next, Handling, Reloading

LEMMA ReloadStep ==
    ASSUME TypeOK, CallsOK, ReloadOK, SeriesOK, [Next]_vars
    PROVE  ReloadOK'
<1> USE Constants
<1>1. ASSUME NEW b \in Brokers, Enter(b)
      PROVE  ReloadOK'
  BY <1>1 DEF Enter, MayRead, ReloadOK, ssus, engine
<1>2. ASSUME NEW b \in Brokers, Form(b)
      PROVE  ReloadOK'
  <2>1. readers # {}
    BY <1>2 DEF Form, CallsOK, CallOK, Inside
  <2>2. reload.pc \notin {"load", "reset", "register"} /\ reload.loaded = {}
    BY <2>1 DEF ReloadOK
  <2> QED
    BY <1>2, <2>2 DEF Form, ReloadOK, ssus
<1>3. ASSUME NEW b \in Brokers,
             Tick(b) \/ Lock(b) \/ Dispatch(b) \/ Deliver(b) \/ Collect(b)
               \/ Return(b) \/ Fail(b)
      PROVE  ReloadOK'
  <2>1. UNCHANGED <<reload, ssus, engine, reloads>>
    BY <1>3 DEF Tick, Lock, Dispatch, Deliver, Collect, Return, Fail
  <2>2. readers' \subseteq readers
    BY <1>3 DEF Tick, Lock, Dispatch, Deliver, Collect, Return, Fail, Leave
  <2> QED
    BY <2>1, <2>2 DEF ReloadOK, ssus, engine
<1>4. ASSUME Request
      PROVE  ReloadOK'
  <2>1. reload' = [reload EXCEPT !.pc = "wait"] /\ reload.pc = "idle"
    BY <1>4 DEF Request
  <2>2. reload'.pc = "wait" /\ reload'.loaded = {}
    BY <2>1 DEF ReloadOK, TypeOK, Reloads
  <2>3. generation' + 1 <= reloads'
    BY <1>4, <2>1 DEF Request, ReloadOK, TypeOK, ssus
  <2> QED
    BY <2>2, <2>3 DEF ReloadOK
<1>5. ASSUME AcquireGate \/ LoadRows
      PROVE  ReloadOK'
  <2>1. /\ reload.pc \in {"wait", "load"} /\ reload'.pc \in {"load", "reset"}
        /\ reload'.loaded = reload.loaded
    BY <1>5 DEF AcquireGate, LoadRows, TypeOK, Reloads
  <2>2. readers' = {}
    BY <1>5 DEF AcquireGate, LoadRows, MayWrite, ReloadOK
  <2>3. UNCHANGED <<generation, reloads>>
    BY <1>5 DEF AcquireGate, LoadRows, ssus
  <2> QED
    BY <2>1, <2>2, <2>3 DEF ReloadOK
<1>6. ASSUME ResetSsus
      PROVE  ReloadOK'
  <2>1. /\ reload.pc = "reset" /\ reload'.pc = "register"
        /\ reload'.loaded = reload.loaded
    BY <1>6 DEF ResetSsus, TypeOK, Reloads
  <2>2. registered' = {} /\ UNCHANGED <<readers, generation, reloads>>
    BY <1>6 DEF ResetSsus, Reset, ssus
  <2> QED
    BY <2>1, <2>2 DEF ReloadOK
<1>7. ASSUME LoadSsu
      PROVE  ReloadOK'
  <2> DEFINE s == NextSsu(reload.todo)
             bars == [i \in Instruments |->
                        IF i \in Warmed
                          THEN Replayed(series'[i][TimeframeOf[s]], MaxBars + 1) ELSE {}]
  <2>1. s \in Ssus
    BY <1>7, NextIsMember DEF LoadSsu, TypeOK, Reloads
  <2>2. /\ reload.pc = "register" /\ reload'.pc = "register"
        /\ reload'.loaded = reload.loaded \cup {s}
        /\ reload'.seen = [reload.seen EXCEPT ![s] = bars]
    BY <1>7 DEF LoadSsu, TypeOK, Reloads
  <2>3. registered' = reload'.loaded
    BY <1>7, <2>2 DEF LoadSsu, Register, ReloadOK
  <2>4. ASSUME NEW t \in reload'.loaded, NEW i \in Instruments
        PROVE  WarmedUp(reload'.seen[t][i], i, closed'[i][TimeframeOf[t]])
    <3>1. closed' = closed
      BY <1>7 DEF LoadSsu
    <3>2. t \in Ssus
      BY <2>1, <2>2 DEF TypeOK, Reloads
    <3>3. reload'.seen[t] = IF t = s THEN bars ELSE reload.seen[t]
      BY <2>2, <3>2 DEF TypeOK, Reloads, Seen
    <3>4. CASE t = s
      <4> DEFINE last == closed[i][TimeframeOf[s]]
      <4>1. last \in 0..MaxBars
        BY <2>1 DEF TypeOK
      <4>2. CASE i \in Warmed
        <5>1. Grows(series'[i][TimeframeOf[s]], last)
          BY <1>7, <2>1, <3>1, RegisterSeries DEF LoadSsu, SeriesOK
        <5>2. WarmedUp(Replayed(series'[i][TimeframeOf[s]], MaxBars + 1), i, last)
          BY <4>1, <5>1, ReplayedIsWarm
        <5> QED
          BY <3>1, <3>3, <3>4, <4>2, <5>2
      <4>3. CASE i \notin Warmed
        <5>1. reload'.seen[t][i] = {}
          BY <3>3, <3>4, <4>3
        <5> QED
          BY <4>3, <5>1 DEF WarmedUp, Whole
      <4> QED
        BY <4>2, <4>3
    <3>5. CASE t # s
      BY <2>2, <3>1, <3>3, <3>5 DEF ReloadOK
    <3> QED
      BY <3>4, <3>5
  <2>5. UNCHANGED <<readers, generation, reloads>>
    BY <1>7 DEF LoadSsu, ssus
  <2> HIDE DEF s, bars
  <2> QED
    BY <2>2, <2>3, <2>4, <2>5 DEF ReloadOK
<1>8. ASSUME AbortReload
      PROVE  ReloadOK'
  <2>1. reload'.pc = "idle" /\ reload'.loaded = {}
    BY <1>8 DEF AbortReload, NoReload
  <2>2. generation' + 0 <= reloads'
    BY <1>8 DEF AbortReload, ReloadOK, TypeOK, ssus
  <2> QED
    BY <2>1, <2>2 DEF ReloadOK
<1>9. ASSUME Install
      PROVE  ReloadOK'
  <2>1. reload'.pc = "idle" /\ reload'.loaded = {}
    BY <1>9 DEF Install, NoReload
  <2>2. generation' + 0 <= reloads'
    BY <1>9 DEF Install, ReloadOK, TypeOK
  <2> QED
    BY <2>1, <2>2 DEF ReloadOK
<1>10. CASE UNCHANGED vars
  BY <1>10 DEF ReloadOK, vars, ssus, engine
<1> QED
  BY <1>1, <1>2, <1>3, <1>4, <1>5, <1>6, <1>7, <1>8, <1>9, <1>10
     DEF Next, Handling, Reloading

-----------------------------------------------------------------------------
(* No bar is missed but for failures.                                      *)

LEMMA MissedFinite ==
    ASSUME TypeOK, NEW s \in Ssus, NEW i \in Instruments
    PROVE  /\ IsFiniteSet(Missed(s, i))
           /\ closed[i][TimeframeOf[s]] \in Nat
<1>1. closed[i][TimeframeOf[s]] \in Nat
  BY Constants DEF TypeOK
<1>2. IsFiniteSet(1..closed[i][TimeframeOf[s]])
  <2>1. \A n \in Nat : n \in Int /\ 1 \in Int
    OBVIOUS
  <2> QED
    BY <1>1, <2>1, FS_Interval, Zenon
<1>3. Missed(s, i) \subseteq 1..closed[i][TimeframeOf[s]]
  BY DEF Missed
<1> QED
  BY <1>1, <1>2, <1>3, FS_Subset

LEMMA Fewer ==
    ASSUME NEW B, IsFiniteSet(B), NEW A \in SUBSET B
    PROVE  IsFiniteSet(A) /\ Cardinality(A) <= Cardinality(B)
           /\ Cardinality(A) \in Nat /\ Cardinality(B) \in Nat
BY FS_Subset, FS_CardinalityType

LEMMA OneMore ==
    ASSUME NEW A, IsFiniteSet(A), NEW n
    PROVE  IsFiniteSet(A \cup {n}) /\ Cardinality(A \cup {n}) <= Cardinality(A) + 1
<1>1. Cardinality(A) \in Nat
  BY FS_CardinalityType
<1>2. IsFiniteSet(A \cup {n})
  BY FS_AddElement
<1>3. Cardinality(A \cup {n})
        = IF n \in A THEN Cardinality(A) ELSE Cardinality(A) + 1
  BY FS_AddElement, Zenon
<1> QED
  BY <1>1, <1>2, <1>3

(* One SSU and instrument: what was missed or is on its way covers what is *)
(* missed now, up to one bar for a failure.                                *)
LEMMA Covered ==
    ASSUME TypeOK, TypeOK', BarsOK,
           NEW s \in active, NEW i \in Triggering,
           \/ /\ (Missed(s, i) \ Pending(s, i))' \subseteq Missed(s, i) \ Pending(s, i)
              /\ faults <= faults'
           \/ /\ \E n : (Missed(s, i) \ Pending(s, i))'
                          \subseteq (Missed(s, i) \ Pending(s, i)) \cup {n}
              /\ faults' = faults + 1
    PROVE  Cardinality(Missed(s, i) \ Pending(s, i))' <= faults'
<1> DEFINE A == Missed(s, i) \ Pending(s, i)
<1>1. s \in Ssus /\ i \in Instruments
  BY Constants DEF TypeOK
<1>2. IsFiniteSet(A) /\ Cardinality(A) <= faults
  BY <1>1, MissedFinite, Fewer DEF BarsOK
<1>3. faults \in Nat /\ faults' \in Nat /\ Cardinality(A) \in Nat
  BY <1>2, FS_CardinalityType, Constants DEF TypeOK
<1>4. CASE A' \subseteq A /\ faults <= faults'
  <2>1. Cardinality(A') <= Cardinality(A) /\ Cardinality(A') \in Nat
    BY <1>2, <1>4, Fewer
  <2> HIDE DEF A
  <2>2. Cardinality(A') <= faults'
    BY <1>2, <1>3, <1>4, <2>1
  <2> QED
    BY <2>2 DEF A
<1>5. CASE (\E n : A' \subseteq A \cup {n}) /\ faults' = faults + 1
  <2>1. PICK n : A' \subseteq A \cup {n}
    BY <1>5
  <2> HIDE DEF A
  <2>2. IsFiniteSet(A \cup {n}) /\ Cardinality(A \cup {n}) <= Cardinality(A) + 1
    BY <1>2, OneMore
  <2>3. /\ Cardinality(A') <= Cardinality(A \cup {n})
        /\ Cardinality(A') \in Nat /\ Cardinality(A \cup {n}) \in Nat
    BY <2>1, <2>2, Fewer
  <2>4. Cardinality(A') <= faults'
    BY <1>2, <1>3, <1>5, <2>2, <2>3
  <2> QED
    BY <2>4 DEF A
<1> QED
  BY <1>4, <1>5

(* A state with no hole misses nothing.                                    *)
LEMMA WholeMissesNothing ==
    ASSUME NEW i, NEW n \in Nat, NEW S, WarmedUp(S, i, n)
    PROVE  \A k \in (1..n) \ S :
              /\ \A m \in S : ~(m < k)
              /\ ~(S = {} /\ i \in Warmed /\ k > StoredBars)
<1>1. S \subseteq 1..n /\ \A m \in S : m..n \subseteq S
  BY DEF WarmedUp, Whole
<1>2. S = {} /\ i \in Warmed => n = StoredBars
  BY DEF WarmedUp
<1>3. ASSUME NEW k \in 1..n, k \notin S, NEW m \in S, m < k PROVE FALSE
  <2>1. k \in m..n
    BY <1>1, <1>3
  <2> QED
    BY <1>1, <1>3, <2>1
<1>4. ASSUME NEW k \in 1..n, S = {}, i \in Warmed, k > StoredBars PROVE FALSE
  BY <1>2, <1>4
<1> QED
  BY <1>3, <1>4

(* What a handler adds to a state makes it miss nothing new.               *)
LEMMA MissedShrinks ==
    ASSUME NEW s \in Ssus, NEW i \in Instruments,
           closed' = closed, closed[i][TimeframeOf[s]] \in Nat,
           seen[s][i] \subseteq seen'[s][i],
           seen[s][i] # {} => seen'[s][i] \subseteq seen[s][i] \cup {closed[i][TimeframeOf[s]]},
           seen[s][i] = {} /\ seen'[s][i] # {} =>
              Whole(seen'[s][i], closed[i][TimeframeOf[s]])
    PROVE  Missed(s, i)' \subseteq Missed(s, i)
<1>1. CASE seen[s][i] = {} /\ seen'[s][i] = {}
  BY <1>1 DEF Missed
<1>2. CASE seen[s][i] = {} /\ seen'[s][i] # {}
  <2>1. WarmedUp(seen'[s][i], i, closed'[i][TimeframeOf[s]])
    BY <1>2 DEF WarmedUp
  <2>2. Missed(s, i)' = {}
    <3>1. PICK S : S = seen'[s][i]
      OBVIOUS
    <3>2. PICK n \in Nat : n = closed'[i][TimeframeOf[s]]
      OBVIOUS
    <3>3. WarmedUp(S, i, n)
      BY <2>1, <3>1, <3>2
    <3>4. \A k \in (1..n) \ S :
             /\ \A m \in S : ~(m < k)
             /\ ~(S = {} /\ i \in Warmed /\ k > StoredBars)
      BY <3>3, WholeMissesNothing
    <3>5. ASSUME NEW k \in Missed(s, i)' PROVE FALSE
      BY <3>1, <3>2, <3>4, <3>5 DEF Missed
    <3> QED
      BY <3>5
  <2> QED
    BY <2>2
<1>3. CASE seen[s][i] # {}
  <2>1. ASSUME NEW k \in Missed(s, i)' PROVE k \in Missed(s, i)
    <3>1. k \in 1..closed[i][TimeframeOf[s]] /\ k \notin seen'[s][i]
      BY <2>1 DEF Missed
    <3>2. PICK m \in seen'[s][i] : m < k
      BY <1>3, <2>1 DEF Missed
    <3>3. m \in seen[s][i]
      BY <1>3, <3>1, <3>2
    <3> QED
      BY <3>1, <3>2, <3>3 DEF Missed
  <2> QED
    BY <2>1
<1> QED
  BY <1>1, <1>2, <1>3

(* A step that changes no SSU and no bar, and drops no bar on its way.     *)
LEMMA BringingKept ==
    ASSUME TypeOK, TypeOK', BarsOK,
           UNCHANGED <<seen, active>>, faults <= faults',
           \A i \in Triggering : closed'[i] = closed[i],
           \A b \in Brokers, s \in active :
             call[b].instrument \in Triggering /\ Bringing(b, s) =>
               Bringing(b, s)' /\ call'[b].instrument = call[b].instrument
    PROVE  BarsOK'
<1> SUFFICES ASSUME NEW s \in active, NEW i \in Triggering
             PROVE  /\ seen[s][i] \subseteq 1..closed[i][TimeframeOf[s]]
                    /\ Cardinality(Missed(s, i) \ Pending(s, i))' <= faults'
  BY DEF BarsOK
<1>1. Missed(s, i)' = Missed(s, i)
  BY DEF Missed
<1>2. Pending(s, i) \subseteq Pending(s, i)'
  BY DEF Pending
<1>3. (Missed(s, i) \ Pending(s, i))' \subseteq Missed(s, i) \ Pending(s, i)
  BY <1>1, <1>2
<1> QED
  BY <1>3, Covered DEF BarsOK

LEMMA AdvancedFacts ==
    ASSUME NEW n \in 1..MaxBars, NEW bars \in SUBSET (1..n),
           NEW recent, Grows(recent, n)
    PROVE  /\ bars \subseteq Advanced(bars, recent, n)
           /\ Advanced(bars, recent, n) \subseteq 1..n
           /\ n \in Advanced(bars, recent, n)
           /\ bars # {} => Advanced(bars, recent, n) \subseteq bars \cup {n}
           /\ bars = {} => Whole(Advanced(bars, recent, n), n)
<1>1. n \in 1..n /\ n \in Nat
  BY Constants
<1>2. CASE bars = {}
  <2> DEFINE A == Advanced(bars, recent, n)
  <2>1. A = Replayed(recent, n) \cup {n}
    BY <1>2 DEF Advanced
  <2>2. Replayed(recent, n) \in SUBSET (1..n)
    BY ReplayedType DEF Grows
  <2> HIDE DEF A
  <2>3. ASSUME NEW m \in A, NEW k \in m..n
        PROVE  k \in A
    <3>1. m \in 1..n
      BY <1>1, <2>1, <2>2
    <3>2. CASE k = n
      BY <2>1, <3>2
    <3>3. CASE k # n
      <4>1. m # n /\ k < n
        BY <1>1, <3>1, <3>3
      <4>2. m \in Replayed(recent, n)
        BY <2>1, <4>1
      <4>3. k \in Replayed(recent, n)
        BY <1>1, <4>1, <4>2, ReplayedWhole
      <4> QED
        BY <2>1, <4>3
    <3> QED
      BY <3>2, <3>3
  <2>4. A \subseteq 1..n /\ n \in A
    BY <1>1, <2>1, <2>2
  <2>5. Whole(A, n)
    BY <2>3, <2>4 DEF Whole
  <2> QED
    BY <1>2, <2>4, <2>5 DEF A
<1>3. CASE bars # {} /\ \A m \in bars : m < n
  <2>1. Advanced(bars, recent, n) = bars \cup {n}
    BY <1>3 DEF Advanced
  <2> QED
    BY <1>1, <1>3, <2>1
<1>4. CASE bars # {} /\ ~(\A m \in bars : m < n)
  <2>1. Advanced(bars, recent, n) = bars
    BY <1>4 DEF Advanced
  <2>2. PICK m \in bars : ~(m < n)
    BY <1>4
  <2>3. m = n
    BY <2>2
  <2> QED
    BY <1>4, <2>1, <2>2, <2>3
<1> QED
  BY <1>2, <1>3, <1>4

(* What an event handler makes of the indicator states: they only grow, an *)
(* empty one gets bars with no hole, any other the bar in hand at most,    *)
(* which is in it afterwards.                                              *)
Takes(S, H, n) ==
    /\ S \subseteq H /\ H \subseteq 1..n
    /\ S # {} => H \subseteq S \cup {n}
    /\ S = {} /\ H # {} => Whole(H, n)

LEMMA HandledFacts ==
    ASSUME TypeOK, CallsOK, SeriesOK, BarsOK, NEW b \in Brokers, call[b].pc = "deliver",
           NEW r \in Ssus, NEW s \in active, NEW i \in Triggering
    PROVE  LET H == Handled(b, r)[s][i]
               n == closed[i][TimeframeOf[s]]
           IN  /\ Takes(seen[s][i], H, n)
               /\ /\ r = s /\ call[b].instrument = i
                  /\ \E x \in call[b].bars : x[1] = TimeframeOf[s]
                  => n \in H
<1> DEFINE H == Handled(b, r)
           n == closed[i][TimeframeOf[s]]
           new == {bar[2] : bar \in {x \in call[b].bars : x[1] = TimeframeOf[r]}}
           j == call[b].instrument
           k == CHOOSE m \in new : TRUE
           recent == series[j][TimeframeOf[r]]
<1>1. s \in Ssus /\ i \in Instruments
  BY Constants DEF TypeOK
<1>2. n \in Nat /\ seen[s][i] \subseteq 1..n
  BY <1>1, MissedFinite DEF BarsOK
<1>3. CallOK(b)
  BY DEF CallsOK
<1>4. CASE call[b].event = "tick" \/ new = {}
  <2>1. H = seen
    BY <1>4 DEF Handled
  <2>2. ASSUME r = s, \E x \in call[b].bars : x[1] = TimeframeOf[s]
        PROVE  FALSE
    <3>1. PICK x \in call[b].bars : x[1] = TimeframeOf[r]
      BY <2>2
    <3>2. x[2] \in new
      BY <3>1
    <3>3. call[b].bars = {}
      BY <1>3, <1>4, <3>2 DEF CallOK
    <3> QED
      BY <3>1, <3>3
  <2>3. Takes(seen[s][i], seen[s][i], n)
    BY <1>2 DEF Takes
  <2> QED
    BY <2>1, <2>2, <2>3
<1>5. CASE ~(call[b].event = "tick" \/ new = {})
  <2>1. k \in new
    BY <1>5
  <2>2. k = closed[j][TimeframeOf[r]] /\ k \in Bars
    BY <1>3, <2>1 DEF CallOK, TypeOK, Calls
  <2> HIDE DEF k
  <2>3. H = [seen EXCEPT ![r][j] = Advanced(@, recent, k)]
    BY <1>5 DEF Handled, k
  <2>4. CASE r = s /\ j = i
    <3>1. k = n /\ n \in 1..MaxBars
      BY <2>2, <2>4 DEF Bars
    <3>2. seen[s] \in [Instruments -> SUBSET Bars]
      BY <1>1 DEF TypeOK, Seen
    <3>3. H[s] = [seen[s] EXCEPT ![i] = Advanced(@, recent, n)]
      BY <1>1, <2>3, <2>4, <3>1 DEF TypeOK, Seen
    <3>4. H[s][i] = Advanced(seen[s][i], recent, n)
      BY <1>1, <3>2, <3>3
    <3>5. Grows(recent, n)
      BY <1>1, <2>4, Constants DEF SeriesOK
    <3> HIDE DEF H, n, recent
    <3>6. Takes(seen[s][i], H[s][i], n) /\ n \in H[s][i]
      BY <1>2, <3>1, <3>4, <3>5, AdvancedFacts DEF Takes
    <3> QED
      BY <3>6 DEF H, n
  <2>5. CASE ~(r = s /\ j = i)
    <3>1. H[s][i] = seen[s][i]
      BY <1>1, <2>3, <2>5 DEF TypeOK, Seen
    <3>2. Takes(seen[s][i], seen[s][i], n)
      BY <1>2 DEF Takes
    <3> QED
      BY <2>5, <3>1, <3>2
  <2> QED
    BY <2>4, <2>5
<1> QED
  BY <1>4, <1>5

LEMMA BarsStep ==
    ASSUME TypeOK, TypeOK', CallsOK, ReloadOK, SeriesOK, BarsOK, [Next]_vars
    PROVE  BarsOK'
<1> USE Constants
<1>0. /\ \A b \in Brokers : call[b] \in Calls
      /\ faults \in Nat
  BY DEF TypeOK
<1>1. ASSUME NEW b \in Brokers,
             Tick(b) \/ Lock(b) \/ Enter(b) \/ Dispatch(b) \/ Collect(b) \/ Return(b)
      PROVE  BarsOK'
  <2>1. UNCHANGED <<seen, active, closed, faults>>
    BY <1>1 DEF Tick, Lock, Enter, Dispatch, Collect, Return, ssus, engine
  <2>2. \A c \in Brokers : c # b => call'[c] = call[c]
    BY <1>1 DEF Tick, Lock, Enter, Dispatch, Collect, Return, Leave, TypeOK
  <2>3. ASSUME NEW s \in active, call[b].instrument \in Triggering, Bringing(b, s)
        PROVE  Bringing(b, s)' /\ call'[b].instrument = call[b].instrument
    <3>1. CallOK(b)
      BY DEF CallsOK
    <3>2. call[b].pc \in {"dispatch", "deliver"}
      BY <2>3, <3>1 DEF CallOK, Bringing
    <3>3. CASE Dispatch(b)
      <4>1. call'[b] = [call[b] EXCEPT !.pc = "deliver", !.todo = active,
                                       !.generation = generation]
        BY <3>3 DEF Dispatch, TypeOK
      <4>2. /\ call'[b].todo = active /\ call'[b].shut = call[b].shut
            /\ call'[b].bars = call[b].bars /\ call'[b].instrument = call[b].instrument
        BY <1>0, <4>1 DEF Calls
      <4> QED
        BY <2>3, <4>2 DEF Bringing
    <3>4. CASE Collect(b)
      <4> DEFINE bars == {<<tf, closed[call[b].instrument][tf]>> : tf \in call[b].shut}
      <4>1. call'[b] = [call[b] EXCEPT !.pc = "dispatch", !.event = "candles",
                                       !.shut = {}, !.bars = bars]
        BY <3>4 DEF Collect, TypeOK
      <4>2. call[b].bars = {} /\ TimeframeOf[s] \in call[b].shut
        BY <2>3, <3>1, <3>4 DEF Collect, CallOK, Bringing
      <4>3. \E x \in bars : x[1] = TimeframeOf[s]
        <5>1. <<TimeframeOf[s], closed[call[b].instrument][TimeframeOf[s]]>> \in bars
          BY <4>2
        <5> HIDE DEF bars
        <5> QED
          BY <5>1
      <4> HIDE DEF bars
      <4>4. /\ call'[b].pc = "dispatch" /\ call'[b].bars = bars
            /\ call'[b].instrument = call[b].instrument
        BY <1>0, <4>1 DEF Calls
      <4> QED
        BY <4>3, <4>4 DEF Bringing
    <3>5. CASE Return(b)
      BY <2>3, <3>5 DEF Return, Bringing
    <3> QED
      BY <1>1, <3>2, <3>3, <3>4, <3>5 DEF Tick, Lock, Enter
  <2>4. ASSUME NEW c \in Brokers, NEW s \in active,
               call[c].instrument \in Triggering, Bringing(c, s)
        PROVE  Bringing(c, s)' /\ call'[c].instrument = call[c].instrument
    <3>1. CASE c = b
      BY <2>3, <2>4, <3>1
    <3>2. CASE c # b
      BY <2>2, <2>4, <3>2 DEF Bringing
    <3> QED
      BY <3>1, <3>2
  <2> QED
    BY <1>0, <2>1, <2>4, BringingKept
<1>2. ASSUME NEW b \in Brokers, Form(b)
      PROVE  BarsOK'
  <2> DEFINE j == call[b].instrument
  <2>1. /\ j \in Instruments /\ call[b].shut = {} /\ call[b].bars = {}
        /\ holder[j] = b
    BY <1>2 DEF Form, CallsOK, CallOK, Inside, Holding
  <2>2. \A i \in Instruments : i # j => closed'[i] = closed[i]
    BY <1>2 DEF Form, TypeOK
  <2>3. UNCHANGED <<seen, active, faults>>
    BY <1>2 DEF Form, ssus
  <2>4. \A s \in active : ~Bringing(b, s)
    BY <2>1 DEF Bringing
  <2>5. \A c \in Brokers : c # b => call'[c] = call[c]
    BY <1>2 DEF Form, Leave, TypeOK
  <2>6. ASSUME NEW c \in Brokers, NEW s \in active, Bringing(c, s)
        PROVE  /\ Bringing(c, s)' /\ call'[c] = call[c]
               /\ call[c].instrument # j
    <3>1. c # b
      BY <2>4, <2>6
    <3>2. call[c].pc \in Inside
      BY <2>6 DEF CallsOK, CallOK, Bringing, Inside
    <3>3. holder[call[c].instrument] = c
      BY <3>2 DEF CallsOK, CallOK, Holding
    <3>4. call'[c] = call[c]
      BY <2>5, <3>1
    <3> QED
      BY <2>1, <2>6, <3>1, <3>3, <3>4 DEF Bringing
  <2>7. CASE j \notin Triggering
    <3>1. \A i \in Triggering : closed'[i] = closed[i]
      BY <2>2, <2>7
    <3> QED
      BY <1>0, <2>3, <2>6, <3>1, BringingKept
  <2>8. CASE j \in Triggering
    <3>1. PICK shut \in SUBSET (Required \cap forming[j]) :
            /\ call' = [call EXCEPT ![b].pc = "dispatch", ![b].shut = shut]
            /\ closed' = [closed EXCEPT ![j] =
                 [tf \in Timeframes |-> IF tf \in shut THEN @[tf] + 1 ELSE @[tf]]]
      BY <1>2, <2>8 DEF Form
    <3>2. call'[b] = [call[b] EXCEPT !.pc = "dispatch", !.shut = shut]
      BY <3>1 DEF TypeOK
    <3>3. call'[b].shut = shut /\ call'[b].instrument = j
      BY <1>0, <3>2 DEF Calls
    <3> SUFFICES ASSUME NEW s \in active, NEW i \in Triggering
                 PROVE  /\ seen[s][i] \subseteq 1..closed'[i][TimeframeOf[s]]
                        /\ Cardinality(Missed(s, i) \ Pending(s, i))' <= faults'
      BY <2>3 DEF BarsOK
    <3>4. s \in Ssus /\ i \in Instruments
      BY DEF TypeOK
    <3>5. /\ closed[i][TimeframeOf[s]] \in Nat
          /\ seen[s][i] \subseteq 1..closed[i][TimeframeOf[s]]
      BY <3>4, MissedFinite DEF BarsOK
    <3>6. /\ seen[s][i] \subseteq 1..closed'[i][TimeframeOf[s]]
          /\ (Missed(s, i) \ Pending(s, i))' \subseteq Missed(s, i) \ Pending(s, i)
      <4>1. CASE i # j
        <5>1. closed'[i] = closed[i]
          BY <2>2, <3>4, <4>1
        <5>2. Missed(s, i)' = Missed(s, i)
          BY <2>3, <5>1 DEF Missed
        <5>3. Pending(s, i) \subseteq Pending(s, i)'
          BY <2>6, <5>1 DEF Pending
        <5> QED
          BY <3>5, <5>1, <5>2, <5>3
      <4>2. CASE i = j
        <5>1. Pending(s, i) = {}
          BY <2>6, <4>2 DEF Pending
        <5>2. CASE TimeframeOf[s] \in shut
          <6>1. closed'[i][TimeframeOf[s]] = closed[i][TimeframeOf[s]] + 1
            BY <3>1, <3>4, <4>2, <5>2 DEF TypeOK
          <6>2. Bringing(b, s)'
            BY <3>3, <5>2 DEF Bringing
          <6>3. Pending(s, i)' = {closed[i][TimeframeOf[s]] + 1}
            BY <3>3, <4>2, <6>1, <6>2 DEF Pending
          <6>4. Missed(s, i)' \ {closed[i][TimeframeOf[s]] + 1} \subseteq Missed(s, i)
            BY <2>3, <3>5, <6>1 DEF Missed
          <6> QED
            BY <3>5, <5>1, <6>1, <6>3, <6>4
        <5>3. CASE TimeframeOf[s] \notin shut
          <6>1. closed'[i][TimeframeOf[s]] = closed[i][TimeframeOf[s]]
            BY <3>1, <3>4, <4>2, <5>3 DEF TypeOK
          <6>2. Missed(s, i)' = Missed(s, i)
            BY <2>3, <6>1 DEF Missed
          <6> QED
            BY <3>5, <5>1, <6>1, <6>2
        <5> QED
          BY <5>2, <5>3
      <4> QED
        BY <4>1, <4>2
    <3> QED
      BY <1>0, <2>3, <3>6, Covered
  <2> QED
    BY <2>7, <2>8
<1>3. ASSUME NEW b \in Brokers, Deliver(b)
      PROVE  BarsOK'
  <2> DEFINE r == NextSsu(call[b].todo)
  <2>1. CallOK(b) /\ call[b].generation = generation
    BY <1>3 DEF Deliver, CallsOK, CallOK
  <2>2. r \in Ssus
    BY <1>0, <1>3, NextIsMember DEF Deliver, Calls
  <2>3. seen' = Handled(b, r)
    BY <1>3, <2>1 DEF Deliver
  <2>4. UNCHANGED <<active, closed, faults>>
    BY <1>3 DEF Deliver, ssus, engine
  <2>5. call' = [call EXCEPT ![b] = [call[b] EXCEPT !.todo = @ \ {r}]]
    BY <1>3 DEF Deliver, TypeOK
  <2> SUFFICES ASSUME NEW s \in active, NEW i \in Triggering
               PROVE  /\ seen'[s][i] \subseteq 1..closed[i][TimeframeOf[s]]
                      /\ Cardinality(Missed(s, i) \ Pending(s, i))' <= faults'
    BY <2>4 DEF BarsOK
  <2> HIDE DEF r
  <2> DEFINE n == closed[i][TimeframeOf[s]]
  <2>6. /\ Takes(seen[s][i], seen'[s][i], n)
        /\ /\ r = s /\ call[b].instrument = i
           /\ \E x \in call[b].bars : x[1] = TimeframeOf[s]
           => n \in seen'[s][i]
    BY <1>3, <2>2, <2>3, HandledFacts DEF Deliver
  <2>7. s \in Ssus /\ i \in Instruments /\ n \in Nat
    BY MissedFinite, Constants DEF TypeOK
  <2>8. Missed(s, i)' \subseteq Missed(s, i)
    BY <2>4, <2>6, <2>7, MissedShrinks DEF Takes
  <2>9. ASSUME NEW m \in Missed(s, i)', m \notin Pending(s, i)', m \in Pending(s, i)
        PROVE  FALSE
    <3>1. m = n /\ n \notin seen'[s][i]
      BY <2>4, <2>9 DEF Pending, Missed
    <3>2. PICK c \in Brokers : call[c].instrument = i /\ Bringing(c, s)
      BY <2>9 DEF Pending
    <3>3. \A d \in Brokers : ~(call'[d].instrument = i /\ Bringing(d, s)')
      BY <2>4, <2>9, <3>1 DEF Pending
    <3>4. CASE c # b
      <4>1. call'[c] = call[c]
        BY <2>5, <3>4 DEF TypeOK
      <4> QED
        BY <3>2, <3>3, <4>1 DEF Bringing
    <3>5. CASE c = b
      <4>1. call'[b] = [call[b] EXCEPT !.todo = @ \ {r}]
        BY <2>5 DEF TypeOK
      <4>2. /\ call'[b].instrument = call[b].instrument
            /\ call'[b].shut = call[b].shut /\ call'[b].bars = call[b].bars
            /\ call'[b].todo = call[b].todo \ {r}
        BY <1>0, <4>1 DEF Calls
      <4>3. call[b].pc = "deliver"
        BY <1>3 DEF Deliver
      <4>4. r = s /\ \E x \in call[b].bars : x[1] = TimeframeOf[s]
        BY <3>2, <3>3, <3>5, <4>2, <4>3 DEF Bringing
      <4> QED
        BY <2>6, <3>1, <3>2, <3>5, <4>4
    <3> QED
      BY <3>4, <3>5
  <2>10. (Missed(s, i) \ Pending(s, i))' \subseteq Missed(s, i) \ Pending(s, i)
    BY <2>8, <2>9
  <2>11. Cardinality(Missed(s, i) \ Pending(s, i))' <= faults'
    BY <1>0, <2>4, <2>10, Covered
  <2> QED
    BY <2>6, <2>11 DEF Takes
<1>4. ASSUME NEW b \in Brokers, Fail(b)
      PROVE  BarsOK'
  <2> DEFINE r == NextSsu(call[b].todo)
  <2>1. CallOK(b) /\ call[b].generation = generation
    BY <1>4 DEF Fail, CallsOK, CallOK
  <2>2. r \in Ssus
    BY <1>0, <1>4, NextIsMember DEF Fail, Calls
  <2>3. seen' = seen \/ seen' = Handled(b, r)
    BY <1>4, <2>1 DEF Fail
  <2>4. UNCHANGED <<active, closed>> /\ faults' = faults + 1
    BY <1>4 DEF Fail, ssus, engine
  <2>5. \A c \in Brokers : c # b => call'[c] = call[c]
    BY <1>4 DEF Fail, Leave, TypeOK
  <2> SUFFICES ASSUME NEW s \in active, NEW i \in Triggering
               PROVE  /\ seen'[s][i] \subseteq 1..closed[i][TimeframeOf[s]]
                      /\ Cardinality(Missed(s, i) \ Pending(s, i))' <= faults'
    BY <2>4 DEF BarsOK
  <2> HIDE DEF r
  <2> DEFINE n == closed[i][TimeframeOf[s]]
  <2>6. Takes(seen[s][i], seen'[s][i], n)
    <3>1. CASE seen' = seen
      BY <3>1 DEF BarsOK, Takes
    <3>2. CASE seen' = Handled(b, r)
      BY <1>4, <2>2, <3>2, HandledFacts DEF Fail
    <3> QED
      BY <2>3, <3>1, <3>2
  <2>7. s \in Ssus /\ i \in Instruments /\ n \in Nat
    BY MissedFinite, Constants DEF TypeOK
  <2>8. Missed(s, i)' \subseteq Missed(s, i)
    BY <2>4, <2>6, <2>7, MissedShrinks DEF Takes
  <2>9. \A m \in Pending(s, i) : m = n
    BY DEF Pending
  <2>10. (Missed(s, i) \ Pending(s, i))' \subseteq (Missed(s, i) \ Pending(s, i)) \cup {n}
    BY <2>8, <2>9
  <2>11. Cardinality(Missed(s, i) \ Pending(s, i))' <= faults'
    BY <2>4, <2>10, Covered
  <2> QED
    BY <2>4, <2>6, <2>11 DEF Takes
<1>5. ASSUME Request \/ AcquireGate \/ LoadRows \/ ResetSsus \/ LoadSsu \/ AbortReload
             \/ UNCHANGED vars
      PROVE  BarsOK'
  <2>1. UNCHANGED <<call, seen, active, closed>>
    BY <1>5 DEF Request, AcquireGate, LoadRows, ResetSsus, LoadSsu, AbortReload,
                vars, ssus, engine
  <2>2. faults <= faults'
    <3>1. CASE AbortReload
      BY <1>0, <3>1 DEF AbortReload
    <3>2. CASE ~AbortReload
      <4>1. faults' = faults
        BY <1>5, <3>2 DEF Request, AcquireGate, LoadRows, ResetSsus, LoadSsu, vars
      <4> QED
        BY <1>0, <4>1
    <3> QED
      BY <3>1, <3>2
  <2> QED
    BY <2>1, <2>2, BringingKept DEF Bringing
<1>6. ASSUME Install
      PROVE  BarsOK'
  <2> SUFFICES ASSUME NEW s \in active', NEW i \in Triggering
               PROVE  /\ seen'[s][i] \subseteq 1..closed'[i][TimeframeOf[s]]
                      /\ Cardinality(Missed(s, i) \ Pending(s, i))' <= faults'
    BY DEF BarsOK
  <2>1. s \in reload.loaded /\ s \in Ssus /\ i \in Instruments
    BY <1>6, Constants DEF Install, TypeOK, Reloads
  <2>2. WarmedUp(seen'[s][i], i, closed'[i][TimeframeOf[s]])
    BY <1>6, <2>1 DEF Install, ReloadOK, engine
  <2>3. closed'[i][TimeframeOf[s]] \in Nat
    BY <2>1 DEF TypeOK
  <2>4. Missed(s, i)' = {}
    <3>1. PICK S : S = seen'[s][i]
      OBVIOUS
    <3>2. PICK n \in Nat : n = closed'[i][TimeframeOf[s]]
      BY <2>3
    <3>3. WarmedUp(S, i, n)
      BY <2>2, <3>1, <3>2
    <3>4. \A k \in (1..n) \ S :
             /\ \A m \in S : ~(m < k)
             /\ ~(S = {} /\ i \in Warmed /\ k > StoredBars)
      BY <3>3, WholeMissesNothing
    <3>5. ASSUME NEW k \in Missed(s, i)' PROVE FALSE
      BY <3>1, <3>2, <3>4, <3>5 DEF Missed
    <3> QED
      BY <3>5
  <2>5. (Missed(s, i) \ Pending(s, i))' = {} /\ Cardinality({}) = 0 /\ faults' \in Nat
    BY <2>4, FS_EmptySet DEF TypeOK
  <2>6. Cardinality(Missed(s, i) \ Pending(s, i))' <= faults'
    BY <2>5
  <2> QED
    BY <2>2, <2>6 DEF WarmedUp, Whole
<1> QED
  BY <1>1, <1>2, <1>3, <1>4, <1>5, <1>6 DEF Next, Handling, Reloading

LEMMA SeriesStep ==
    ASSUME TypeOK, CallsOK, SeriesOK, [Next]_vars
    PROVE  SeriesOK'
<1>1. ASSUME NEW b \in Brokers, Form(b) PROVE SeriesOK'
  <2>1. call[b].instrument \in Instruments
    BY <1>1 DEF Form, CallsOK, CallOK
  <2> QED
    BY <1>1, <2>1, FormSeries
<1>2. ASSUME LoadSsu PROVE SeriesOK'
  <2>1. NextSsu(reload.todo) \in Ssus
    BY <1>2, NextIsMember DEF LoadSsu, TypeOK, Reloads
  <2> QED
    BY <1>2, <2>1, RegisterSeries DEF LoadSsu
<1>3. ASSUME AbortReload PROVE SeriesOK'
  BY <1>3, AbortSeries
<1>4. CASE UNCHANGED <<closed, series>>
  BY <1>4 DEF SeriesOK
<1> QED
  BY <1>1, <1>2, <1>3, <1>4
     DEF Next, Handling, Reloading, Tick, Lock, Enter, Dispatch, Deliver, Collect,
         Return, Fail, Request, AcquireGate, LoadRows, ResetSsus, Install, vars, engine

-----------------------------------------------------------------------------
LEMMA InitInv == Init => RuntimeInv
<1> SUFFICES ASSUME Init PROVE RuntimeInv
  OBVIOUS
<1> USE Constants
<1>1. TypeOK
  <2>1. NoReload \in Reloads
    BY DEF NoReload, Reloads, Seen
  <2>2. [NoReload EXCEPT !.pc = "load"] \in Reloads
    BY <2>1 DEF Reloads
  <2>3. <<>> \in Seq(Bars)
    OBVIOUS
  <2>4. closed \in [Instruments -> [Timeframes -> StoredBars..MaxBars]]
    BY DEF Init
  <2> QED
    BY <2>2, <2>3, <2>4, NoCallType DEF Init, TypeOK, Seen
<1>2. CallsOK
  BY DEF Init, CallsOK, CallOK, NoCall, Inside, Holding
<1>3. ReloadOK
  <2>1. reload.pc = "load" /\ reload.loaded = {}
    BY DEF Init, NoReload
  <2> QED
    BY <2>1 DEF Init, ReloadOK
<1>4. SeriesOK
  <2>1. <<>> \in Seq(1..StoredBars) /\ Len(<<>>) = 0
    BY EmptySeq
  <2>2. Grows(<<>>, StoredBars)
    BY <2>1 DEF Grows
  <2>3. \A i \in Instruments, tf \in Timeframes :
          series[i][tf] = <<>> /\ closed[i][tf] = StoredBars
    BY DEF Init
  <2> QED
    BY <2>2, <2>3 DEF SeriesOK
<1>5. BarsOK
  BY DEF Init, BarsOK
<1> QED
  BY <1>1, <1>2, <1>3, <1>4, <1>5 DEF RuntimeInv

(* The inductive invariant holds in every behaviour.                       *)
THEOREM RuntimeInvariant == Spec => []RuntimeInv
<1>1. RuntimeInv /\ [Next]_vars => RuntimeInv'
  <2> SUFFICES ASSUME RuntimeInv, [Next]_vars PROVE RuntimeInv'
    OBVIOUS
  <2>1. TypeOK' /\ CallsOK' /\ ReloadOK' /\ SeriesOK'
    BY TypeStep, CallsStep, ReloadStep, SeriesStep DEF RuntimeInv
  <2>2. BarsOK'
    BY <2>1, BarsStep DEF RuntimeInv
  <2> QED
    BY <2>1, <2>2 DEF RuntimeInv
<1> QED
  BY InitInv, <1>1, PTL DEF Spec

(* Every reachable state is well typed: bars, reloads and generations stay *)
(* within their bounds and every CHOOSE has something to choose from.      *)
THEOREM TypeCorrect == Spec => []TypeOK
<1>1. RuntimeInv => TypeOK
  BY DEF RuntimeInv
<1> QED
  BY <1>1, RuntimeInvariant, PTL

(* reload_ssus and on_tick exclude each other, and so do two ticks of one  *)
(* instrument: what PositionBook and TradeManager take as given when they  *)
(* name a thread by its instrument.                                        *)
InstrumentIsExclusive ==
    /\ \A b, c \in Brokers :
         b # c /\ call[b].pc \in Inside /\ call[c].pc \in Inside =>
            call[b].instrument # call[c].instrument
    /\ reload.pc \in {"load", "reset", "register"} =>
         \A b \in Brokers : call[b].pc \notin Inside
THEOREM OneThreadPerInstrument == Spec => []InstrumentIsExclusive
<1>1. RuntimeInv => InstrumentIsExclusive
  <2> SUFFICES ASSUME RuntimeInv PROVE InstrumentIsExclusive
    OBVIOUS
  <2>1. \A b \in Brokers : call[b].pc \in Inside =>
          holder[call[b].instrument] = b /\ b \in readers
    BY DEF RuntimeInv, CallsOK, CallOK, Holding
  <2> QED
    BY <2>1 DEF RuntimeInv, ReloadOK, InstrumentIsExclusive
<1> QED
  BY <1>1, RuntimeInvariant, PTL

(* No event reaches a strategy instance that a reload has replaced.        *)
THEOREM HandlersAreCurrent == Spec => []InstancesAreCurrent
<1>1. RuntimeInv => InstancesAreCurrent
  BY DEF RuntimeInv, CallsOK, CallOK, InstancesAreCurrent
<1> QED
  BY <1>1, RuntimeInvariant, PTL

(* From the first bar it has seen on, an active SSU has no hole in the     *)
(* bars of a triggering instrument, but one at most per failed handler.    *)
THEOREM NoBarMissed == Spec => []BarsAreSeen
<1>1. RuntimeInv => BarsAreSeen
  <2> SUFFICES ASSUME RuntimeInv, NEW s \in active, NEW i \in Triggering,
                      holder[i] = NoBroker
               PROVE  Cardinality(Missed(s, i)) <= faults
    BY DEF BarsAreSeen
  <2>1. ASSUME NEW b \in Brokers, call[b].instrument = i
        PROVE  ~Bringing(b, s)
    <3>1. CallOK(b) /\ b # NoBroker
      BY Constants DEF RuntimeInv, CallsOK
    <3>2. call[b].pc \notin Inside
      BY <2>1, <3>1 DEF CallOK, Inside, Holding
    <3> QED
      BY <3>1, <3>2 DEF CallOK, Bringing, Inside
  <2>2. Pending(s, i) = {}
    BY <2>1 DEF Pending
  <2>3. Missed(s, i) \ Pending(s, i) = Missed(s, i)
    BY <2>2
  <2> QED
    BY <2>3 DEF RuntimeInv, BarsOK
<1> QED
  BY <1>1, RuntimeInvariant, PTL

(* A reload that succeeds installs exactly what it has registered.         *)
THEOREM InstalledRegistered == Spec => InstalledIsRegistered
<1>1. RuntimeInv /\ [Next]_vars =>
        [generation' # generation => registered' = active']_vars
  <2> SUFFICES ASSUME RuntimeInv, Next, generation' # generation
               PROVE  registered' = active'
    BY DEF vars
  <2>1. Install
    BY DEF Next, Handling, Tick, Lock, Enter, Form, Dispatch, Deliver, Collect,
           Return, Fail, Request, Reloading, AcquireGate, LoadRows, ResetSsus,
           LoadSsu, AbortReload, ssus
  <2> QED
    BY <2>1 DEF Install, RuntimeInv, ReloadOK, engine
<1> QED
  BY <1>1, RuntimeInvariant, PTL DEF Spec, InstalledIsRegistered
=============================================================================
