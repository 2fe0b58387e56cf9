-------------------------- MODULE IndicatorState ---------------------------
(***************************************************************************)
(* The indicator state of adaptive_supertrend for one strategy unit,       *)
(* instrument and timeframe: what on_closed_bar does to its rolling        *)
(* windows, pivots, bands and trend, bar after bar, first for the bars of  *)
(* a replay and then for live ones.                                        *)
(*                                                                         *)
(* Sums and comparisons are exact, over integers; floats round.  Whatever  *)
(* a formula computes from the windows is any of its possible results: the *)
(* distance of a band from the source (a multiplier times the ATR) is any  *)
(* member of Widths, and whether the quality index fell as far as a        *)
(* character flip asks is any truth value.  Volumes and the means that     *)
(* only these formulas read (RollingMean, RollingStats) are left out.      *)
(***************************************************************************)
EXTENDS Integers, Sequences, FiniteSets, FiniteSetsExt

CONSTANTS
    Prices,         \* prices of the bars
    Widths,         \* distances of a band from the source
    CloseSource,    \* settings.source is the close, as it is by default
    CharFlip,       \* use_char_flip and use_tqi
    CharFlipMinAge, \* char_flip_min_age
    AtrLen,         \* effective_atr_len
    ErLen,          \* effective_er_len
    MomLen,         \* tqi_mom_len
    StructLen,      \* tqi_struct_len
    PivotLen,       \* pivot_len
    MinWarmup,      \* min_warmup_bars()
    MaxTime,        \* bound: bars end at 1..MaxTime
    None            \* Option::None

(* The lengths are clamped to positive numbers, multipliers and ATR are    *)
(* not negative, and min_warmup_bars exceeds every length it looks at (by  *)
(* 10 in the code).                                                        *)
ASSUME IndicatorAssumption ==
    /\ Prices \subseteq Int /\ Widths \subseteq Nat
    /\ {CloseSource, CharFlip} \subseteq BOOLEAN
    /\ {AtrLen, ErLen, MomLen, StructLen, PivotLen} \subseteq Nat \ {0}
    /\ CharFlipMinAge \in Nat /\ MaxTime \in Nat /\ MinWarmup \in Nat
    /\ \A len \in {AtrLen, ErLen, MomLen, StructLen, 2 * PivotLen + 1} :
           len < MinWarmup

Bars == {bar \in [high : Prices, low : Prices, close : Prices] :
            bar.low <= bar.close /\ bar.close <= bar.high}

(* What PivotTracker remembers of a bar.                                   *)
PivotBars == [seq : Nat, high : Int, low : Int]

ASSUME NoneAssumption == None \notin Int \cup {"long", "short"} \cup PivotBars

(* What settings.source may make of a bar: its open, high, low, close or   *)
(* one of their averages.                                                  *)
SourceValues(bar) == IF CloseSource THEN {bar.close} ELSE bar.low..bar.high

VARIABLES
    lastEnd,    \* last_processed_closed_end, 0 for None
    processed,  \* processed_bars
    lastClose,
    structure,  \* RollingExtrema: next_index and its two queues
    er,         \* RollingEfficiency
    momentum,   \* RollingMomentum
    pivots,     \* PivotTracker
    pending,    \* pending_pivot_high and pending_pivot_low
    lastPivot,  \* last_pivot_high and last_pivot_low
    lower,      \* lower_band
    upper,      \* upper_band
    trend,
    trendStart, \* trend_start_index
    live,       \* a bar that is not a replayed one was processed
    point,      \* what the last call returned
    bars,       \* observer: the bars processed, the oldest first
    walked,     \* observer: length of the path of the closes up to each bar
    entered     \* observer: the side of the last live entry

windows == <<structure, er, momentum, pivots>>
bands == <<lower, upper, trend, trendStart>>
counters == <<lastEnd, processed, lastClose>>
observers == <<bars, walked, entered>>
vars == <<counters, windows, pending, lastPivot, bands, live, point, observers>>

Abs(n) == IF n < 0 THEN -n ELSE n
-----------------------------------------------------------------------------
(* MonotonicQueue: a deque of positions and values.                        *)

Removes(mode, existing, incoming) ==
    IF mode = "Max" THEN existing <= incoming ELSE existing >= incoming

Push(mode, queue, entry) ==
    LET kept == {k \in DOMAIN queue :
                    ~Removes(mode, queue[k].value, entry.value)}
    IN  Append(SubSeq(queue, 1, Max(kept \cup {0})), entry)

ExpireBefore(queue, first) ==
    LET kept == {k \in DOMAIN queue : queue[k].seq >= first}
    IN  SubSeq(queue, Min(kept \cup {Len(queue) + 1}), Len(queue))

(* The highs and the lows are always pushed and expired together.          *)
NoQueues == [high |-> <<>>, low |-> <<>>]

PushBar(queues, seq, bar) ==
    [high |-> Push("Max", queues.high, [seq |-> seq, value |-> bar.high]),
     low  |-> Push("Min", queues.low, [seq |-> seq, value |-> bar.low])]

ExpireBars(queues, first) ==
    [high |-> ExpireBefore(queues.high, first),
     low  |-> ExpireBefore(queues.low, first)]

(* A VecDeque that drops its front when it grows beyond its capacity.      *)
Slide(window, value, capacity) ==
    LET longer == Append(window, value)
    IN  IF Len(longer) > capacity THEN Tail(longer) ELSE longer

Dropped(window, capacity) == Len(window) >= capacity
-----------------------------------------------------------------------------
(* RollingExtrema                                                          *)

(* The bar StructLen before the newest is kept.                            *)
Bug_PushExtrema(s, bar) ==
    [next   |-> s.next + 1,
     queues |-> ExpireBars(PushBar(s.queues, s.next, bar),
                           Max({s.next - StructLen, 0}))]

PushExtrema(s, bar) ==
    LET first == Max({s.next + 1 - StructLen, 0})
    IN  [next   |-> s.next + 1,
         queues |-> ExpireBars(PushBar(s.queues, s.next, bar), first)]

(* RollingEfficiency                                                       *)

PushEfficiency(e, close) ==
    LET prev == e.closes[Len(e.closes)]
        diff == Abs(close - prev)
        closes == Slide(e.closes, close, ErLen + 1)
    IN  IF e.closes = <<>> THEN [e EXCEPT !.closes = closes]
        ELSE [closes     |-> closes,
              diffs      |-> Slide(e.diffs, diff, ErLen),
              volatility |-> e.volatility + diff
                  - (IF Dropped(e.diffs, ErLen) THEN Head(e.diffs) ELSE 0)]

(* The ratio a push returns, as numerator and denominator: 0 until the     *)
(* window is full, and where safe_div falls back.                          *)
EfficiencyRatio(e) ==
    IF Len(e.closes) <= ErLen \/ Len(e.diffs) < ErLen \/ e.volatility = 0
    THEN <<0, 1>>
    ELSE <<Abs(e.closes[Len(e.closes)] - Head(e.closes)), e.volatility>>

(* RollingMomentum                                                         *)

Rises(diff) == IF diff > 0 THEN 1 ELSE 0
Falls(diff) == IF diff < 0 THEN 1 ELSE 0

AddDiff(m, diff) ==
    LET removed == IF Dropped(m.diffs, MomLen) THEN Head(m.diffs) ELSE 0
    IN  [closes   |-> m.closes,
         diffs    |-> Slide(m.diffs, diff, MomLen),
         positive |-> m.positive + Rises(diff) - Rises(removed),
         negative |-> m.negative + Falls(diff) - Falls(removed)]

PushMomentum(m, close) ==
    LET prev == m.closes[Len(m.closes)]
        added == IF m.closes = <<>> THEN m ELSE AddDiff(m, close - prev)
    IN  [added EXCEPT !.closes = Slide(@, close, MomLen + 1)]

(* What a push returns, as a number of moves out of MomLen.                *)
MovesWithWindow(m) ==
    LET change == m.closes[Len(m.closes)] - Head(m.closes)
    IN  IF Len(m.closes) <= MomLen \/ Len(m.diffs) < MomLen THEN 0
        ELSE Rises(change) * m.positive + Falls(change) * m.negative

(* PivotTracker: the bar PivotLen before the newest is a pivot when it     *)
(* exceeds the PivotLen bars on both of its sides.                         *)

WindowValue(window, seq) ==
    LET k == seq - Head(window).seq + 1
    IN  IF k \in DOMAIN window /\ window[k].seq = seq THEN window[k] ELSE None

PushPivot(p, bar) ==
    LET seq == p.next
        window == Slide(p.window,
                        [seq |-> seq, high |-> bar.high, low |-> bar.low],
                        2 * PivotLen + 1)
        leftSeq == seq - PivotLen - 1
        leftBar == IF seq > PivotLen THEN WindowValue(window, leftSeq) ELSE None
        left == IF leftBar = None THEN p.left
                ELSE PushBar(p.left, leftSeq, leftBar)
        right == PushBar(p.right, seq, bar)
        full == seq >= 2 * PivotLen
    IN  [next   |-> seq + 1,
         window |-> window,
         left   |-> IF full THEN ExpireBars(left, seq - 2 * PivotLen) ELSE left,
         right  |-> IF full THEN ExpireBars(right, seq - PivotLen + 1) ELSE right]

(* As high as a neighbour is enough.                                       *)
Bug_Exceeds(mode, value, queue) ==
    \/ queue = <<>>
    \/ Removes(mode, Head(queue).value, value)

(* Strictly beyond the front of a queue, or the queue is empty.            *)
Exceeds(mode, value, queue) ==
    \/ queue = <<>>
    \/ ~Removes(mode, value, Head(queue).value)

PivotUpdate(p) ==
    LET centre == WindowValue(p.window, p.next - 1 - PivotLen)
        confirmed(mode, side) ==
            /\ p.next > 2 * PivotLen
            /\ centre # None
            /\ Exceeds(mode, centre[side], p.left[side])
            /\ Exceeds(mode, centre[side], p.right[side])
    IN  [high |-> IF confirmed("Max", "high") THEN centre.high ELSE None,
         low  |-> IF confirmed("Min", "low") THEN centre.low ELSE None]

AppliedPivots ==
    [side \in {"high", "low"} |->
        IF pending[side] = None THEN lastPivot[side] ELSE pending[side]]
-----------------------------------------------------------------------------
(* Bands, trend and entry.                                                 *)

NextLower(raw, prevClose) ==
    IF lower # None /\ prevClose > lower THEN Max({raw, lower}) ELSE raw

NextUpper(raw, prevClose) ==
    IF upper # None /\ prevClose < upper THEN Min({raw, upper}) ELSE raw

TrendAge == Max({processed - trendStart, 0})

PriceFlipUp(bar) == trend = -1 /\ upper # None /\ bar.close > upper
PriceFlipDown(bar) == trend = 1 /\ lower # None /\ bar.close < lower

NextTrend(bar, source, charBase) ==
    CASE PriceFlipUp(bar) \/ (charBase /\ trend = -1 /\ bar.close > source) -> 1
      [] PriceFlipDown(bar) \/ (charBase /\ trend = 1 /\ bar.close < source) -> -1
      [] OTHER -> trend

(* An entry at every bar of a trend.                                       *)
Bug_EntrySide(mayEmit) ==
    IF ~mayEmit \/ processed + 1 < MinWarmup THEN None
    ELSE IF trend' = 1 THEN "long" ELSE "short"

EntrySide(mayEmit) ==
    IF ~mayEmit \/ processed + 1 < MinWarmup \/ trend' = trend THEN None
    ELSE IF trend' = 1 THEN "long" ELSE "short"
-----------------------------------------------------------------------------
Init ==
    /\ lastEnd = 0 /\ processed = 0 /\ lastClose = None
    /\ structure = [next |-> 0, queues |-> NoQueues]
    /\ er = [closes |-> <<>>, diffs |-> <<>>, volatility |-> 0]
    /\ momentum = [closes |-> <<>>, diffs |-> <<>>, positive |-> 0, negative |-> 0]
    /\ pivots = [next |-> 0, window |-> <<>>, left |-> NoQueues, right |-> NoQueues]
    /\ pending = [high |-> None, low |-> None]
    /\ lastPivot = [high |-> None, low |-> None]
    /\ lower = None /\ upper = None /\ trend = 1 /\ trendStart = 0
    /\ live = FALSE /\ point = None
    /\ bars = <<>> /\ walked = <<>> /\ entered = None

(* The rolling windows, and the pivots that the bar before had confirmed.  *)
PushWindows(bar) ==
    /\ structure' = PushExtrema(structure, bar)
    /\ er' = PushEfficiency(er, bar.close)
    /\ momentum' = PushMomentum(momentum, bar.close)
    /\ lastPivot' = AppliedPivots
    /\ pivots' = PushPivot(pivots, bar)
    /\ pending' = PivotUpdate(pivots')

(* The ATR is 0 until its average is seeded with AtrLen bars.              *)
MoveBands(bar) ==
    LET prevClose == IF lastClose = None THEN bar.close ELSE lastClose
        atLeastAge == CharFlip /\ TrendAge >= CharFlipMinAge
    IN  \E source \in SourceValues(bar) :
        \E below, above \in IF processed + 1 < AtrLen THEN {0} ELSE Widths :
        \E charBase \in IF atLeastAge THEN BOOLEAN ELSE {FALSE} :
            /\ lower' = NextLower(source - below, prevClose)
            /\ upper' = NextUpper(source + above, prevClose)
            /\ trend' = NextTrend(bar, source, charBase)
            /\ trendStart' = IF trend' # trend THEN processed ELSE trendStart

(* The line of the trend before the flip.                                  *)
Bug_Point(mayEmit) ==
    [entry     |-> EntrySide(mayEmit),
     line      |-> IF trend = 1 THEN lower' ELSE upper',
     er        |-> EfficiencyRatio(er'),
     moves     |-> MovesWithWindow(momentum'),
     struct    |-> [high |-> Head(structure'.queues.high).value,
                    low  |-> Head(structure'.queues.low).value],
     lastPivot |-> lastPivot']

Point(mayEmit) ==
    [entry     |-> EntrySide(mayEmit),
     line      |-> IF trend' = 1 THEN lower' ELSE upper',
     er        |-> EfficiencyRatio(er'),
     moves     |-> MovesWithWindow(momentum'),
     struct    |-> [high |-> Head(structure'.queues.high).value,
                    low  |-> Head(structure'.queues.low).value],
     lastPivot |-> lastPivot']

ProcessBar(bar, endAt, mayEmit) ==
    /\ endAt > lastEnd
    /\ PushWindows(bar)
    /\ MoveBands(bar)
    /\ point' = Point(mayEmit)
    /\ lastClose' = bar.close
    /\ processed' = processed + 1
    /\ lastEnd' = endAt
    /\ bars' = Append(bars, bar)
    /\ walked' = Append(walked,
           IF bars = <<>> THEN 0
           ELSE walked[Len(bars)] + Abs(bar.close - bars[Len(bars)].close))

(* replay_warmup_bars: nothing becomes of the points, and they carry an    *)
(* entry only when the replay is logged.                                   *)
Replay(bar, endAt) ==
    /\ ~live
    /\ \E mayEmit \in BOOLEAN : ProcessBar(bar, endAt, mayEmit)
    /\ UNCHANGED <<live, entered>>

(* advance_state, for a bar that closed.                                   *)
Advance(bar, endAt) ==
    /\ ProcessBar(bar, endAt, TRUE)
    /\ live' = TRUE
    /\ entered' = IF point'.entry = None THEN entered ELSE point'.entry

(* A bar that is not newer than the last one processed.                    *)
Ignore(endAt) ==
    /\ endAt <= lastEnd
    /\ point' = None
    /\ UNCHANGED <<counters, windows, pending, lastPivot, bands, live, observers>>

Next ==
    \E endAt \in 1..MaxTime :
        \/ Ignore(endAt)
        \/ \E bar \in Bars : Replay(bar, endAt) \/ Advance(bar, endAt)

Spec == Init /\ [][Next]_vars
-----------------------------------------------------------------------------
(* What the windows and queues must agree with: the bars themselves.       *)

N == Len(bars)
Last(len) == {k \in 1..N : k > N - len}
Highs(S) == {bars[k].high : k \in S}
Lows(S) == {bars[k].low : k \in S}
Rising(len) == {k \in Last(len) : k > 1 /\ bars[k].close > bars[k - 1].close}
Falling(len) == {k \in Last(len) : k > 1 /\ bars[k].close < bars[k - 1].close}

Around(k) == {j \in (k - PivotLen)..(k + PivotLen) : j # k}

(* The pivots that the bars up to the nth confirm.                         *)
PivotHighs(n) ==
    {k \in (PivotLen + 1)..(n - PivotLen) :
        \A j \in Around(k) : bars[j].high < bars[k].high}
PivotLows(n) ==
    {k \in (PivotLen + 1)..(n - PivotLen) :
        \A j \in Around(k) : bars[j].low > bars[k].low}

Options == Int \cup {None}
Entries == [seq : Nat, value : Int]
Queues == [high : Seq(Entries), low : Seq(Entries)]
Pivots == [high : Options, low : Options]

(* The types of the state and of the bars that made it; the counters are   *)
(* unsigned in the code, so none may fall below 0.                         *)
TypeOK ==
    /\ lastEnd \in 0..MaxTime /\ processed \in Nat /\ lastClose \in Options
    /\ structure \in [next : Nat, queues : Queues]
    /\ er \in [closes : Seq(Int), diffs : Seq(Nat), volatility : Nat]
    /\ momentum \in [closes : Seq(Int), diffs : Seq(Int),
                     positive : Nat, negative : Nat]
    /\ pivots \in [next : Nat, window : Seq(PivotBars),
                   left : Queues, right : Queues]
    /\ pending \in Pivots /\ lastPivot \in Pivots
    /\ lower \in Options /\ upper \in Options
    /\ trend \in {1, -1} /\ trendStart \in Nat /\ live \in BOOLEAN
    /\ point \in {None} \cup
           [entry : {None, "long", "short"}, line : Int, er : Nat \X Nat,
            moves : Nat, struct : [high : Int, low : Int], lastPivot : Pivots]
    /\ bars \in Seq(Bars) /\ walked \in Seq(Nat)
    /\ entered \in {None, "long", "short"}

(* The structure range of a point is the highest high and the lowest low   *)
(* of the last StructLen bars: no bar is evicted early, late or hidden by  *)
(* another in the monotonic queues.                                        *)
ExtremaExact ==
    point # None =>
        point.struct = [high |-> Max(Highs(Last(StructLen))),
                        low  |-> Min(Lows(Last(StructLen)))]

(* The efficiency ratio is the distance between the closes ErLen bars      *)
(* apart over the length of the path between them, 0 before there are such *)
(* closes and when the path has no length; so it is never above 1, which   *)
(* the ATR and the multipliers that use it rely on.                        *)
EfficiencyIsPath ==
    point # None =>
        /\ point.er[1] <= point.er[2]
        /\ point.er = IF N <= ErLen \/ walked[N] = walked[N - ErLen] THEN <<0, 1>>
                      ELSE <<Abs(bars[N].close - bars[N - ErLen].close),
                             walked[N] - walked[N - ErLen]>>

(* The momentum counters, which are only ever incremented and decremented, *)
(* count the rises and falls among the last MomLen moves; and a window     *)
(* that ends higher or lower than it began has at least one move with it.  *)
MomentumCounts ==
    /\ momentum.positive = Cardinality(Rising(MomLen))
    /\ momentum.negative = Cardinality(Falling(MomLen))
    /\ point # None /\ N > MomLen /\ bars[N].close # bars[N - MomLen].close =>
           /\ point.moves \in 1..MomLen
           /\ point.moves = IF bars[N].close > bars[N - MomLen].close
                            THEN Cardinality(Rising(MomLen))
                            ELSE Cardinality(Falling(MomLen))

(* What the formulas of a point read of the windows is what the bars say.  *)
WindowsAreExact == ExtremaExact /\ EfficiencyIsPath /\ MomentumCounts

(* The pivots of a point, under which the stop of an entry is put, are the *)
(* latest that the bars before this one confirm: a bar strictly beyond the *)
(* PivotLen bars on each side, none skipped and none from the future.      *)
LatestPivot ==
    point # None =>
        LET highs == PivotHighs(N - 1)
            lows == PivotLows(N - 1)
        IN  point.lastPivot =
                [high |-> IF highs = {} THEN None ELSE bars[Max(highs)].high,
                 low  |-> IF lows = {} THEN None ELSE bars[Max(lows)].low]

(* With the close as source the line is on the trend's side of the close,  *)
(* also right after a flip: a trade that trails the line cannot be closed  *)
(* by it while the trend is with the trade.                                *)
LineOnTrendSide ==
    CloseSource /\ point # None =>
        IF trend = 1 THEN point.line <= bars[N].close
                     ELSE point.line >= bars[N].close

(* An entry is only emitted when every window that the formulas read is    *)
(* full and the ATR is seeded.                                             *)
EntryIsWarm ==
    point # None /\ point.entry # None =>
        /\ N >= AtrLen /\ N >= StructLen /\ N > 2 * PivotLen
        /\ Len(er.closes) = ErLen + 1 /\ Len(er.diffs) = ErLen
        /\ Len(momentum.diffs) = MomLen

(* While a trend lasts, with the close as source, the line only follows    *)
(* it, unless a close was exactly on the line.                             *)
Ratchets ==
    CloseSource /\ processed' # processed /\ trend' = trend =>
        /\ trend = 1 /\ lower # None /\ lastClose # lower => lower' >= lower
        /\ trend = -1 /\ lastClose # upper => upper' <= upper
LineRatchets == [][Ratchets]_vars

(* The line a trade may trail is on its side after every bar, and follows. *)
LineFollowsTrend == [][LineOnTrendSide' /\ Ratchets]_vars

(* Live entries alternate: no side is entered again before the other.      *)
EntriesAlternate ==
    [][processed' # processed /\ entered # None /\ point'.entry # None =>
           point'.entry # entered]_vars

(* What the strategy enters on: full windows, and one side after the other.*)
EntriesAreSound == []EntryIsWarm /\ EntriesAlternate
=============================================================================
