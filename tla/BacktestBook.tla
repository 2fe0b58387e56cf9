---------------------------- MODULE BacktestBook ----------------------------
(***************************************************************************)
(* A backtest: the stored minutes of every instrument become bars, the     *)
(* bars are replayed in groups that end together, and the strategies trade *)
(* on BacktestPositionBook, which keeps the positions, four indexes that   *)
(* its limits are read from, and the money of every trade.                 *)
(*                                                                         *)
(* One thread runs it all.  A strategy is given by what it may do at a     *)
(* bar: take levels of an open trade, close it, then enter once.  Its      *)
(* instrument and the traded one are the same, and it names the position   *)
(* it leaves by its leg id.                                                *)
(*                                                                         *)
(* Time is counted in minutes, quantities in thirds of a position, money   *)
(* in units that keep every percentage exact.  Stored candles of larger    *)
(* timeframes, which nothing in the program writes, are left out, and so   *)
(* is the clipping of a bucket by a session.                               *)
(***************************************************************************)
EXTENDS Integers, FiniteSets, FiniteSetsExt, SequencesExt

CONSTANTS
    Ssus,          \* SSU ids, in the order they run
    Instruments,   \* instruments, numbered in the order of their names
    MaxTime,       \* bound: minutes 0..MaxTime-1 may be stored
    Histories,     \* stored minutes of each instrument, with their close
    From, To,      \* --from and --to
    WarmupBars,    \* --warmup-bars
    FactorOf,      \* timeframe of each SSU, in minutes
    ExitPrices,    \* prices at which a trade may be left
    Levels,        \* labels of a partial exit
    Units,         \* a position of quantity_ratio 1.0
    PartialUnits,  \* PARTIAL_EXIT_FRACTION
    Slippage,      \* slippage_pct, in percent
    EntryFee,      \* entry and exit fee with their tax, in percent
    ExitFee,
    FixedFee,      \* fixed_fee_per_order
    FundingRate,   \* funding_rate_pct, in percent
    Interval,      \* funding_interval_hours, in minutes
    Modes,         \* FundingChargeMode of the runs
    DayLength, TradeGap, MaxOverlap, MaxPerDay

Sides == {"Long", "Short"}
Times == 1..MaxTime
PosIds == [ssu : Ssus, instrument : Instruments, at : Times]
Timeframes == {FactorOf[s] : s \in Ssus} \cup {1}
NoRow == [side |-> "none", status |-> "none", exit_at |-> 0]
NoTrade == [side |-> "none"]

ASSUME BacktestAssumption ==
    /\ Ssus \subseteq Nat /\ IsFiniteSet(Ssus)
    /\ Instruments \subseteq Nat /\ IsFiniteSet(Instruments)
    /\ MaxTime \in Nat /\ From \in Nat /\ To \in Nat /\ From < To
    /\ WarmupBars \in Nat /\ FactorOf \in [Ssus -> Nat \ {0}]
    /\ \A h \in Histories :
          /\ DOMAIN h = Instruments
          /\ \A i \in Instruments : /\ DOMAIN h[i] \subseteq 0..(MaxTime - 1)
                                   /\ \A m \in DOMAIN h[i] : h[i][m] \in Int
    /\ Units \in Nat /\ PartialUnits \in Nat \ {0} /\ ExitPrices \subseteq Int
    /\ {Slippage, EntryFee, ExitFee, FixedFee, FundingRate} \subseteq Int
    /\ Modes \subseteq {"disabled", "absolute", "signed"}
    /\ Interval \in Nat \ {0} /\ DayLength \in Nat \ {0}
    /\ \A limit \in {TradeGap, MaxOverlap, MaxPerDay} : limit \in [Ssus -> Nat]

VARIABLES
    history,            \* historical_candles: the close of each stored minute
    mode,               \* funding_charge_mode
    replay,             \* the bars to come
    series,             \* the engine's closed bars, by instrument and timeframe
    queue,              \* handlers of the current group: SSU and instrument
    now,                \* end_at of the current group
    positions,          \* BacktestPositionBook.positions
    trades,             \* BacktestPositionBook.trades
    open_by_ssu, open_by_key, last_entry_by_ssu, entries_by_ssu_day

feed == <<history, mode, replay, series, now>>
indexes == <<open_by_ssu, open_by_key, last_entry_by_ssu, entries_by_ssu_day>>
vars == <<feed, queue, positions, trades, indexes>>

(* A set, in the order that Before says.                                   *)
Sorted(S, Before(_, _)) ==
    [k \in 1..Cardinality(S) |->
        CHOOSE x \in S : Cardinality({y \in S : Before(y, x)}) = k - 1]

----------------------------------------------------------------------------
(* The bars.  A bar is named by its instrument, timeframe and end.         *)

LoadBetween(i) == {m \in DOMAIN history[i] : From <= m /\ m <= To}

Newest(S, n) == {m \in S : Cardinality({k \in S : k > m}) < n}
LoadBefore(i, n) == Newest({m \in DOMAIN history[i] : m < From}, n)

BucketEnd(m, f) == (m \div f + 1) * f

MinOf(S) == CHOOSE x \in S : \A y \in S : x <= y
MaxOf(S) == CHOOSE x \in S : \A y \in S : x >= y

(* Ends of the buckets of some minutes, without the first one if it began  *)
(* before them and the last one if it ends after them.                     *)
DropEdges(ends, minutes, f) ==
    LET head == {e \in ends : e = MinOf(ends) /\ MinOf(minutes) > e - f}
        rest == ends \ head
        tail == {e \in rest : e = MaxOf(rest) /\ MaxOf(minutes) + 1 < e}
    IN  rest \ tail

Aggregate(minutes, f) ==
    DropEdges({BucketEnd(m, f) : m \in minutes}, minutes, f)

WarmupEnds(i, f) ==
    IF f = 1 THEN {m + 1 : m \in LoadBefore(i, WarmupBars)}
    ELSE Newest(Aggregate(LoadBefore(i, (WarmupBars + 2) * f), f), WarmupBars)

ReplayEnds(i, f) == Aggregate(LoadBetween(i), f)

Bars == UNION {{[end |-> e, factor |-> f, instrument |-> i] : e \in ReplayEnds(i, f)} :
                 i \in Instruments, f \in {FactorOf[s] : s \in Ssus}}

Bug_Precedes(a, b) ==     \* the timeframe before the end
    \/ a.factor < b.factor
    \/ a.factor = b.factor /\ a.end < b.end
    \/ a.factor = b.factor /\ a.end = b.end /\ a.instrument < b.instrument
Precedes(a, b) ==
    \/ a.end < b.end
    \/ a.end = b.end /\ a.factor < b.factor
    \/ a.end = b.end /\ a.factor = b.factor /\ a.instrument < b.instrument

Ascending(S) == Sorted(S, <)

Init ==
    /\ history \in Histories
    /\ mode \in Modes
    /\ replay = Sorted(Bars, Precedes)
    /\ series = [i \in Instruments |-> [f \in Timeframes |->
                    IF \E s \in Ssus : FactorOf[s] = f
                      THEN Ascending(WarmupEnds(i, f)) ELSE <<>>]]
    /\ queue = <<>>
    /\ now = 0
    /\ positions = [p \in PosIds |-> NoRow]
    /\ trades = [p \in PosIds |-> NoTrade]
    /\ open_by_ssu = [s \in Ssus |-> {}]
    /\ open_by_key = [s \in Ssus |-> [i \in Instruments |-> [d \in Sides |-> {}]]]
    /\ last_entry_by_ssu = [s \in Ssus |-> 0]
    /\ entries_by_ssu_day = [s \in Ssus |-> [d \in 0..(MaxTime \div DayLength) |-> 0]]

(* The engine takes a bar unless it has one that ends as late.             *)
IsNew(bar) ==
    \A k \in DOMAIN series[bar.instrument][bar.factor] :
        series[bar.instrument][bar.factor][k] < bar.end

(* The handlers an event is dispatched to: each SSU in turn, its           *)
(* instruments in the order of the snapshot's map.                         *)
Handlers(bars) ==
    Sorted({h \in Ssus \X Instruments :
                    \E b \in bars : b.factor = FactorOf[h[1]] /\ b.instrument = h[2]},
                 LAMBDA x, y : x[1] < y[1] \/ (x[1] = y[1] /\ x[2] < y[2]))

(* on_closed_bars: all the bars that end next, in one event.               *)
NextGroup ==
    /\ queue = <<>> /\ replay # <<>>
    /\ now' = Head(replay).end
    /\ LET n == MaxOf({k \in DOMAIN replay : \A j \in 1..k : replay[j].end = now'})
           bars == {b \in {replay[k] : k \in 1..n} : IsNew(b)}
       IN  /\ replay' = SubSeq(replay, n + 1, Len(replay))
           /\ series' = [i \in Instruments |-> [f \in Timeframes |->
                 IF \E b \in bars : b.instrument = i /\ b.factor = f
                   THEN Append(series[i][f], now') ELSE series[i][f]]]
           /\ queue' = Handlers(bars)
    /\ UNCHANGED <<history, mode, positions, trades, indexes>>

----------------------------------------------------------------------------
(* Costs.  Prices are in hundredths from here on, percentages multiply a   *)
(* notional by hundred times their fraction, and so does Gross.            *)

Entering(side) == IF side = "Long" THEN "Buy" ELSE "Sell"
Leaving(side) == IF side = "Long" THEN "Sell" ELSE "Buy"

FillPrice(action, price) ==
    IF action = "Buy" THEN price * (100 + Slippage) ELSE price * (100 - Slippage)

TradingFee(price, qty, pct) == price * qty * pct + FixedFee

Sign(side) == IF side = "Long" THEN 1 ELSE -1
Abs(x) == IF x < 0 THEN -x ELSE x

Gross(side, entry, exit, qty) == Sign(side) * (exit - entry) * qty * 100

Snapshots(from, to) ==
    LET first == IF from % Interval = 0 THEN from ELSE (from \div Interval + 1) * Interval
        last  == (to \div Interval) * Interval
    IN  IF first > last THEN 0 ELSE (last - first) \div Interval + 1

Funding(side, price, qty, from, to) ==
    LET notional == price * qty * Snapshots(from, to)
    IN  CASE mode = "disabled" -> 0
          [] mode = "absolute" -> notional * Abs(FundingRate)
          [] mode = "signed"   -> notional * FundingRate * Sign(side)

----------------------------------------------------------------------------
(* The book.                                                               *)

Day(at) == at \div DayLength

(* enforce_ssu_limits reads the indexes only.                              *)
Admitted(s, at) ==
    /\ TradeGap[s] > 0 /\ last_entry_by_ssu[s] > 0 =>
           at >= last_entry_by_ssu[s] + TradeGap[s]
    /\ MaxOverlap[s] > 0 => Cardinality(open_by_ssu[s]) < MaxOverlap[s]
    /\ MaxPerDay[s] > 0 => entries_by_ssu_day[s][Day(at)] < MaxPerDay[s]

Bug_IndexOpen(p, side) ==   \* the day's count is set, not raised
    /\ open_by_ssu' = [open_by_ssu EXCEPT ![p.ssu] = @ \cup {p}]
    /\ open_by_key' = [open_by_key EXCEPT ![p.ssu][p.instrument][side] = @ \cup {p}]
    /\ last_entry_by_ssu' = [last_entry_by_ssu EXCEPT ![p.ssu] = p.at]
    /\ entries_by_ssu_day' = [entries_by_ssu_day EXCEPT ![p.ssu][Day(p.at)] = 1]
IndexOpen(p, side) ==
    /\ open_by_ssu' = [open_by_ssu EXCEPT ![p.ssu] = @ \cup {p}]
    /\ open_by_key' = [open_by_key EXCEPT ![p.ssu][p.instrument][side] = @ \cup {p}]
    /\ last_entry_by_ssu' = [last_entry_by_ssu EXCEPT ![p.ssu] = MaxOf({@, p.at})]
    /\ entries_by_ssu_day' = [entries_by_ssu_day EXCEPT ![p.ssu][Day(p.at)] = @ + 1]

Bug_RemoveOpen(p) ==       \* the key keeps it
    /\ open_by_ssu' = [open_by_ssu EXCEPT ![p.ssu] = @ \ {p}]
    /\ UNCHANGED <<open_by_key, last_entry_by_ssu, entries_by_ssu_day>>
RemoveOpen(p) ==
    /\ open_by_ssu' = [open_by_ssu EXCEPT ![p.ssu] = @ \ {p}]
    /\ open_by_key' = [open_by_key EXCEPT
            ![p.ssu][p.instrument][positions[p].side] = @ \ {p}]
    /\ UNCHANGED <<last_entry_by_ssu, entries_by_ssu_day>>

(* The position an exit means: the open one its leg names, or else the     *)
(* last one entered of its SSU, instrument and side.                       *)
Target(s, i, side, leg) ==
    LET key == open_by_key[s][i][side]
    IN  IF /\ positions[leg].status = "OPEN" /\ positions[leg].side = side
           /\ leg.ssu = s /\ leg.instrument = i
          THEN {leg}
          ELSE {p \in key : \A q \in key : q.at <= p.at}

(* The handler at the head of the queue.                                   *)
Runs(s, i) == queue # <<>> /\ Head(queue) = <<s, i>>

(* The positions it manages: those list_open_by_ssu returns, of its        *)
(* instrument and entered before this bar.                                 *)
Managed(s, i) == {p \in open_by_ssu[s] : p.instrument = i /\ p.at < now}

(* partial_close_position: a part is sold, and its share of the money      *)
(* booked.                                                                 *)
Parted(t, q, level, raw) ==
    LET price == FillPrice(Leaving(t.side), raw)
        fee   == TradingFee(price, PartialUnits, ExitFee)
        cost  == Funding(t.side, t.entry_price, PartialUnits, q.at, now)
    IN  [t EXCEPT !.remaining_qty = @ - PartialUnits, !.funding_charges = @ + cost,
                  !.charges = @ + fee + cost,
                  !.partial_exits = Append(@,
                    [level |-> level, raw |-> raw, exit_at |-> now,
                     gross_pnl |-> Gross(t.side, t.entry_price, price, PartialUnits)])]

Partial(s, i) ==
    /\ Runs(s, i)
    /\ \E p \in Managed(s, i), level \in Levels, raw \in ExitPrices :
       \E q \in Target(s, i, positions[p].side, p) :
         /\ \A k \in DOMAIN trades[q].partial_exits : trades[q].partial_exits[k].level # level
         /\ PartialUnits < trades[q].remaining_qty
         /\ trades' = [trades EXCEPT ![q] = Parted(@, q, level, raw)]
    /\ UNCHANGED <<feed, queue, positions, indexes>>

PartialGross(t) ==
    SumFunction([k \in DOMAIN t.partial_exits |-> t.partial_exits[k].gross_pnl])

(* close_position: what remains is sold, and the trade's money summed up.  *)
Bug_Settled(t, q, raw) ==   \* the parts sold before are forgotten
    LET price == FillPrice(Leaving(t.side), raw)
        cost  == Funding(t.side, t.entry_price, t.remaining_qty, q.at, now)
        all   == t.charges + TradingFee(price, t.remaining_qty, ExitFee) + cost
        gross == Gross(t.side, t.entry_price, price, t.remaining_qty)
    IN  [t EXCEPT !.status = "CLOSED", !.raw_exit = raw, !.exit_at = now,
                  !.funding_charges = @ + cost, !.charges = all,
                  !.gross_pnl = gross, !.net_pnl = gross - all, !.remaining_qty = 0]
Settled(t, q, raw) ==
    LET price == FillPrice(Leaving(t.side), raw)
        cost  == Funding(t.side, t.entry_price, t.remaining_qty, q.at, now)
        all   == t.charges + TradingFee(price, t.remaining_qty, ExitFee) + cost
        gross == PartialGross(t)
                   + Gross(t.side, t.entry_price, price, t.remaining_qty)
    IN  [t EXCEPT !.status = "CLOSED", !.raw_exit = raw, !.exit_at = now,
                  !.funding_charges = @ + cost, !.charges = all,
                  !.gross_pnl = gross, !.net_pnl = gross - all, !.remaining_qty = 0]

Close(s, i) ==
    /\ Runs(s, i)
    /\ \E p \in Managed(s, i), raw \in ExitPrices :
       \E q \in Target(s, i, positions[p].side, p) :
         /\ trades[q].remaining_qty > 0
         /\ trades' = [trades EXCEPT ![q] = Settled(@, q, raw)]
         /\ RemoveOpen(q)
         /\ positions' = [positions EXCEPT ![q] =
                [@ EXCEPT !.status = "CLOSED", !.exit_at = now]]
    /\ UNCHANGED <<feed, queue>>

(* The close of the bar that ends now.                                     *)
CloseOf(i) == history[i][MaxOf({m \in DOMAIN history[i] : m < now})]

(* open_position, the last thing a handler does.                           *)
Enter(s, i) ==
    /\ Runs(s, i)
    /\ Admitted(s, now)
    /\ \E side \in Sides :
         LET p     == [ssu |-> s, instrument |-> i, at |-> now]
             raw   == CloseOf(i)
             price == FillPrice(Entering(side), raw)
         IN  /\ positions' = [positions EXCEPT ![p] =
                    [side |-> side, status |-> "OPEN", exit_at |-> 0]]
             /\ trades' = [trades EXCEPT ![p] =
                    [side |-> side, status |-> "OPEN", remaining_qty |-> Units,
                     raw_entry |-> raw, entry_price |-> price,
                     raw_exit |-> 0, exit_at |-> 0,
                     charges |-> TradingFee(price, Units, EntryFee),
                     funding_charges |-> 0, gross_pnl |-> 0, net_pnl |-> 0,
                     partial_exits |-> <<>>]]
             /\ IndexOpen(p, side)
    /\ queue' = Tail(queue)
    /\ UNCHANGED feed

(* The strategy does not enter, or open_position refuses it.               *)
Pass ==
    /\ queue # <<>>
    /\ queue' = Tail(queue)
    /\ UNCHANGED <<feed, positions, trades, indexes>>

(* The report is written.                                                  *)
Finished == queue = <<>> /\ replay = <<>>
Done == Finished /\ UNCHANGED vars

Next ==
    \/ NextGroup \/ Pass \/ Done
    \/ \E s \in Ssus, i \in Instruments : Partial(s, i) \/ Close(s, i) \/ Enter(s, i)

Spec == Init /\ [][Next]_vars

----------------------------------------------------------------------------
(* The summary of an SSU: its closed trades in the order of their exits.   *)

ClosedOf(s) == {p \in PosIds : p.ssu = s /\ trades[p] # NoTrade /\ trades[p].status = "CLOSED"}

ExitOrder(p, q) ==
    LET at == [r \in {p, q} |-> trades[r].exit_at]
    IN  \/ at[p] < at[q]
        \/ at[p] = at[q] /\ p.instrument < q.instrument
        \/ at[p] = at[q] /\ p.instrument = q.instrument /\ p.at < q.at

NetValues(s) ==
    LET order == Sorted(ClosedOf(s), ExitOrder)
    IN  [k \in DOMAIN order |-> trades[order[k]].net_pnl]

MaxDrawdown(values) ==
    LET step(d, v) ==
            LET equity == d.equity + v
                peak   == MaxOf({d.peak, equity})
            IN  [equity |-> equity, peak |-> peak, fall |-> MaxOf({d.fall, peak - equity})]
    IN  FoldLeft(step, [equity |-> 0, peak |-> 0, fall |-> 0], values).fall

SummaryOf(s) ==
    [net_pnl |-> SumFunction(NetValues(s)), max_drawdown |-> MaxDrawdown(NetValues(s))]

----------------------------------------------------------------------------
(* What the limits and the targets are read from is what the positions     *)
(* say, and the money record of a position tells the same story: after any *)
(* number of entries, parts and exits (index_open_position and             *)
(* remove_open_position against the maps they index).                      *)
IndexesAgree ==
    /\ \A s \in Ssus :
        LET entered == {p \in PosIds : p.ssu = s /\ positions[p] # NoRow}
            open    == {p \in entered : positions[p].status = "OPEN"}
        IN  /\ open_by_ssu[s] = open
            /\ \A i \in Instruments, d \in Sides :
                  open_by_key[s][i][d] =
                    {p \in open : p.instrument = i /\ positions[p].side = d}
            /\ last_entry_by_ssu[s] = MaxOf({p.at : p \in entered} \cup {0})
            /\ \A d \in DOMAIN entries_by_ssu_day[s] :
                  entries_by_ssu_day[s][d] = Cardinality({p \in entered : Day(p.at) = d})
    /\ \A p \in PosIds :
        LET row == positions[p]
            t   == trades[p]
        IN  /\ t = NoTrade <=> row = NoRow
            /\ t # NoTrade =>
                 /\ t.side = row.side /\ t.status = row.status /\ t.exit_at = row.exit_at
                 /\ t.remaining_qty = IF t.status = "CLOSED" THEN 0
                                      ELSE Units - Len(t.partial_exits) * PartialUnits

(* The strategies of a backtest see the same abstract book as those of the *)
(* live program, limits over all trades included, although this one reads  *)
(* them from indexes; and nothing here ever undoes an exit.                *)
Book == INSTANCE VirtualBook WITH trades <- positions, Durable <- TRUE

ImplementsBook == Book!Spec

(* What a position cost and brought, told fill by fill: the quantity still *)
(* held after the parts sold before a minute pays that minute's funding.   *)
Held(t, minute) ==
    Units - PartialUnits *
              Cardinality({k \in DOMAIN t.partial_exits : t.partial_exits[k].exit_at < minute})

Rate(side) ==
    CASE mode = "disabled" -> 0
      [] mode = "absolute" -> Abs(FundingRate)
      [] mode = "signed"   -> FundingRate * Sign(side)

FundingPaid(p, t) ==
    SumFunction([m \in {n \in p.at..t.exit_at : n % Interval = 0} |->
                    Rate(t.side) * t.entry_price * Held(t, m)])

Cash(side, action, raw, qty, fee) ==
    LET price == FillPrice(action, raw)
    IN  (IF action = "Buy" THEN -1 ELSE 1) * price * qty * 100
          - price * qty * fee - FixedFee

CashOf(p, t) ==
    Cash(t.side, Entering(t.side), t.raw_entry, Units, EntryFee)
      + SumFunction([k \in DOMAIN t.partial_exits |->
            Cash(t.side, Leaving(t.side), t.partial_exits[k].raw, PartialUnits, ExitFee)])
      + Cash(t.side, Leaving(t.side), t.raw_exit,
             Units - Len(t.partial_exits) * PartialUnits, ExitFee)
      - FundingPaid(p, t)

(* In the report the net P&L of a closed trade is the cash its fills moved *)
(* less the funding of what was held, and the summary of an SSU adds those *)
(* up: its drawdown is no less than the worst fall of the realised P&L     *)
(* between two moments, and exactly that when no two trades end together   *)
(* (close_position, SummaryMetrics::from_trades).                          *)
RealisedBy(s, at) ==
    SumFunction([p \in {q \in ClosedOf(s) : trades[q].exit_at <= at} |-> trades[p].net_pnl])

NetIsCash ==
    Finished => \A s \in Ssus :
        LET exits == {trades[p].exit_at : p \in ClosedOf(s)} \cup {0}
            worst == MaxOf({RealisedBy(s, x[1]) - RealisedBy(s, x[2]) :
                              x \in {y \in exits \X exits : y[1] <= y[2]}})
        IN  /\ \A p \in ClosedOf(s) : trades[p].net_pnl = CashOf(p, trades[p])
            /\ SummaryOf(s).net_pnl = RealisedBy(s, MaxTime)
            /\ SummaryOf(s).max_drawdown >= worst
            /\ Cardinality(exits) = Cardinality(ClosedOf(s)) + 1 =>
                  SummaryOf(s).max_drawdown = worst

(* A strategy never sees a bar before its time or twice: the bars of an    *)
(* instrument and timeframe come in order, the warmup's end by --from, no  *)
(* bar ends after the event it is seen in.  And it misses none: at the end *)
(* of the replay it has seen every bucket that begins at --from or later   *)
(* and ends by --to, all of whose minutes are stored.                      *)
BarsInOrder ==
    \A i \in Instruments, s \in Ssus :
        LET f    == FactorOf[s]
            seen == series[i][f]
            whole == {e \in Times : /\ e % f = 0 /\ From <= e - f /\ e <= To
                                    /\ (e - f)..(e - 1) \subseteq DOMAIN history[i]}
        IN  /\ \A j, k \in DOMAIN seen : j < k => seen[j] < seen[k]
            /\ \A k \in DOMAIN seen : seen[k] <= MaxOf({now, From})
            /\ Finished => whole \subseteq Range(seen)
=============================================================================
