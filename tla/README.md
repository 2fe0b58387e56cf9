# Verification of the dhancred trading app

TLA+ specifications of the trading core of this repository, the TLC runs that
check them on small instances, and TLAPS proofs of what holds for every
instance. Source paths are relative to the repository (`src/strategy/runtime.rs`
is `src/src/strategy/runtime.rs` in `PROJECT.json`).

## 1. The system

One process. Per broker (DB International, FYERS, Delta, Angel One) a supervised
thread owns a websocket and calls `StrategyRuntime::on_tick` for every tick. The
runtime forms bars, dispatches `Tick` and `Candles` events to the strategies of
the enabled SSUs (strategy units, rows of `strategy_ssu`), and the strategies
open and close *virtual* positions in a book that is kept in memory and in
SQLite. An admin HTTP server can reload the SSUs while ticks keep coming. A
second binary replays historical candles through the same runtime.

| component | state | operations | interacts with | what makes it correct |
|---|---|---|---|---|
| Position book, `strategy/runtime.rs:275-627` | map of positions behind one mutex; tables `virtual_position`, `strategy_signal` | open, partial close, close, list | called by every strategy thread; each SQL statement commits alone | limits of an SSU hold under races; memory, table and journal agree; closed is final |
| Trade manager, `strategies/adaptive_supertrend.rs:198-1012` | `strategy_trade_context` per position, indicator state per instrument | tick handler, bar handler, entry | reads and writes the book and the context store in separate statements | a target is booked once, a stop never loosens, an open trade is managed and closed at its stop |
| Strategy runtime, `strategy/runtime.rs:780-1108` | `active_ssus`, lifecycle gate, instrument locks | `on_tick`, `reload_ssus` | broker threads and admin thread | no event to a replaced instance, no hole in the bars it sees, reload ends |
| Timeframe engine, `strategy/timeframes.rs` | registrations, series of bars and EMAs | `on_tick`, `register_ssu`, `warmup`, `reset_ssus` | under the runtime's locks, has one of its own | bars are the ticks of their bucket, announced once, in order; a warmup reaches the newest bar |
| Indicators, `strategies/adaptive_supertrend.rs:1327-2126` | rolling windows, pivots, bands and trend per SSU, instrument and timeframe | `on_closed_bar`, replay | fed by the bar handler, read by the trade manager | windows are the last bars exactly; entries come of full windows and alternate |
| Candle service, `feeder/historical_candles.rs` | minutes being formed, map behind a mutex | tick, flusher thread | broker threads, SQLite | every tick is in exactly one stored minute |
| History recovery and replay, `adapters/historical.rs`, `strategy/history.rs` | stored minutes | recover, prune, aggregate | broker HTTP, warmup | no gap, no incomplete bar that counts as complete |
| Universe tracking, `feeder/universe.rs`, broker runtimes | anchor, subscribed symbols | refresh | broker subscriptions | tracker and broker agree |
| Broker supervision, `adapters/mod.rs`, `main.rs` | threads | restart with delay | everything | a feed that fails comes back |
| Market sessions, `feeder/market_session.rs` | the schedule of each exchange | active?, next open | supervisors | the two readings of one schedule agree |
| Schedulers, `login_scheduler.rs`, `master_scheduler.rs` | session and master files of each broker | catch-up at the start, daily run | feeds check and write the same files | every file is of the day, whole |
| Notifications, `notification.rs` | last alert of each broker | failed, recovered | supervisors, Telegram | each outage and each recovery is announced, repetitions are not |
| Backtest, `backtest/` | position book with derived indexes, money of every trade | load, replay, report | runtime, single thread | the same rules as the live book; the P&L is the cash moved |
| Protocol clients, configuration, catalog | sockets, files | parse, fetch | brokers | I/O and parsing |

Hard behaviour: entries of one SSU come from threads of different instruments
and race for its limits; a handler is a sequence of SQL statements any of which
can fail or be the last before a kill; a tick is judged before the older bar it
closes; an error anywhere ends the whole tick; a reload replaces everything the
handlers work with, and can fail half-way. The table of minute candles has four
writers and no lock around it; a feed that fails at any step of a resubscription
starts again with files, and at one broker subscriptions, of the run before; and
schedulers, feeds and kills share the files on disk. `PROJECT.json` lists each of these
at its line under "hazards", with the properties that are about it.

## 2. What is modelled, and how it corresponds to the code

### PositionBook
`SqliteStrategyPositionBook`. `positions` is the map behind the mutex,
`virtual_position` and `strategy_signal` the tables (of the journal only the
ids). A thread is named by the instrument it handles, because an instrument lock
admits one at a time (see StrategyRuntime). An operation is a sequence of steps:
the call, the decision under the mutex (`OpenAccepted`, `Refused`, `CloseMarked`,
`PartialTargeted`), `PersistSignal`, then `InsertRow` or `UpdateRow`. `mutex`
tells who is inside: an entry holds it from the checks to the insert, an exit
from the lookup to the end, a partial exit only for the lookup. `PersistFails`
is `?` at any statement, a taken primary key included. `Restart` kills the
process between any two steps and loads the table.

The strategies' side is `CallEntry` (a bar that the indicator state has not
processed before, which a restart may set back) and `CallExit` (a position of
the thread's own instrument that was open when it was listed).

### TradeManager
One trade of `AdaptiveSupertrendStrategy`. A tick (`Tick`) is dispatched as
`Tick` event first (`ManageTick`) and, if it closed a bar, as `Candles` after it
(`ManageBar`). Both decide a plan, the set `run.todo` of statements to write,
which the actions `PersistSignal`, `WriteContext`, `MarkClosed`, `WriteClosed`,
`DeleteContext` execute in the order `Before` gives. `SqlFails` ends the tick at
any of them, `Restart` kills the process. Prices are distances from the entry
price, mirrored for a short; what the indicators say of a bar (opposite flip,
supertrend line, ATR present or not) is any value. The entry itself is the
initial state: the entry accepted, its three statements still to be written.
Ticks come in order of time here; an old tick is a matter of the timeframe
engine.

### StrategyRuntime
`on_tick` by broker threads against `reload_ssus` by the admin thread. `call[b]`
is where thread b is: waiting for the instrument lock (`lock`), for the gate
(`gate`), in the engine (`engine`), cloning `active_ssus` (`dispatch`), calling
the strategies (`deliver`, one `Deliver` per SSU). `Fail` is `?` out of a
strategy. A reload waits for the gate, loads the rows, clears the registrations,
registers and warms up SSU by SSU, and installs; `AbortReload` leaves it where
`?` does. The process begins inside its first reload, before any feed runs. Bars
are numbers; `series` is what `recent_bars` reads, in the order and with the
copies that reloads leave there: `Rewarmed` merges the last `WarmupBars` of a
series into the series itself, and `Merged` compares with its last bar only and
keeps `MaxRecent`. `seen` is which bars an indicator state was computed from:
`Replayed` reads the last `StateCapacity` of the series and skips what is not
newer than the bar before. Where its reading begins, in the middle of a copy
perhaps, decides which bar is the first an SSU sees. A bar that no registered
SSU required is never formed and has no number; how many of the older bars
SQLite has is any number at each warmup. `generation` tells Strategy instances of
different reloads apart.
`RwLock` is modelled as std implements it on Linux: a waiting writer keeps new
readers out.

### TimeframeEngine
`SharedTimeframeEngine` for one instrument, seen from inside the locks that
StrategyRuntime is about: each method is one action. Time is counted from the
anchor of the instrument's alignment, so that a bucket is a division; a bucket
in which the session closes ends there (`EndOf`). `Tick` is `on_tick` with
everything under it: the current bar of every required timeframe is opened,
extended or closed and merged into the recent ones, the EMA of every registered
SSU gets the closed bar, and the strategies of the active SSUs are handed it.
A tick that is older than the current bar changes no bar. A reload goes SSU by
SSU (`BeginReload`, `LoadSsu`, `Install`, and `AbortReload` wherever `?` may leave
it), with recoveries storing minutes in between (`StoreHistory`). A closed bar
is kept as its end, an EMA as the list of bars it was computed from, and a
strategy's state as the list of bars it has processed. Timeframes of one
instrument never read each other, so the instances have one. Volumes, the
preview of an EMA on the bar that is forming, and failing handlers are left out.
What the engine promises of the bars it forms, `AnnouncedInOrder`,
`BarsAreTheirTicks` and `NewestIsApplied`, is in FormedBars, which it extends: that
module knows the ticks heard, the bars announced, the series and what EMA and
state have of it, and nothing of how the engine goes about it.

### IndicatorState
`AdaptiveSupertrendState` for one SSU, instrument and timeframe. A step is one
bar: `Replay` and `Advance` process it (`ProcessBar`, the whole of
`on_closed_bar` in its order: windows, pivots the bar before had confirmed, bands,
trend, point), `Ignore` is the bar that is not newer than the last. Of the
formulas the model keeps what they are computed from: `RollingExtrema` with its
two monotonic queues, `RollingEfficiency` with its running sum, `RollingMomentum`
with its counters, `PivotTracker` with its window and its two pairs of queues, over
integers instead of floats. What the formulas make of them is any value: the
distance of a band from the source is in `Widths` (0 until the ATR is seeded), and
a character flip, where the settings and the age of the trend allow it, happens
or not. `bars`, `walked` and `entered` are observers, kept to say what the windows
should hold. `RollingMean` and `RollingStats`, volumes, the filters of an entry and
dynamic targets are left out. What a trade does with a point is TradeManager.

### VirtualBook, and what implements it
What the trait `StrategyPositionBook` promises a strategy: an entry is one step,
admitted by the three limits of its SSU over all trades there have been, and an
open trade is closed once, later than it was entered. `PositionBook` and
`BacktestBook` instantiate it with their `positions` (`ImplementsBook`). The
live book is not `Durable`: a restart may undo exits, and nothing else (this is
finding 1, seen from the strategies). The backtest's is. The abstract limits are
not the concrete ones renamed: the live book decides several statements before
its insert, and the backtest decides by `last_entry_by_ssu`, `open_by_ssu` and
`entries_by_ssu_day`, not by the positions.

### CandleHistory
The minute candles of one instrument, of a broker whose history is recovered
(Delta or FYERS). The broker thread takes ticks into `active`
(`HistoricalCandleService::on_tick`, `AggregateTick`), takes a minute out of
memory when a later one begins, and stores it in a step of its own
(`StoreTicked`); the flusher does the same by the clock (`Flush`,
`StoreFlushed`). `flusher` is the thread itself: it opens a store of its own when
the run goes live (`OpenFlusher`), and if that fails (`OpenFlusherFails`) it is gone
while the run goes on. A run begins with recovery, which goes on chunk by chunk
(`BeginRecovery`, `SyncChunk`, `EndSync`); the daily maintenance uses the same
`sync` while the feed is live. `FetchCandles` has the two request windows, whose
ends are included: Delta's is the range asked for; so is FYERS's, unless the range
lies within the Indian day of the clock, for which it is the whole session up to
the last finished minute (`RequestWindow`; what is no NSE or BSE equity FYERS asks
for as Delta does). `Pruned` compares with the minute of the cutoff, since the
code writes it as `HH:MM`. Failed upserts, failed requests, a store that cannot be
opened, disconnects and kills count against `MaxFaults`. `market` is what the
exchange traded; ticks in `net` arrive in any order, or again as a snapshot. The
operators after `Spec` are `load_bars` of `strategy/history.rs`: newest minutes,
buckets, and the dropping of an incomplete first and last bucket.

### BrokerFeed
The supervised `run_live` of each of the four brokers in one module, because
they are one loop written four times: `todo` holds what is left of the call in
progress, with the order of steps of that broker (`FyersStart`, `SlottedTick`,
`ListedRefresh`, ...), and each step is an action. A start connects, writes the
latest-price file, subscribes the spots and announces a recovery. A tick runs
the strategies, updates the file, and, if it is of a spot, asks the universe
tracker; if the price is `Trigger` percent from the anchor the derivatives are
subscribed and unsubscribed, the targets of the file replaced, the CSV written.
`Fails` ends any step with an error: everything of the run is gone but the
files, and at DB International what the server sends, which belongs to the
login. The server has a queue of its own for requests; ticks sent before an
unsubscription arrive after it. FYERS names a symbol only in its first message
(`Topic`), and a frame may hold several messages, which `Receive` takes one by
one (`InFrame`: while a frame lasts nothing else is looked at). ANGEL subscribes
only underlyings whose exchange is in session (`ApplySessionState`). The file of
DB International lists every spot beside what is selected, that of ANGEL the spots in
session (`Tracked`). A notification changes the state of the alert before it is
sent; `Notifier` says whether the severity of a broker's alerts is below the
configured minimum, whether there is a Telegram sink, and with a sink Telegram may
take a message or not (`Sent`), which the code only logs. `told` and `lost` are
observers: the last notification that arrived, and whether the last one did not.

### BacktestBook
The whole of a backtest, one thread. `Init` loads and aggregates the bars,
`NextGroup` takes the bars that end together (`on_closed_bars`) and queues the
handlers of the SSUs, which may sell a part (`Partial`), close (`Close`) and
enter (`Enter`) as their limits let them. What they decide is any choice.
`trades` is the money of each position (fills with slippage, fees, funding at
its snapshots), in integers that keep every percentage exact. The live journal
refuses the second of two instruments of an SSU that enter on one bar, since
their signal ids are equal; the backtest has no journal and admits it. Open
trades are in the book at the end, and not in the P&L of the report.

### BrokerDay
What happens by the clock. Time is in slots, six a day, with local time one slot
ahead of UTC. The main thread runs each scheduler's catch-up, starts its thread,
and then the feeds (`CatchUp`, `Spawn`, `StartFeed`, in that order, as in
`main.rs`). A job takes the brokers one by one (`TakeBroker`); for each, and at
the start of a feed, it goes through a list of files:
`Check` decides by the file's day whether it is current, `Fetched` renames a
finished download into place, `Fails` goes on with the next broker (a job) or
ends the run (a feed). `File::create` of the `.tmp` file is what two threads
collide in. `NextOpen`, `IsActive` and `NextRun` are translated from
`market_session.rs` and the schedulers. `Build` is the choice of expiries when a
universe is built: from the master as it was loaded when the feed started (DB
International, ANGEL) or as it is on disk (FYERS, Delta). Logins by hand over the
admin server, alerts and what a live feed does with ticks are left out; FYERS
reads the clock once for its two masters, the model at each.

`MC*.tla` give the constants of the small instances, `*.cfg` the instances.
`Bug_*` operators are variants of a definition with a mistake a change of the
code could make; the mutants in `PROJECT.json` say which property catches it.

## 3. What is checked

| run | instance | question |
|---|---|---|
| `PositionBook_limits` | 1 SSU, 2 instruments, 1 side, bars 1..3, overlap 1, 2 entries a day | memory implements `VirtualBook`, limits included; agreement of memory, table and journal; two instruments with the same entry id; under races, failed statements, kills |
| `PositionBook_persisted` | 1 SSU, 2 instruments, bars 1..2 | finding 1 |
| `TradeManager_runs` | long and short, all four exit modes, ticks at 0..2, bars of 1, 2 faults | booking, stops, contexts; a stopped trade is closed in the end |
| `StrategyRuntime_reload` | 2 brokers, 2 instruments, 2 SSUs of one timeframe, bars 1..3 of which 1 stored, series of 5, warmups of 3, replays of 5, 2 reloads, 1 fault | instances, holes in the bars seen, registrations, liveness of the reload |
| `StrategyRuntime_failed` | 1 broker, 2 timeframes, 2 reloads | finding 2 |
| `CandleHistory_runs` | 3 trades at 2 prices in 3 minutes of 2 units, 2 faults, chunks of 2 minutes | what is stored is the exchange's candle; recovery fills gaps; warmup bars; minutes leave memory while there is a flusher |
| `BrokerFeed_runs` | each of 4 brokers, 2 underlyings, 2 strikes, 1 or 2 moves, 1 or 2 faults; a sink that may lose messages, no sink, muted alerts | universe, server and files agree; notifications do unless one was lost; a failed run resumes |
| `BacktestBook_runs` | 2 SSUs on 1 and 2 minutes, 2 instruments, 5 minutes, histories with and without a hole | indexes, refinement of `VirtualBook`, P&L, order of bars |
| `BrokerDay_runs` | 4 configurations: DB; Delta and ANGEL; FYERS with NSE and MCX, and with an exchange that is always open, over a weekend; 1 fault | files of the day, whole masters, expiries, sleep of a feed |
| `IndicatorState_runs` | 6 bars of 2 prices, windows of 2 and 3, pivots of 1 on each side, bands at 2 distances, close as source | windows, queues, counters and pivots are what the bars say; the line and its trend; which entries come of it |
| `TimeframeEngine_runs` | bars of 2 minutes, session that closes in the second, 4 ticks up to a minute late, 2 reloads | bars and their order; EMA and replayed state reach the newest bar |
| `TimeframeEngine_recent` | 2 SSUs, 1 reload, no ticks | finding 3 |

Each module has one run for what holds, and a run for each finding. What a
proof covers for every instance needs no instance of its own: the type
invariants, the trade gap with a day boundary inside, and single limits are
stated by theorems (section 4) and by no run.

Bounds. In the book the three bars are one day, so that the overlap limit and the
daily cap each refuse an entry that the other would admit, and without a gap two
instruments that enter on one bar share a signal id.
Every rule reads one SSU only, so a second SSU adds nothing but size. In the
trade manager the stop, the entry price and the three targets are one step
apart, so that a tick can jump over any number of them; two bars and the first
tick of a third are two judgements, the second at the timeout; and of two faults
the second can hit the retry of the first. Bars of more than one tick, whose
prices a stop has met only in part, are in the proofs. In the
runtime two threads and two instruments give both kinds of rivalry (same and
different instrument); two live bars per series let a bar close before, during and
after a reload. A series of five holds two copies of two bars, so that the second
copy, which the reload appends for the second SSU, pushes out the oldest one: that
SSU begins with bar 2 where the first begins with bar 1, and bar 3 comes live to
both. (`BarsAreSeen` was also checked on one instrument with six bars, three
reloads, replays of four and two faults before it was proved.)

In the candle history three trades make a minute's open, high and close three
different ticks, or leave a gap, or put one trade into each minute. The session
of FYERS is the first two of them and the Indian day ends with the third, so that
requests are for a session that is still open, for one that has closed, for a
range within the day and for one that ends in the next; a chunk of two minutes
makes a recovery of three take two. Maintenance is due in the middle of a minute,
so that its range begins and ends inside one. In the feed two
strikes with one rise that is a refresh away (and the fall back, in percent of a
larger price, that is not) give anchors that lag behind; the second underlying is
there so that subscriptions and files are shared. Each broker has the bounds
that its peculiarities need: ANGEL two moves, so that an exchange closes and opens
again, FYERS two ticks on their way, so that a frame can hold both, Delta two
faults of two kinds, which is what the deduplication of alerts is about. Delta and
ANGEL have a Telegram sink, FYERS has none, and DB International's alerts are muted:
the notifications of a broker depend on nothing that differs between brokers. In the
backtest one SSU has an overlap limit of two and a daily cap of two on single
minutes, the other a gap of three on pairs of them, and the day is four minutes
long, so that each limit refuses something and a day ends inside. A day of six
slots is the least in which the two jobs, an opening, a closing and Delta's settlement are
at different times on both sides of midnight UTC; the expiries fall on the
first, the second and the last day that is looked at. The Friday to Monday is
there for the two configurations in which weekends matter.

Six bars fill each window of the indicators and evict from it at least three
times, give four pivots, and let the trend flip twice after the warmup. The
lengths are below the clamps of the code, which the formulas of the windows do
not depend on. Two prices give ties, which are what a monotonic queue and a
strict pivot can get wrong, and `MinWarmup` is one more than the longest window
instead of ten. With the close as source the character flip never finds its
conditions: other sources, and longer pivots, are in the proofs. In the engine a
series of two bars is full after as many closed ones, so that a merge also drops
one; two reloads are one that loads the history and one that finds the series,
and either may fail.

Deadlock is checked in all runs but those of CandleHistory, BrokerFeed and
TimeframeEngine: nothing in this system is meant to
stop. The end of the modelled time is a stuttering step of its own, `Quiet` in
PositionBook, which only threads outside the book may take, `Done` in
BacktestBook and BrokerDay, so that a thread that is stuck before is still
reported. In CandleHistory and BrokerFeed a bounded exchange runs out of trades
a feed without ticks waits for ever, and the engine's clock, ticks and reloads are
counted, so that it may run out of all three: these runs say
`CHECK_DEADLOCK FALSE`, and the liveness properties of the first two say what must
not get stuck.

Fairness. TradeManager: `WF(Tick)`, the feed goes on, and `WF(Handle)`, a handler
runs on; nothing is assumed of failures. StrategyRuntime: `WF` of what a broker
thread does *after* it got the instrument lock, and of a reload; a thread that
runs is scheduled, but no tick need come, and no lock is granted fairly. That
`ReloadEnds` holds rests on the waiting writer keeping readers out.
CandleHistory: `WF` of the flusher's turn while it polls (it sleeps and looks again,
for ever), of its opening its store and of its storing what it has taken, well or badly.
BrokerFeed: `WF` of
the steps of a call that is running and of the supervisor's retry, which has no
limit. None is assumed of ticks, trades, faults, the server or Telegram. BacktestBook, BrokerDay,
TimeframeEngine and IndicatorState are checked for safety only.

Properties worth a comment:

* Six properties put two or three facts together that a reader would look for
  together: `JournalAgrees` (every row has its signals, and every signal its
  effect), `TargetsAreBooked` (no flag without its booking, no tp3 without tp1 and
  tp2), `FilesAgree` (`RowsAreCurrent`, `SpotsAreListed`, `CsvIsSubscribed`), `WindowsAreExact`
  (extrema, efficiency, momentum), `LineFollowsTrend` and `EntriesAreSound`. Their
  parts are proved one by one.
* `BookedOncePerFault` is the strongest form that holds: the partial exit and
  the flag that remembers it are two statements, so each failure between them
  books the target again.
* `StopExitIsTouched` has an exemption because the code has it: the stop that a
  tick raises is applied to the whole bar when it closes, the prices before the
  raise included, so a trade can be stopped by a price older than its stop.
* `OpenIsManaged` holds only without a fault. With one between `open_position`
  and `save_context` the position has no context and no handler manages it.
* `StopIsTaken` concludes closed *in memory*: after a failure the table may
  still say OPEN (finding 1).
* `ImplementsBook` is how TLC sees the limits of the live book. `OverlapKept`,
  which is proved, is stated until the first failed statement, for the reason
  finding 1 gives: a failed exit followed by a restart reopens a position whose
  place was given away. The gap and the daily cap hold unconditionally.
* `BarsAreSeen` counts one bar per failed handler: the failure of a `Tick`
  skips the `Candles` of the bar it closed, and no indicator state that has
  begun ever catches up with a bar. It speaks of holes, from the first bar that
  an SSU has seen on (of a warmed instrument, from the first live bar if it has
  seen none). It does not say which bar is the first: the second SSU of a
  timeframe replays the same number of bars of a series that the first one has
  appended to itself, and so begins with a later bar (finding 3), with no failure
  at all.
* `StoredIsExact` exempts a minute some trade of which this run did not take in,
  in order (`missed`): lost with a connection, with the memory of a killed
  process, late for the flusher, or repeated by a snapshot. Nothing in the code
  marks such a candle as partial, so the exemption is the code's, until the next
  recovery or maintenance, which `SyncFills` is about. `SyncFills` in turn
  exempts the minutes the live service stored while the sync ran (`touched`).
* `WarmupBarsExact` has the condition that the history has no hole: a bucket
  with a missing minute in its middle counts as complete.
* `CandleLeavesMemory` exempts a run whose flusher could not open its store: the
  thread returns and nothing replaces it (`feeder/historical_candles.rs:247-253`),
  so that a minute waits for the next tick, and the last one is lost with the run.
* `OperatorKnows` exempts the time after a notification that was lost, to Telegram
  or for want of a sink, and for outages a severity that is muted: the code
  remembers the failure as announced before it sends, swallows the error of
  sending (`notification.rs:249-257`) and does not send again, and the repetition of
  the failure is left out because of it. What is checked is that deduplication alone
  never hides an outage or its end from an operator whom messages reach.
* `SpotsAreListed` is about DB International only, whose file keeps its spots and
  their prices through every refresh.
* `ServerAgrees` lets the server of DB International send more than is
  subscribed: the login of the run before keeps its subscriptions.
* `CsvIsSubscribed` begins when every spot has had its first universe in this
  run: until then a row of the run before may still be in the file.
* `NetIsCash` compares the P&L, which the code adds up from gross, charges and
  funding of parts and rest, with a sum over fills that does not know of parts.
* `BarsInOrder` says also what is *not* lost: a bucket that lies between `--from`
  and `--to` with all its minutes is seen.
* `FeedKeepsSession` exempts an exchange that is `always_open` on weekdays only:
  `next_open_utc` answers "now" for it on a Saturday too, and the feed looks again
  every second until Monday (`Spinning`). The shipped configuration has none.
* `DayIsPrepared` exempts what the code cannot know: a file whose last download
  failed, and the day of a job that was still at work when its next run was due
  (`raced`), since the next run is computed when the job ends.
* BrokerDay assumes that no job runs before 05:30 local time, when it is not yet
  the same day in UTC: the freshness of the streamed masters goes by the UTC day,
  and such a run would keep yesterday's. The shipped times are 07:55 and 08:00.
* `MasterIsWhole` exempts a master two threads downloaded at once (`crowded`: a
  feed that starts while the scheduler is at it truncates the other's `.tmp`
  file), and ANGEL's session, which is written in place. ANGEL and DB
  International write the `.tmp` file of a master only when the whole answer is
  there, so that two threads can collide in it only while they write; the model has
  no step for that (a download of theirs is `Fetched` whole), and `crowded`, which
  begins when two downloads overlap, would exempt it.
* `NewestIsApplied` speaks of the moments after a successful reload during which
  no minutes were stored, up to the next reload. It holds although the series
  repeats bars (finding 3): a repetition ends with the newest bar, and EMA and
  state skip what is not newer. It would not hold of ticks so late that the bars
  they close push the newest one out of the windows (`WideWindows`, below). The
  newest bar is that of the series: `reload_ssus` reads the history only for a
  timeframe that has no closed bar (`runtime.rs:857`), so that bars stored since,
  by a recovery or while no SSU required the timeframe, are never replayed.
* `BarsAreTheirTicks` leaves out the ticks that came after a later bucket had
  begun, as the code does. They are not lost in silence only here: the same
  ticks still move the stop of a trade (TradeManager, whose ticks are in order).
* `LineOnTrendSide` and `LineRatchets` have the close as source, the default. With
  another source the close may be on either side of the line. The line may also
  step back once when a close was exactly on it: both comparisons are strict.

### Findings
1. `close_position` changes memory before it persists. If a statement fails,
   memory says CLOSED and the table OPEN, and a restart reopens the position
   (`PositionBook_persisted`, against `docs/strategy_v1_contract.md:15`).
2. `reload_ssus` clears all registrations before it validates the new SSUs. If
   one is not accepted the old SSUs stay active and get no bars
   (`StrategyRuntime_failed`, against `docs/strategy_v1_contract.md:12`).
3. `merge_closed_bar` compares a bar with the last one only. A reload warms each
   SSU up with the recent bars of the series itself, so the second SSU of a
   timeframe, or a second reload, appends them all again. A series that is
   shorter than its limit then holds bars twice (`TimeframeEngine_recent`), and
   the replay of a strategy skips the second copy; of a longer one the copies push
   out the oldest bars, and a strategy that replays as many bars as before begins
   with a later one (it happens in `StrategyRuntime_reload`).

## 4. What is proved

TLAPS proofs hold for any number of SSUs, instruments, brokers, underlyings and
reloads, any limits, distances, bar and window lengths, sessions and times of the day, any
histories and markets, and any number of faults. They assume the named
assumptions on the constants of their module only (`ConstantsAssumption`,
`NoneAssumption`, `NoCandleAssumption`, `BacktestAssumption`, `DayAssumption`,
`FeedAssumption`, `HistoryAssumption`, `IndicatorAssumption`), which TLC evaluates in every run. Two
theorems, `LivePicks` and `NewestAlwaysApplied`, have a hypothesis of their own
(below). `PROJECT.json` lists the theorems with the property each one states. `TradeInv`,
`TouchOK`, `LimitOK` and `HistoryInv`, and the limits of `BacktestKeepsLimits`, were
checked with TLC on the instances of their modules before they were proved.

`PositionBook_proofs`. The inductive invariant is
`BookInv == TypeOK /\ CallsOK /\ BooksAgree /\ RowsAreJournaled`. No property of
the book is inductive by itself. `CallsOK` says what a thread inside the book has
already established: it holds the mutex, an entry that is about to insert is
still admissible, an exit that is about to update has marked its row. `BooksAgree`
relates memory to the table for every position: equal, or closed in memory and
still open in the table, never the other way round. From these follow
`OpenIsStored`, `RowsAreJournaled`, `EntriesRespectGap`, `DailyCapKept`,
`OverlapKept` and `TargetStillOpen`, and step by step `ClosedIsFinal`. (TLC checks
`EntriesRespectGap` and `OverlapKept` through `ImplementsBook`.) The limits
are proved by induction with the counts of the two books: an insert adds one
element to a set whose size was checked under the mutex that is still held.

`BookImplementsVirtualBook` is the refinement: every step of the book maps to one
of `VirtualBook` or to a stutter. Only three steps write memory (`BookWriters`).
`InsertRow` is the abstract entry, because `CallsOK` has kept the entry admissible
since the checks; `CloseMarked` is the abstract exit, which besides `BookInv`
needs that a thread's exit is later than the entry it names (`ExitsLater`);
`Restart` is `Forget`, because memory differs from the table by unsaved closes
only (`BooksAgree`) and an open row has no exit columns (`OpenHasNoExit`).

`JournalMatchesTable` adds `JournalInv`: while nothing has failed, a signal of
the journal is in the hand of a thread that is about to write its row, or has had
its effect. An effect stays, because a later write of the same row is by the
thread that holds the mutex, and writes more (`EffectsStay`). With
`RowsAreJournaled` it is `JournalAgrees`.

`StrategyRuntime_proofs`. The inductive invariant is
`RuntimeInv == TypeOK /\ CallsOK /\ ReloadOK /\ SeriesOK /\ BarsOK`. `CallsOK`: a
thread past the instrument lock holds it, one past the gate is a reader, the bars
it has in hand are the latest of their series and the instances it cloned are of
the current generation. `SeriesOK`: a series goes back where a reload appended a
copy, but never forward by more than one bar, and it ends with the latest bar
(`Grows`; kept by cutting off its head, `RecentGrows`, and by every merge,
`MergedGrows`). Hence a replay of any suffix, which keeps the bars that are newer
than all before them, has no hole (`ReplayedWhole`: of the bars at least as new as
a missing one, the first in the series would be that bar itself). `ReloadOK`: a
reload past the gate is alone, what it has registered is what it has loaded, and
what it has warmed up has bars without a hole up to the latest. `BarsOK`: the bars
an indicator state has missed, less those on their way to it in some thread, are
at most the faults. From these follow
`InstancesAreCurrent`, `BarsAreSeen`, `InstalledIsRegistered`, and that two
threads never handle one instrument (`OneThreadPerInstrument`), on which
PositionBook and TradeManager rest when they name a thread by its instrument.

`TradeManager_proofs`. The inductive invariant is
`TradeInv == TypeOK /\ TodoOK /\ ContextOK /\ BookingOK /\ PairingOK`. `TodoOK`:
the statements left are a tail of their order, and an update never stands beside
an exit. `ContextOK`: a context about to be stored improves on the one it
replaces, so what was decided is not made stale by anything that happens before
the write. `BookingOK`: a flag is behind its signal, and what is flagged in a
pending update is booked or still to be booked before it. `PairingOK`: position
and context come and go together while nothing has failed. They need lemmas on
the decisions (`TickPlanFacts`, `PartialBookFacts`, `TrailingFacts`: what any
tick and any closed bar decides is ordered, improves on the context and books
what it flags); `Decides` sums them up for the steps. From `TradeInv` follow
`StoredHitsAreBooked` and `Tp3BooksTheRest`, which are `TargetsAreBooked`,
`OpenIsManaged`, and step by step
`StopNeverLoosens`. Two properties need invariants of their own on top of it:

* `StopExitIsTouched` rests on `TouchOK`: every bar that is forming or waits to
  be judged holds only prices that a tick has compared with the stored stop, or
  started no later than the stop was moved. (It uses that a bar starts at or
  before each of its ticks, a fact about division.)
* `BookedOncePerFault` rests on `LimitOK`: only a fault can leave a booked target
  managed and unflagged. The case that needs care is a signal id that is taken:
  the tick ends there without a fault, and it must not have booked the other
  target just before. It has not, because a tp2 of that time implies a tp1 of
  that time (`SameTimeOK`), whose id would have been taken first.

`BacktestBook_proofs` has three inductive invariants. `FeedInv == ReplayOK /\
SeriesOK /\ NothingLost`: the bars still to come are in order and ahead of the
clock, each series ascends, and every bar that ends after `--from` is seen or
still to come. The initial state is the hard part: the bars are aggregated from
minutes, sorted and split at `--from`, so that it needs `RankedInOrder` (what
sorting a finite set gives, whose maximum exists by well-founded induction on
its subsets) and the arithmetic of buckets (`WholeBucket`, `BucketsAscend`).
`BarsInOrder` follows. `BookInv == BookTypes /\ QueueOK /\ IndexesAgree` says that
`open_by_ssu`, `open_by_key`, `last_entry_by_ssu` and `entries_by_ssu_day` are
what the positions say they should be; `QueueOK`, that no handler is queued twice
at a bar, is what makes the position it enters a new one. With `IndexesAgree` the
guards of the code, which read the indexes, are the abstract guards of
`VirtualBook`, which count positions: `BacktestImplementsBook`. And from the
refinement, not from the code again, `BacktestKeepsLimits`: the gap between
entries, the daily cap and the limit of open trades hold in a whole backtest, as
they do live. (No run lists these limits, since `ImplementsBook` already is the
question.)

The third, on top of these, is `MoneyInv`, which
says of every trade what its books hold. `ClosedBooked` is what `NetIsCash` asks:
the net P&L is what entry, parts and exit moved, less the funding owed. It is
not inductive, because an open trade keeps gross, charges and funding apart, and
funding in the past and in the future; `OpenBooked` says for an open trade that
the gross of its parts, less charges but for the funding, is the cash so far plus
the value at entry of what is left, and that what will be owed at any later minute is
what has been charged plus the rate on what is left at every snapshot until then
(`SnapshotsCount`: the quotients of `snapshot_count` count the due minutes). An
entry, a part and an exit each have a lemma (`EntryIsBooked`, `PartIsBooked`,
`ExitIsBooked`). That a close is known when a handler runs is `PricesOK`.
The sums are the community modules' folds, recursive functions picked by
`CHOOSE`; that there is such a function, and that it adds up what one expects, is
shown by counting over cardinalities (`FoldExists`, `SumIsTotal`), and that
`max_drawdown` is no less than the fall between any two moments, and one of those falls when
no two trades end together, by counting along the list (`DrawdownIsWorst`,
`SummedUp`). Prices, fees and rates are any integers, as `BacktestAssumption`
says: the code has floats, whose sums agree up to rounding only.

`CandleHistory_proofs`. The inductive invariant is `HistoryInv == MarketTypes /\
HistoryTypes /\ MemoryOK /\ RowsOK /\ SyncOK`. `MemoryOK` follows a trade on its
way: what a run has not seen of a minute it has missed, or it is in the network;
what it has seen is in the active candle or has left memory (`SeenOK`); the active
candle, and one that is on its way to the table, is the candle of exactly the
first `seen` trades of its minute (`ActiveOK`, `LeavingOK`). `RowsOK`: a row is the
exchange's candle, or of a missed minute, or of one with a tick still in the
network. From these `StoredIsExact`. A minute leaves memory once (`TakenOnce`)
because what has been taken lies before `closed_end` and what is active after it.
`SyncFills` needs `SyncOK`, the range is filled up to the cursor, and that the
response to a request has no gap (`ResponseHasNoGap`), which is proved for both
request windows: Delta's, both ends included, and FYERS's, which is the range or
all of today's session, where the cursor and the end of a chunk may lie in the
closed part. `WarmupBarsExact` is about
`load_bars`: its newest minute is over (`NewestIsClosed`), and a bucket that is
kept has all its minutes among those loaded (`WholeBucketWithin`), so that its
candle is the exchange's for every timeframe and limit.

`BrokerFeed_proofs`. The inductive invariant `FeedInv` has a part for each thing
the thread keeps: `UniverseOK` for every underlying (its `wanted` symbols are the
selection around its anchor, and the subscriptions are those, up to the step a
refresh has come to), `SpotsOK`, `ListedOK` (the spots of DB International have
their rows, with the last price or one that is about to be written), `RowsOK`,
`CsvOK`, `ServerOK`, `AlertOK` (what the last notification said fits the alert that
is remembered, unless it was lost); and
`PhaseOK`, which says what `todo` can be in each phase, in each broker's order.
What is left of a call tells how far universe, rows and files have got, so that
a failure can come at any step. The request queue of the server is the only
unbounded thing: `ServingMore` and `ServingOne` say what one more request changes
in what the server is going to send. From `FeedInv` follow `UniverseFollowsSpot`,
`ServerAgrees`, `RowsAreCurrent`, `SpotsAreListed` and `CsvIsSubscribed`, which are
`FilesAgree`, and `OperatorKnows`.

`BrokerDay_proofs`. The inductive invariant is `DayInv == DayTypes /\ FilesOK /\
DiskOK /\` and for every thread `ThreadOK`. `FilesOK`: the two days of a file are
those of one moment. `DiskOK`: a thread that downloads a master alone is alone in
its `.tmp` file, from which `MasterIsWhole`. `JobOK`: what a job has behind it is
fresh or was given up; `SchedulerOK`: a scheduler sleeps until the run after a
moment at which its job had ended, from which `DayIsPrepared`. `FeedOK`: a feed that
sleeps has found its exchanges closed, and sleeps until their next opening; that
`WakeTime` is the first moment of a session (`NextOpenIs`, `WakeTimeIs`), whatever
offset, weekdays, hours and lead of the exchanges, is arithmetic on days and
weeks, and gives `FeedKeepsSession`. `LivePicks` (`PicksAreAlive`) has the hypothesis
`MaxRun <= Ist`: a thread is at work for no longer than Indian time is ahead of
UTC, five hours and a half. It is needed for FYERS, whose master is current by
its UTC day and lists what was alive when it was asked for: were the request an
arbitrary time before the answer, it could belong to the Indian day before. The
client of the FYERS master gives up after 180 seconds, so the code is well within
the hypothesis, and so is the run's instance.

`IndicatorState_proofs`. None of its properties is inductive: each compares what
a push returned with the bars, and the windows that the push changed are known
only by what was pushed before. The inductive invariant `Inv` has a part for each
of them. `StructureInv` and `PivotsInv` rest on `Tracks`, what a monotonic queue
is: its entries are bars of the window, in order of both number and value, and
every bar of the window has an entry that is not older and at least as extreme.
`PushTracks` and `ExpireTracks` keep it, and `FrontIsExtreme` reads the extreme
off its front, for maxima and minima at once. `EfficiencyInv`, `MomentumInv` and
the window of the pivots rest on `Holds`, what a deque of the last bars is
(`SlideHolds`); `PathInv` adds that the path between two closes is at least as
long as their distance, so that the ratio is at most 1; and that a window which
ends higher than it began has a rise in it is `RisesSomewhere`. `PendingInv` says
that the one pivot which has been confirmed and is not yet in use is the one of
the last bar's centre, `BandsInv` on which side of the close a band is, `EntryInv`
that the trend is the side of the last live entry. From `Inv` follow
`ExtremaExact`, `EfficiencyIsPath`, `MomentumCounts`, `LatestPivot`,
`LineOnTrendSide`, `EntryIsWarm` and `TypeOK`, whose natural numbers say that no
counter of the code, all of them unsigned, falls below zero; and step by step
`LineRatchets` and `EntriesAlternate`, together `WindowsAreExact`,
`LineFollowsTrend` and `EntriesAreSound`. They hold for any lengths, prices and bands,
over integers: with floats the running sum of the efficiency rounds, and
`EfficiencyIsPath` is exact only up to that.

The same module ends with TimeframeEngine, whose bars the indicators are made of: as an
instance `Engine` next to FormedBars, with constants and variables of its own and
`EngineAssumption` as the hypothesis of its theorems.
`EngineInv` says of a timeframe that its forming bar and every bar announced are
`MadeOf` the ticks of their buckets, that no tick heard is after the forming bar,
and that the announced bars end before it starts. A late tick is the case that needs
care: it adds nothing to a bar that is closed, because a tick of a later bucket
stands before it (`TickElsewhere`). From it follow `BarsAreTheirTicks` and
`AnnouncedInOrder`.

`NewestInv` adds what `NewestIsApplied` rests on. `KeptOK` says of every series, also
one that repeats bars or has an older one last, how far its newest bar may be from the end
(`Depth`): a bar that closes after it comes from a later bucket than the one before, and
none is older than the latest tick allows, so that few can come. `LoadedOK` and `SettledOK`
say of EMA and state that they have the newest bar (`Sound`), of each SSU a reload has
loaded so far and of each that is active; that a second SSU of a timeframe merges the
same bars into the series again changes nothing for the first (`WarmedBy`), unless the
series was empty and minutes have been stored since, which is why a reload is
settled only if none were. The warmups are folds over lists of bars, and
are proved by counting along the list, as in BacktestBook (`FoldReaches`). The
hypothesis `WideWindows` is `MaxLag <= (k - 3) * tf` for each of the three windows `k` and
every timeframe `tf`: no tick is late by as many bars as a window keeps. The
shipped configuration keeps 1000 bars in a series and warms up with 1000, and a
state is replayed from at least 64 (`adaptive_supertrend.rs:1203`). The run keeps 2 and has ticks
that are half a bar late, which is less than the hypothesis asks for; `KeptOK`, `LoadedOK`
and `SettledOK` were checked with TLC on instances of 4 bars before they were proved.

## 5. Only model-checked

The liveness properties `StopIsTaken`, `ReloadEnds`, `CandleLeavesMemory` and
`RunResumes`: TLAPS has no reasoning about fairness and `ENABLED`. The
three findings are counterexamples of TLC. Every other property of a passing run is
proved.

## 6. Not modelled, and the plan

To be modelled, should the code around it change:

* The preview of an EMA on the bar that is forming.
* The values of the dynamic targets (`f64::clamp` panics if their floor is above
  their ceiling).
* The routing of trade signals to Telegram, panics and poisoned locks.
* Sockets of FYERS and DB International that a run leaves behind, and the length
  of the supervisor's delays.

Left out for good:

* the floating-point formulas of `adaptive_supertrend` (ATR, quality index,
  multipliers, dynamic targets): their values are what matters, and TLC has no
  floats. IndicatorState has the windows they read, and takes what they say as
  any value, as TradeManager does;
* the price store, which no strategy reads;
* wire formats, HTTP exchanges, TOTP, columns of master and price files, parsing of
  configuration and catalog, and the vendored Socket.IO client: their state is
  the broker's, or they have none;
* logins and tokens written by hand over the admin server.

In PositionBook and TradeManager prices of exits, P&L and signal metadata are
left out, since no decision reads them; BacktestBook has them.
