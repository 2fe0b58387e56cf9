--------------------------- MODULE CandleHistory ---------------------------
(***************************************************************************)
(* The one-minute history of one spot instrument: the candle service that  *)
(* builds it from ticks, the thread that flushes it, the SQLite table, the *)
(* recovery at the start of a broker run, the daily maintenance, and the   *)
(* bars of a larger timeframe that a strategy is warmed up with.           *)
(*                                                                         *)
(* Five actors share the table: the broker thread (on_tick), the flusher,  *)
(* the maintenance thread, recovery, and the exchange, whose own candle of *)
(* a minute is the OHLC of its trades.  The candle state is behind a       *)
(* mutex, the table is not: a candle leaves memory under the lock and is   *)
(* stored after it, with its own connection.                               *)
(*                                                                         *)
(* Instruments and timeframes do not interact, so there is one of each.    *)
(* Volume is left out (a live candle's is always 0).  Time is counted in   *)
(* units of which MinuteLen make a minute.                                 *)
(***************************************************************************)
EXTENDS Integers, Sequences, FiniteSets, FiniteSetsExt

CONSTANTS
    Prices,        \* prices of a trade
    MinuteLen,     \* clock units in a minute
    MaxMinute,     \* bound: minutes 0..MaxMinute are observed
    MaxTrades,     \* bound on the number of trades
    MaxFaults,     \* bound on failures, disconnects and kills
    Sources,       \* brokers with a history API: subset of {"DELTA", "FYERS"}
    DayLen,        \* DAY_SECONDS, in minutes
    DayOffset,     \* IST_OFFSET_SECONDS, in minutes
    OpenMinute,    \* NSE_BSE_EQUITY_OPEN_SECOND, in minutes of the day
    CloseMinute,   \* NSE_BSE_EQUITY_CLOSE_SECOND, in minutes of the day
    Retention,     \* one_minute_days, in minutes
    Reconcile,     \* reconcile_one_minute_days, in minutes
    Chunk,         \* max_chunk_candles
    MaintenanceAt, \* maintenance_time_ist, in clock units
    Factor,        \* timeframe_factor of the larger timeframe
    Limit,         \* bars asked for at a warmup
    NoCandle       \* no candle of this minute

ASSUME HistoryAssumption ==
    /\ Prices \subseteq Nat /\ Prices # {}
    /\ MinuteLen \in Nat \ {0} /\ MaxMinute \in Nat
    /\ MaxTrades \in Nat /\ MaxFaults \in Nat
    /\ Sources \subseteq {"DELTA", "FYERS"}
    /\ DayLen \in Nat \ {0} /\ OpenMinute \in Nat /\ CloseMinute \in Nat
    /\ DayOffset \in 0..OpenMinute
    /\ Retention \in Nat /\ Reconcile \in Nat /\ MaintenanceAt \in Nat
    /\ Chunk \in Nat \ {0} /\ Factor \in Nat \ {0} /\ Limit \in Nat \ {0}

Minutes == 0..MaxMinute
Horizon == (MaxMinute + 1) * MinuteLen
Times == 0..Horizon

MinuteOf(t) == t \div MinuteLen
StartOf(m) == m * MinuteLen
EndOf(m) == (m + 1) * MinuteLen

Candles == [minute : Minutes, open : Prices, high : Prices,
            low : Prices, close : Prices]

(* A tick is the nth trade of a minute, on its way to the program.         *)
Ticks == [minute : Minutes, nth : 1..MaxTrades]

ASSUME NoCandleAssumption == NoCandle \notin Candles

VARIABLES
    now,         \* the clock
    source,      \* the broker this run belongs to
    market,      \* the prices traded in each minute, in order
    net,         \* ticks sent to the program and not yet delivered
    table,       \* historical_candles, by minute
    run,         \* the broker run: down, recovering, live, or being dropped
    flusher,     \* its flusher thread: opening its store, polling, or gone
    active,      \* CandleState.active
    closed_end,  \* CandleState.last_closed_end
    ticked,      \* the candle on_tick has taken out of memory and not stored
    flushed,     \* the candle the flusher has taken and not stored
    sync,        \* sync_candle_range, and the run of it that is due
    faults,      \* failures so far
    seen,        \* observer: trades of a minute this run took in, in order
    missed,      \* observer: minutes a trade of which was not taken in so
    taken        \* observer: minutes that left the memory of this run

service == <<active, closed_end, ticked, flushed>>
observers == <<seen, missed, taken>>
vars == <<now, source, market, net, table, run, flusher, service, sync, faults,
          observers>>

(* InProgressCandle: the candle of a first price, and one more price.      *)
NewCandle(m, p) == [minute |-> m, open |-> p, high |-> p, low |-> p, close |-> p]

ApplyPrice(c, p) ==
    [c EXCEPT !.high = IF p > @ THEN p ELSE @, !.low = IF p < @ THEN p ELSE @,
              !.close = p]

(* The exchange's candle of a minute: the one the history API returns.     *)
Exact(m) == [minute |-> m, open |-> market[m][1],
             high |-> Max({market[m][i] : i \in DOMAIN market[m]}),
             low  |-> Min({market[m][i] : i \in DOMAIN market[m]}),
             close |-> market[m][Len(market[m])]]

Traded == {m \in Minutes : market[m] # <<>>}
Stored == {m \in Minutes : table[m] # NoCandle}

Idle == [stage |-> "idle", cursor |-> 0, start |-> 0, end |-> 0, cutoff |-> 0,
         due |-> FALSE, touched |-> {}]

Init ==
    /\ now = 0 /\ source \in Sources
    /\ market = [m \in Minutes |-> <<>>] /\ net = {}
    /\ table = [m \in Minutes |-> NoCandle]
    /\ run = "down" /\ flusher = "gone"
    /\ active = NoCandle /\ closed_end = 0 /\ ticked = NoCandle /\ flushed = NoCandle
    /\ sync = Idle /\ faults = 0
    /\ seen = [m \in Minutes |-> 0] /\ missed = {} /\ taken = {}

Fault == faults < MaxFaults /\ faults' = faults + 1

----------------------------------------------------------------------------
(* The exchange.                                                           *)

(* ist_day_and_second, ist_day_second_to_utc: the day of a minute, and the *)
(* minutes at which the session of a day opens and closes.                 *)
DayOf(m) == (m + DayOffset) \div DayLen
OpenOf(day) == day * DayLen + (OpenMinute - DayOffset)
CloseOf(day) == day * DayLen + (CloseMinute - DayOffset)

InSession(m) == source = "FYERS" => m \in OpenOf(DayOf(m))..(CloseOf(DayOf(m)) - 1)

Advance ==
    /\ now < Horizon
    /\ now' = now + 1
    /\ UNCHANGED <<source, market, net, table, run, flusher, service, sync, faults,
                   observers>>

(* A trade: sent to a run that is live, and known to the history API.      *)
Trade(p) ==
    LET m == MinuteOf(now) IN
    /\ now < Horizon /\ InSession(m)
    /\ MapThenSumSet(LAMBDA x : Len(market[x]), Minutes) < MaxTrades
    /\ market' = [market EXCEPT ![m] = Append(@, p)]
    /\ IF run = "live"
         THEN /\ net' = net \cup {[minute |-> m, nth |-> Len(market[m]) + 1]}
              /\ UNCHANGED missed
         ELSE /\ missed' = missed \cup {m}
              /\ UNCHANGED net
    /\ UNCHANGED <<now, source, table, run, flusher, service, sync, faults, seen, taken>>

----------------------------------------------------------------------------
(* HistoricalCandleService.on_tick, on the broker thread.                  *)

(* The last close is not compared: a late tick opens the minute again.     *)
Bug_Late(m) == active # NoCandle /\ m < active.minute

(* The tick is taken into the candle of its minute, opens one, or is late: *)
(* older than the active candle or than the last one closed.               *)
Late(m) == EndOf(m) <= closed_end \/ (active # NoCandle /\ m < active.minute)

AggregateTick(m, p) ==
    \/ /\ Late(m)
       /\ UNCHANGED service
    \/ /\ ~Late(m) /\ active = NoCandle
       /\ active' = NewCandle(m, p)
       /\ UNCHANGED <<closed_end, ticked, flushed>>
    \/ /\ ~Late(m) /\ active # NoCandle /\ active.minute = m
       /\ active' = ApplyPrice(active, p)
       /\ UNCHANGED <<closed_end, ticked, flushed>>
    \/ /\ ~Late(m) /\ active # NoCandle /\ active.minute < m
       /\ active' = NewCandle(m, p)
       /\ closed_end' = EndOf(active.minute)
       /\ ticked' = active
       /\ UNCHANGED flushed

(* The feed may deliver ticks in another order than they were traded.      *)
Deliver(k) ==
    /\ run = "live" /\ ticked = NoCandle
    /\ net' = net \ {k}
    /\ AggregateTick(k.minute, market[k.minute][k.nth])
    /\ IF ~Late(k.minute) /\ k.nth = seen[k.minute] + 1
         THEN seen' = [seen EXCEPT ![k.minute] = @ + 1] /\ UNCHANGED missed
         ELSE missed' = missed \cup {k.minute} /\ UNCHANGED seen
    /\ taken' = IF ticked' = NoCandle THEN taken ELSE taken \cup {ticked'.minute}
    /\ UNCHANGED <<now, source, market, table, run, flusher, sync, faults>>

(* On subscription a broker sends the last trade again, with its own time. *)
Snapshot ==
    /\ run = "live" /\ ticked = NoCandle /\ net = {} /\ Traded # {}
    /\ LET m == Max(Traded) IN net' = {[minute |-> m, nth |-> Len(market[m])]}
    /\ active = NoCandle /\ closed_end = 0
    /\ UNCHANGED <<now, source, market, table, run, flusher, service, sync, faults,
                   observers>>

(* upsert_candle replaces the row of the minute.                           *)
UpsertCandle(c) ==
    /\ table' = [table EXCEPT ![c.minute] = c]
    /\ sync' = [sync EXCEPT !.touched = IF sync.stage = "idle" THEN @ ELSE @ \cup {c.minute}]

StoreTicked ==
    /\ ticked # NoCandle
    /\ UpsertCandle(ticked)
    /\ ticked' = NoCandle
    /\ UNCHANGED <<now, source, market, net, run, flusher, active, closed_end, flushed,
                   faults, observers>>

(* What dropping the run loses: the connection, and the candles in memory. *)
LoseMemory ==
    /\ net' = {}
    /\ active' = NoCandle /\ closed_end' = 0 /\ ticked' = NoCandle
    /\ seen' = [m \in Minutes |-> 0] /\ taken' = {}
    /\ missed' = missed \cup {k.minute : k \in net} \cup {m \in Minutes : seen[m] > 0}

(* The upsert's error ends on_tick and with it the broker run.             *)
StoreTickedFails ==
    /\ ticked # NoCandle /\ Fault
    /\ LoseMemory /\ run' = "closing"
    /\ UNCHANGED <<now, source, market, table, flusher, flushed, sync>>

----------------------------------------------------------------------------
(* HistoricalCandleFlusher: it opens a store of its own, and once a second *)
(* takes whatever is over.                                                 *)

OpenFlusher ==
    /\ run = "live" /\ flusher = "opening"
    /\ flusher' = "polling"
    /\ UNCHANGED <<now, source, market, net, table, run, service, sync, faults, observers>>

(* The error is logged and the thread returns; the run goes on without it. *)
OpenFlusherFails ==
    /\ run = "live" /\ flusher = "opening" /\ Fault
    /\ flusher' = "gone"
    /\ UNCHANGED <<now, source, market, net, table, run, service, sync, observers>>

(* The flusher runs only when a tick is waiting.                           *)
Bug_Flush ==
    /\ net # {} /\ run = "live" /\ flusher = "polling" /\ flushed = NoCandle
    /\ active # NoCandle /\ EndOf(active.minute) <= now
    /\ closed_end' = EndOf(active.minute)
    /\ flushed' = active /\ active' = NoCandle
    /\ taken' = taken \cup {active.minute}
    /\ UNCHANGED <<now, source, market, net, table, run, flusher, ticked, sync,
                   faults, seen, missed>>

(* The flusher does not say what it has closed.                            *)
Bug2_Flush ==
    /\ run = "live" /\ flusher = "polling" /\ flushed = NoCandle
    /\ active # NoCandle /\ EndOf(active.minute) <= now
    /\ flushed' = active /\ active' = NoCandle
    /\ taken' = taken \cup {active.minute}
    /\ UNCHANGED <<now, source, market, net, table, run, flusher, closed_end, ticked,
                   sync, faults, seen, missed>>

Flush ==
    /\ run = "live" /\ flusher = "polling" /\ flushed = NoCandle
    /\ active # NoCandle /\ EndOf(active.minute) <= now
    /\ closed_end' = EndOf(active.minute)
    /\ flushed' = active /\ active' = NoCandle
    /\ taken' = taken \cup {active.minute}
    /\ UNCHANGED <<now, source, market, net, table, run, flusher, ticked, sync,
                   faults, seen, missed>>

StoreFlushed ==
    /\ flushed # NoCandle
    /\ UpsertCandle(flushed)
    /\ flushed' = NoCandle
    /\ UNCHANGED <<now, source, market, net, run, flusher, active, closed_end, ticked,
                   faults, observers>>

(* The error is logged; the candle is gone.                                *)
StoreFlushedFails ==
    /\ flushed # NoCandle /\ Fault
    /\ flushed' = NoCandle
    /\ UNCHANGED <<now, source, market, net, table, run, flusher, active, closed_end,
                   ticked, sync, observers>>

----------------------------------------------------------------------------
(* Recovery and maintenance.                                               *)

(* latest_end_time: the end of the row with the greatest start.            *)
LatestEnd == IF Stored = {} THEN 0 ELSE EndOf(Max(Stored))

MaxOf(a, b) == IF a > b THEN a ELSE b
MinOf(a, b) == IF a < b THEN a ELSE b

(* now.saturating_sub(days_to_millis(days)); zero days switch it off.      *)
Before(minutes) == MaxOf(0, now - minutes * MinuteLen)
Cutoff == IF Retention = 0 THEN 0 ELSE Before(Retention)

BeginSync(stage, start, due) ==
    sync' = [stage |-> stage, cursor |-> start, start |-> start, end |-> now,
             cutoff |-> Cutoff, due |-> due, touched |-> {}]

(* recover_instrument_timeframe: from where the stored history ends.       *)
RecoveryStart ==
    IF Retention = 0 THEN now ELSE MinOf(now, MaxOf(LatestEnd, Cutoff))

BeginRecovery ==
    /\ run = "down"
    /\ run' = "recovering"
    /\ BeginSync("recover", RecoveryStart, FALSE)
    /\ UNCHANGED <<now, source, market, net, table, flusher, service, faults, observers>>

(* next_maintenance_time: a run that starts later waits for tomorrow.      *)
ScheduledAfter(t) == t < MaintenanceAt

(* maintain_instrument_timeframe: the last days again, whatever is stored. *)
MaintenanceStart ==
    IF Retention = 0 \/ Reconcile = 0 THEN now ELSE MaxOf(Before(Reconcile), Cutoff)

BeginMaintenance ==
    /\ run = "live" /\ sync.stage = "idle" /\ sync.due /\ ~ScheduledAfter(now)
    /\ BeginSync("maintain", MaintenanceStart, FALSE)
    /\ UNCHANGED <<now, source, market, net, table, run, flusher, service, faults,
                   observers>>

(* The window starts behind its first minute.                              *)
Bug_RequestWindow(from, to) == {<<from + MinuteLen, to>>}

(* normalize_request_window of FYERS: within today it asks for the whole   *)
(* session up to the last finished minute.  No window, no request.  (For   *)
(* what is no NSE or BSE equity it asks as DELTA does.)                    *)
RequestWindow(from, to) ==
    LET today == DayOf(MinuteOf(now))
        open  == StartOf(OpenOf(today))
        end   == MinOf(MinOf(to, StartOf(CloseOf(today))), StartOf(MinuteOf(now)))
    IN  IF DayOf(MinuteOf(from)) # today \/ DayOf(MinuteOf(to)) # today THEN {<<from, to>>}
        ELSE IF end <= open THEN {} ELSE {<<open, end>>}

(* Both APIs include the minutes that start at either end of the window.   *)
StartingIn(from, to) == {Exact(m) : m \in {x \in Traded : StartOf(x) \in from..to}}

DeltaCandles(from, to) == StartingIn(from, to)
FyersCandles(from, to) == UNION {StartingIn(w[1], w[2]) : w \in RequestWindow(from, to)}

FetchCandles(from, to) ==
    IF source = "DELTA" THEN DeltaCandles(from, to) ELSE FyersCandles(from, to)

ChunkEnd == MinOf(sync.cursor + Chunk * MinuteLen, sync.end)

(* What sync_candle_range keeps of a response: nothing before the cursor,  *)
(* nothing that ends after the end of the range.                           *)
Fetched == {c \in FetchCandles(sync.cursor, ChunkEnd) :
                EndOf(c.minute) > sync.cursor /\ EndOf(c.minute) <= sync.end}

WithCandles(S) ==
    [m \in Minutes |-> IF \E c \in S : c.minute = m
                         THEN CHOOSE c \in S : c.minute = m ELSE table[m]]

(* One request: its candles are stored, and the cursor moves to the end of *)
(* the last one, or past the chunk if it brought none.                     *)
SyncChunk ==
    /\ sync.stage # "idle" /\ sync.cursor < sync.end
    /\ table' = WithCandles(Fetched)
    /\ sync' = [sync EXCEPT
                  !.cursor = IF Fetched = {} THEN ChunkEnd
                             ELSE Max({EndOf(c.minute) : c \in Fetched}),
                  !.touched = @ \ {c.minute : c \in Fetched}]
    /\ UNCHANGED <<now, source, market, net, run, flusher, service, faults, observers>>

(* prune_before: rows that start before the minute of the cutoff, which is *)
(* compared as it is written, to the minute, are deleted.                  *)
Pruned(cutoff) == [m \in Minutes |-> IF m < MinuteOf(cutoff) THEN NoCandle ELSE table[m]]

(* The run after a recovery: the maintenance thread and the candle service *)
(* with its flusher start.                                                 *)
EndSync ==
    /\ sync.stage # "idle" /\ sync.cursor >= sync.end
    /\ table' = Pruned(sync.cutoff)
    /\ IF sync.stage = "recover" THEN run' = "live" /\ flusher' = "opening"
       ELSE UNCHANGED <<run, flusher>>
    /\ sync' = [Idle EXCEPT !.due = sync.stage = "recover" /\ ScheduledAfter(now)]
    /\ UNCHANGED <<now, source, market, net, service, faults, observers>>

(* A request or one of the upserts of its candles fails.  The error of a   *)
(* recovery ends the run, the error of a maintenance is reported.          *)
SyncFails ==
    /\ sync.stage # "idle" /\ Fault
    /\ \E S \in SUBSET (IF sync.cursor < sync.end THEN Fetched ELSE {}) :
          table' = WithCandles(S)
    /\ run' = IF sync.stage = "recover" THEN "down" ELSE run
    /\ sync' = Idle
    /\ UNCHANGED <<now, source, market, net, flusher, service, observers>>

----------------------------------------------------------------------------
(* The end of a run.                                                       *)

(* The socket fails between two ticks: run_live returns its error.         *)
Disconnect ==
    /\ run = "live" /\ ticked = NoCandle /\ Fault
    /\ LoseMemory /\ run' = "closing"
    /\ UNCHANGED <<now, source, market, table, flusher, flushed, sync>>

(* Dropping the service and the maintenance handle joins their threads.    *)
Joined ==
    /\ run = "closing" /\ flushed = NoCandle /\ sync.stage = "idle"
    /\ run' = "down" /\ flusher' = "gone" /\ sync' = Idle
    /\ UNCHANGED <<now, source, market, net, table, service, faults, observers>>

(* The process is killed.                                                  *)
Kill ==
    /\ run # "down" /\ Fault
    /\ LoseMemory /\ run' = "down" /\ flusher' = "gone"
    /\ flushed' = NoCandle /\ sync' = Idle
    /\ UNCHANGED <<now, source, market, table>>

Next ==
    \/ Advance \/ (\E p \in Prices : Trade(p))
    \/ (\E k \in net : Deliver(k)) \/ Snapshot
    \/ StoreTicked \/ StoreTickedFails
    \/ OpenFlusher \/ OpenFlusherFails \/ Flush \/ StoreFlushed \/ StoreFlushedFails
    \/ BeginRecovery \/ BeginMaintenance \/ SyncChunk \/ EndSync \/ SyncFails
    \/ Disconnect \/ Joined \/ Kill

(* The flusher opens its store or fails to, and then wakes up every second *)
(* while the run lasts; when it has taken a candle it goes on to store it. *)
Spec == Init /\ [][Next]_vars /\ WF_vars(Flush)
             /\ WF_vars(OpenFlusher \/ OpenFlusherFails)
             /\ WF_vars(StoreFlushed \/ StoreFlushedFails)

----------------------------------------------------------------------------
(* SqliteHistoricalReplayStore.load_bars: the bars of a timeframe of       *)
(* Factor minutes, built from stored minutes.                              *)

Newest(S, n) == {m \in S : Cardinality({x \in S : x > m}) < n}

BucketOf(m) == m \div Factor
BucketStart(b) == b * Factor
BucketEnd(b) == (b + 1) * Factor

(* load_recent_candles of enough minutes for Limit bars and both edges.    *)
SourceMinutes == Newest(Stored, (Limit + 2) * Factor)

(* Only the newest incomplete bucket is dropped.                           *)
Bug_WholeBuckets(minutes, buckets) ==
    {b \in buckets : Max(minutes) + 1 >= BucketEnd(b)}

(* drop_incomplete_edge_buckets: the first bucket if its beginning is not  *)
(* stored, then the last one if its end is not.                            *)
WholeBuckets(minutes, buckets) ==
    LET late  == {b \in buckets : b = Min(buckets) /\ Min(minutes) > BucketStart(b)}
        rest  == buckets \ late
        early == {b \in rest : b = Max(rest) /\ Max(minutes) + 1 < BucketEnd(b)}
    IN  rest \ early

WarmupBuckets ==
    Newest(WholeBuckets(SourceMinutes, {BucketOf(m) : m \in SourceMinutes}), Limit)

(* aggregate_bars: minute candles of one bucket, in order, as one bar.     *)
BarOf(b) ==
    LET ms == {m \in SourceMinutes : BucketOf(m) = b}
    IN  [minute |-> BucketStart(b), open |-> table[Min(ms)].open,
         high |-> Max({table[m].high : m \in ms}),
         low  |-> Min({table[m].low : m \in ms}), close |-> table[Max(ms)].close]

----------------------------------------------------------------------------
(* Properties.                                                             *)

(* A stored candle is the exchange's own, unless a trade of its minute was *)
(* not taken in, in order, by the run that stored it: on its way, lost     *)
(* with a connection or with the memory of an earlier run, late for the    *)
(* flusher, or sent again by a snapshot.                                   *)
StoredIsExact ==
    \A m \in Stored : table[m] = Exact(m) \/ m \in missed
                        \/ \E k \in net : k.minute = m

(* Of broker thread and flusher one takes each minute out of memory, once: *)
(* what leaves memory is later than all that left it before in this run.   *)
TakenOnce ==
    [][\A c \in {ticked', flushed'} \ {NoCandle, ticked, flushed} :
            \A m \in taken : c.minute > m]_vars

(* A recovery or maintenance that succeeds leaves the exchange's candle of *)
(* every traded minute of its range, whatever the chunks and gaps, but for *)
(* minutes that the live service has stored again in the meantime.         *)
SyncFills ==
    [][(sync.stage # "idle" /\ sync'.stage = "idle" /\ faults' = faults) =>
         \A m \in Traded \ sync.touched :
            (StartOf(m) >= MaxOf(sync.start, sync.cutoff) /\ EndOf(m) <= sync.end)
               => table'[m] = Exact(m)]_vars

(* A bar a strategy is warmed up with is the exchange's bar of its bucket, *)
(* if the stored history has no hole: a history that begins or ends inside *)
(* a bucket gives no bar of that bucket.                                   *)
NoHole == \A m \in Traded \cap (Min(SourceMinutes)..Max(SourceMinutes)) : table[m] = Exact(m)

WarmupBarsExact ==
    \A b \in WarmupBuckets :
        LET ms == {m \in Traded : BucketOf(m) = b}
        IN  NoHole => BarOf(b) = [minute |-> BucketStart(b),
                                  open |-> Exact(Min(ms)).open,
                                  high |-> Max({Exact(m).high : m \in ms}),
                                  low  |-> Min({Exact(m).low : m \in ms}),
                                  close |-> Exact(Max(ms)).close]

(* A minute that is over leaves memory although no further tick arrives,   *)
(* unless the flusher of this run could not open its store: then it waits  *)
(* for the next tick, and the end of the run loses it.                     *)
Overdue == run = "live" /\ active # NoCandle /\ EndOf(active.minute) <= now
CandleLeavesMemory == Overdue ~> (~Overdue \/ flusher = "gone")

=============================================================================
