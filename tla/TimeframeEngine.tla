-------------------------- MODULE TimeframeEngine ---------------------------
(***************************************************************************)
(* SharedTimeframeEngine for one instrument: the bars it forms of ticks,   *)
(* the recent closed ones it keeps, the EMAs of the SSUs, and how          *)
(* reload_ssus warms all of it up from the stored history.                 *)
(*                                                                         *)
(* Every method takes the engine's lock once, and a reload keeps ticks out *)
(* (StrategyRuntime has these locks), so each is one action.  Time is      *)
(* counted from the anchor of the instrument's alignment.  Of a closed bar *)
(* the series keeps its end; what an EMA is worth is left out, and the     *)
(* bars it was computed from are kept instead, and of a strategy's         *)
(* indicator state (IndicatorState) the bars it has processed.  No handler *)
(* fails here.  FormedBars is what it promises of the bars.                *)
(***************************************************************************)
EXTENDS FormedBars, SequencesExt

CONSTANTS
    PeriodOf,      \* the period of its EMA
    Prices,
    DayLen,        \* length of a day
    SessionClose,  \* session_close_offset_seconds, or None
    MaxRecent,     \* max_recent_bars (recent_bars)
    WarmupBars,    \* warmup_bars
    StateCapacity, \* state_capacity() of the strategies
    MaxTime,       \* bound: the clock
    MaxLag,        \* bound: how old a tick may be
    MaxTicks,      \* bound: ticks
    MaxReloads,    \* bound: calls of reload_ssus
    None

Bars == [start : Int, end : Int, open : Prices, high : Prices, low : Prices, close : Prices]

(* Several bars are kept: the code has 1000, 1000 and at least 64.         *)
ASSUME EngineAssumption ==
    /\ Prices \subseteq Int
    /\ Timeframes \subseteq Nat \ {0} /\ IsFiniteSet(Ssus)
    /\ \A s \in Ssus : PeriodOf[s] \in Nat \ {0}
    /\ DayLen \in Nat \ {0} /\ SessionClose \in {None} \cup 1..DayLen
    /\ {MaxRecent, WarmupBars, StateCapacity} \subseteq Nat \ {0, 1}
    /\ {MaxTime, MaxLag, MaxTicks, MaxReloads} \subseteq Nat
    /\ None \notin Int \cup Bars

VARIABLES
    now,        \* the clock
    historyEnd, \* up to where minutes are stored in SQLite
    registered, \* EngineState.registrations
    reload,     \* what the admin thread is doing in reload_ssus
    ticks, reloads

observers == <<heard, announced>>
ssus == <<active, states, settled>>
vars == <<now, historyEnd, series, registered, indicator, reload, ssus,
          observers, ticks, reloads>>

Required == {TimeframeOf[s] : s \in registered}
-----------------------------------------------------------------------------
(* Buckets and bars.                                                       *)

(* bucket_bounds: a bucket that a session closes in ends there, for a time *)
(* before the close.                                                       *)
EndOf(tf, at) ==
    LET start == StartOf(tf, at)
        close == (start \div DayLen) * DayLen + SessionClose
    IN  IF SessionClose # None /\ at < close /\ close < start + tf
        THEN close ELSE start + tf

NewBar(tf, at, ltp) ==
    [start |-> StartOf(tf, at), end |-> EndOf(tf, at),
     open |-> ltp, high |-> ltp, low |-> ltp, close |-> ltp]

Extended(bar, ltp) ==
    [bar EXCEPT !.high = IF ltp > @ THEN ltp ELSE @,
                !.low = IF ltp < @ THEN ltp ELSE @,
                !.close = ltp]

(* The last n of a sequence, as recent_bars counts them.                   *)
Recent(bars, n) ==
    SubSeq(bars, IF Len(bars) > n THEN Len(bars) - n + 1 ELSE 1, Len(bars))

(* merge_closed_bar                                                        *)
Merged(closed, end) ==
    IF closed # <<>> /\ Last(closed) = end THEN closed
    ELSE Recent(Append(closed, end), MaxRecent)

(* Whether update_series closes the current bar; at any other bucket, too. *)
Bug_Closes(tf, at) ==
    /\ tf \in Required /\ series[tf].current # None
    /\ series[tf].current.start # StartOf(tf, at)

Closes(tf, at) ==
    /\ tf \in Required /\ series[tf].current # None
    /\ series[tf].current.start < StartOf(tf, at)

(* A late tick goes into the bar that is forming.                          *)
Bug_Updated(tf, at, ltp) ==
    LET current == series[tf].current
    IN  IF current = None
        THEN [series[tf] EXCEPT !.current = NewBar(tf, at, ltp)]
        ELSE IF Closes(tf, at)
        THEN [current |-> NewBar(tf, at, ltp),
              closed  |-> Merged(series[tf].closed, current.end)]
        ELSE [series[tf] EXCEPT !.current = Extended(@, ltp)]

(* update_series: a tick of an older bucket changes nothing.               *)
Updated(tf, at, ltp) ==
    LET current == series[tf].current
    IN  CASE current = None ->
                 [series[tf] EXCEPT !.current = NewBar(tf, at, ltp)]
          [] current # None /\ Closes(tf, at) ->
                 [current |-> NewBar(tf, at, ltp),
                  closed  |-> Merged(series[tf].closed, current.end)]
          [] current # None /\ current.start = StartOf(tf, at) ->
                 [series[tf] EXCEPT !.current = Extended(@, ltp)]
          [] OTHER -> series[tf]
-----------------------------------------------------------------------------
(* Indicators, and the states of the strategies.                           *)

NoIndicator == [applied |-> <<>>, lastClosed |-> None]

(* IndicatorRuntime: last_closed_at is None while the EMA is being seeded. *)
Applied(s, ind, end) ==
    LET longer == Append(ind.applied, end)
    IN  IF ind.lastClosed # None /\ end <= ind.lastClosed THEN ind
        ELSE [applied    |-> longer,
              lastClosed |-> IF Len(longer) >= PeriodOf[s] THEN end ELSE None]

(* on_closed_bar of the strategy's state: only bars that end later.        *)
Processed(ends, end) ==
    IF ends # <<>> /\ end <= Last(ends) THEN ends ELSE Append(ends, end)

(* replay_warmup_bars: into an empty state, what recent_bars has.          *)
Replayed(closed, before) ==
    FoldLeft(LAMBDA ends, end : IF end < before THEN Processed(ends, end) ELSE ends,
             <<>>, Recent(closed, StateCapacity))

(* A state that is replayed takes the bar itself to be among the replayed. *)
Bug_Advanced(ends, closed) ==
    IF ends = <<>> THEN Replayed(closed, Last(closed))
    ELSE Processed(ends, Last(closed))

(* advance_state with the bar that last_closed_bar gives.                  *)
Advanced(ends, closed) ==
    LET end == Last(closed)
    IN  Processed(IF ends = <<>> THEN Replayed(closed, end) ELSE ends, end)

(* load_bars: the newest whole bars of the minutes stored.                 *)
InSession(at) == SessionClose = None \/ at % DayLen < SessionClose

WithBar(tf, bars, end) ==
    IF \E at \in 0..(end - 1) : InSession(at) /\ EndOf(tf, at) = end
    THEN Append(bars, end) ELSE bars

LoadBars(tf, upTo) ==
    Recent(FoldLeft(LAMBDA bars, end : WithBar(tf, bars, end), <<>>,
                    [end \in 1..upTo |-> end]),
           WarmupBars)
-----------------------------------------------------------------------------
Init ==
    /\ now = 0 /\ historyEnd = 0
    /\ series = [tf \in Timeframes |-> [current |-> None, closed |-> <<>>]]
    /\ registered = {} /\ indicator = [s \in Ssus |-> NoIndicator]
    /\ reload = None
    /\ active = {} /\ states = [s \in Ssus |-> <<>>] /\ settled = FALSE
    /\ heard = [tf \in Timeframes |-> <<>>]
    /\ announced = [tf \in Timeframes |-> <<>>]
    /\ ticks = 0 /\ reloads = 0

Pass ==
    /\ now < MaxTime
    /\ now' = now + 1
    /\ UNCHANGED <<historyEnd, series, registered, indicator, reload, ssus,
                   observers, ticks, reloads>>

(* The candle service, a recovery or a maintenance stores what was traded. *)
StoreHistory ==
    /\ historyEnd < now
    /\ historyEnd' = now
    /\ UNCHANGED <<now, series, registered, indicator, reload, ssus, observers,
                   ticks, reloads>>

(* on_tick, and the Candles event for the bars it closed.                  *)
Tick(at, ltp) ==
    /\ reload = None /\ ticks < MaxTicks /\ at <= now
    /\ ticks' = ticks + 1
    /\ series' = [tf \in Timeframes |->
           IF tf \in Required THEN Updated(tf, at, ltp) ELSE series[tf]]
    /\ indicator' = [s \in Ssus |->
           LET tf == TimeframeOf[s]
           IN  IF s \in registered /\ Closes(tf, at)
               THEN Applied(s, indicator[s], series[tf].current.end)
               ELSE indicator[s]]
    /\ states' = [s \in Ssus |->
           LET tf == TimeframeOf[s]
           IN  IF s \in active /\ Closes(tf, at)
               THEN Advanced(states[s], series'[tf].closed)
               ELSE states[s]]
    /\ heard' = [tf \in Timeframes |->
           IF tf \in Required THEN Append(heard[tf], [at |-> at, price |-> ltp])
           ELSE heard[tf]]
    /\ announced' = [tf \in Timeframes |->
           IF Closes(tf, at) THEN Append(announced[tf], series[tf].current)
           ELSE announced[tf]]
    /\ UNCHANGED <<now, historyEnd, registered, reload, active, settled, reloads>>

(* The rows are read and reset_ssus clears all but the series.             *)
BeginReload(rows) ==
    /\ reload = None /\ reloads < MaxReloads
    /\ reloads' = reloads + 1
    /\ reload' = [todo |-> rows, loaded |-> {}, from |-> historyEnd,
                  states |-> [s \in Ssus |-> <<>>]]
    /\ registered' = {}
    /\ indicator' = [s \in Ssus |-> NoIndicator]
    /\ settled' = FALSE
    /\ UNCHANGED <<now, historyEnd, series, active, states, observers, ticks>>

(* register_ssu, the warmup of the engine, and that of a new strategy.     *)
LoadSsu(s) ==
    /\ reload # None /\ s \in reload.todo
    /\ LET tf == TimeframeOf[s]
           existing == Recent(series[tf].closed, WarmupBars)
           bars == IF existing = <<>> THEN LoadBars(tf, historyEnd) ELSE existing
           closed == FoldLeft(Merged, series[tf].closed, bars)
       IN  /\ series' = [series EXCEPT ![tf].closed = closed]
           /\ indicator' = [indicator EXCEPT ![s] =
                  FoldLeft(LAMBDA ind, end : Applied(s, ind, end), @, bars)]
           /\ reload' = [reload EXCEPT
                  !.todo = @ \ {s}, !.loaded = @ \cup {s},
                  !.states[s] = FoldLeft(Processed, <<>>, Recent(closed, StateCapacity))]
    /\ registered' = registered \cup {s}
    /\ UNCHANGED <<now, historyEnd, ssus, observers, ticks, reloads>>

Install ==
    /\ reload # None /\ reload.todo = {}
    /\ active' = reload.loaded
    /\ states' = reload.states
    /\ settled' = (historyEnd = reload.from)
    /\ reload' = None
    /\ UNCHANGED <<now, historyEnd, series, registered, indicator, observers,
                   ticks, reloads>>

(* The factory does not know a strategy, or one of its warmups fails: its   *)
(* SSU is registered or not.                                               *)
AbortReload ==
    /\ reload # None
    /\ registered' \in {registered} \cup {registered \cup {s} : s \in reload.todo}
    /\ reload' = None
    /\ UNCHANGED <<now, historyEnd, series, indicator, ssus, observers, ticks,
                   reloads>>

Next ==
    \/ Pass \/ StoreHistory \/ Install \/ AbortReload
    \/ \E at \in 0..MaxTime, ltp \in Prices : at >= now - MaxLag /\ Tick(at, ltp)
    \/ \E rows \in SUBSET Ssus : BeginReload(rows)
    \/ \E s \in Ssus : LoadSsu(s)

Spec == Init /\ [][Next]_vars
-----------------------------------------------------------------------------
Ascends(ends) == \A k \in 2..Len(ends) : ends[k - 1] < ends[k]

(* `TimeframeEngine` maintains recent closed bars                          *)
(* (docs/strategy_v1_contract.md:12): in order, and each of them once.     *)
RecentInOrder == \A tf \in Timeframes : Ascends(series[tf].closed)
=============================================================================
