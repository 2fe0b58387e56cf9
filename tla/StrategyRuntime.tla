-------------------------- MODULE StrategyRuntime --------------------------
(***************************************************************************)
(* StrategyRuntime as live trading uses it: broker threads call on_tick    *)
(* while the admin thread calls reload_ssus.                               *)
(*                                                                         *)
(* on_tick takes the lock of the instrument, then the lifecycle gate for   *)
(* reading, feeds the tick to the TimeframeEngine, dispatches Tick to the  *)
(* active SSUs and then, if the tick closed a bar, Candles.  reload_ssus   *)
(* holds the gate for writing: it clears the registrations of the engine,  *)
(* registers and warms up the SSUs of the table one by one and installs    *)
(* them at the end; `?` leaves it anywhere in between.                     *)
(*                                                                         *)
(* Bars are numbered per instrument and timeframe.  The first StoredBars   *)
(* are older than all that the engine closes, and SQLite has as many of    *)
(* the latest ones as a warmup happens to find; the engine closes the      *)
(* others in order (a bar that no registered SSU required has no number).  *)
(* A series is the sequence of numbers that recent_bars of the engine      *)
(* reads, a reload's copies included.  What an SSU does with an event      *)
(* beyond its indicators is TradeManager and PositionBook.                 *)
(***************************************************************************)
EXTENDS Naturals, Sequences, FiniteSets

CONSTANTS
    Brokers,      \* feeder threads
    Instruments,  \* instruments they have ticks of
    Triggering,   \* the ones whose ticks are dispatched to strategies
    Warmed,       \* warmup_spot_instruments
    Ssus,         \* ids of the rows of strategy_ssu
    TimeframeOf,  \* the timeframe each SSU requires
    WarmupBars,   \* warmup_bars: how many a reload warms the engine with
    MaxRecent,    \* max_recent_bars: how many a series keeps
    StateCapacity, \* state_capacity: how many a warmup replays
    StoredBars,   \* bound: bars closed before the process began
    MaxBars,      \* bound: the number of the last bar
    MaxReloads,   \* bound: calls of reload_ssus, the first one included
    MaxFaults,    \* bound: failures of event handlers and of warmups
    NoBroker

Timeframes == {TimeframeOf[s] : s \in Ssus}

ASSUME ConstantsAssumption ==
    /\ Triggering \subseteq Instruments
    /\ Warmed \subseteq Instruments
    /\ Ssus \subseteq Nat /\ IsFiniteSet(Ssus)
    /\ WarmupBars \in Nat \ {0} /\ MaxRecent \in Nat \ {0} /\ StateCapacity \in Nat \ {0}
    /\ MaxBars \in Nat /\ StoredBars \in 0..MaxBars /\ StoredBars <= WarmupBars
    /\ MaxReloads \in Nat \ {0} /\ MaxFaults \in Nat
    /\ NoBroker \notin Brokers

VARIABLES
    call,         \* what each broker thread is doing in on_tick
    holder,       \* instrument_locks: which thread holds each
    readers,      \* lifecycle_gate: the threads that hold it for reading
    reload,       \* what the admin thread is doing in reload_ssus
    active,       \* active_ssus
    generation,   \* which successful reload made their Strategy instances
    seen,         \* AdaptiveSupertrendState: the bars it was computed from
    registered,   \* EngineState.registrations
    forming,      \* the timeframes of each instrument that have a current bar
    closed,       \* the number of the latest bar that has closed
    series,       \* TimeframeSeries.closed
    reloads, faults

vars == <<call, holder, readers, reload, active, generation, seen, registered,
          forming, closed, series, reloads, faults>>
ssus == <<active, generation>>
engine == <<registered, forming, closed, series>>

Bars == 1..MaxBars
Seen == [Ssus -> [Instruments -> SUBSET Bars]]
Required == {TimeframeOf[s] : s \in registered}

NoCall == [pc |-> "idle", instrument |-> NoBroker, event |-> "tick", bars |-> {},
           shut |-> {}, todo |-> {}, generation |-> 0]
NoReload == [pc |-> "idle", todo |-> {}, bad |-> {}, loaded |-> {},
             seen |-> [s \in Ssus |-> [i \in Instruments |-> {}]]]

Calls == [pc : {"idle", "lock", "gate", "engine", "dispatch", "deliver"},
          instrument : Instruments \cup {NoBroker}, event : {"tick", "candles"},
          bars : SUBSET (Timeframes \X Bars), shut : SUBSET Timeframes,
          todo : SUBSET Ssus, generation : 0..MaxReloads]
Reloads == [pc : {"idle", "wait", "load", "reset", "register"},
            todo : SUBSET Ssus, bad : SUBSET Ssus, loaded : SUBSET Ssus,
            seen : Seen]

TypeOK ==
    /\ call \in [Brokers -> Calls]
    /\ holder \in [Instruments -> Brokers \cup {NoBroker}]
    /\ readers \subseteq Brokers
    /\ reload \in Reloads
    /\ active \subseteq Ssus /\ generation \in 0..MaxReloads
    /\ seen \in Seen
    /\ registered \subseteq Ssus
    /\ forming \in [Instruments -> SUBSET Timeframes]
    /\ closed \in [Instruments -> [Timeframes -> StoredBars..MaxBars]]
    /\ series \in [Instruments -> [Timeframes -> Seq(Bars)]]
    /\ reloads \in 0..MaxReloads /\ faults \in 0..MaxFaults

-----------------------------------------------------------------------------
(* The lifecycle gate: a thread that waits to write keeps new readers out  *)
(* (std's RwLock on Linux).  Bug_Name: Name with a mistake a change of the *)
(* code could make.                                                        *)
Bug_MayRead == reload.pc \in {"idle", "wait"}  \* readers pass a waiting writer
MayRead == reload.pc = "idle"
Bug_MayWrite == TRUE                           \* reload_ssus without the gate
MayWrite == readers = {}

Bug_MayLock(i) == TRUE                         \* on_tick without the lock
MayLock(i) == holder[i] = NoBroker

-----------------------------------------------------------------------------
(* The series of an instrument and timeframe.                              *)

(* recent_bars, and the end of merge_closed_bar: the last ones.            *)
Recent(bars, count) ==
    IF Len(bars) <= count THEN bars ELSE SubSeq(bars, Len(bars) - count + 1, Len(bars))

(* merge_closed_bar of each of the new bars: one that is the last of the   *)
(* series already is left out, which only the first can be.                *)
Merged(bars, new) ==
    Recent(IF bars # <<>> /\ new # <<>> /\ Head(new) = bars[Len(bars)]
             THEN bars \o Tail(new) ELSE bars \o new, MaxRecent)

(* Warming the engine for an SSU: load_bars finds `found' candles in       *)
(* SQLite, if the engine has none; its own are merged into themselves.     *)
Rewarmed(bars, found) ==
    Merged(bars, IF bars = <<>> THEN [n \in 1..found |-> StoredBars - found + n]
                 ELSE Recent(bars, WarmupBars))

WarmedSeries(tf, instruments, found) ==
    [i \in Instruments |-> [series[i] EXCEPT ![tf] =
        IF i \in instruments THEN Rewarmed(@, found[i]) ELSE @]]

-----------------------------------------------------------------------------
(* The state of a strategy instance.                                       *)

(* replay_warmup_bars: of the last bars before a given one, those that are *)
(* newer than all before them; on_closed_bar ignores the others.           *)
Replayed(bars, before) ==
    LET last == Recent(bars, StateCapacity)
    IN  {last[k] : k \in {j \in DOMAIN last :
            /\ last[j] < before
            /\ \A m \in 1..(j - 1) : last[m] < before => last[m] < last[j]}}

(* advance_state: an empty state replays the earlier bars; a bar that is   *)
(* not newer than the last one is ignored.                                 *)
Advanced(bars, recent, n) ==
    IF bars = {} THEN Replayed(recent, n) \cup {n}
    ELSE IF \A m \in bars : m < n THEN bars \cup {n} ELSE bars

(* Candles goes to every active SSU; the ones of another timeframe skip it.*)
Handled(b, s) ==
    LET i == call[b].instrument
        new == {bar[2] : bar \in {x \in call[b].bars : x[1] = TimeframeOf[s]}}
    IN  IF call[b].event = "tick" \/ new = {} THEN seen
        ELSE [seen EXCEPT ![s][i] =
                Advanced(@, series[i][TimeframeOf[s]], CHOOSE n \in new : TRUE)]

-----------------------------------------------------------------------------
(* start_strategy_runtime is in its first reload: no feed runs before that *)
(* has succeeded, and the process ends if it fails.                        *)
Started == generation > 0

Init ==
    /\ call = [b \in Brokers |-> NoCall]
    /\ holder = [i \in Instruments |-> NoBroker]
    /\ readers = {}
    /\ reload = [NoReload EXCEPT !.pc = "load"] /\ reloads = 1
    /\ active = {} /\ registered = {} /\ generation = 0
    /\ seen = [s \in Ssus |-> [i \in Instruments |-> {}]]
    /\ forming = [i \in Instruments |-> {}]
    /\ closed = [i \in Instruments |-> [tf \in Timeframes |-> StoredBars]]
    /\ series = [i \in Instruments |-> [tf \in Timeframes |-> <<>>]]
    /\ faults = 0

-----------------------------------------------------------------------------
(* on_tick, by broker thread b.                                            *)

Tick(b) ==
    /\ Started /\ call[b].pc = "idle"
    /\ \E i \in Instruments :
         call' = [call EXCEPT ![b] = [NoCall EXCEPT !.pc = "lock", !.instrument = i]]
    /\ UNCHANGED <<holder, readers, reload, ssus, seen, engine, reloads, faults>>

Lock(b) ==
    /\ call[b].pc = "lock" /\ MayLock(call[b].instrument)
    /\ holder' = [holder EXCEPT ![call[b].instrument] = b]
    /\ call' = [call EXCEPT ![b].pc = "gate"]
    /\ UNCHANGED <<readers, reload, ssus, seen, engine, reloads, faults>>

Enter(b) ==
    /\ call[b].pc = "gate" /\ MayRead
    /\ readers' = readers \cup {b}
    /\ call' = [call EXCEPT ![b].pc = "engine"]
    /\ UNCHANGED <<holder, reload, ssus, seen, engine, reloads, faults>>

(* on_tick ends, with Ok or with an error: the guards are dropped. *)
Leave(b) ==
    /\ call' = [call EXCEPT ![b] = NoCall]
    /\ readers' = readers \ {b}
    /\ holder' = [holder EXCEPT ![call[b].instrument] = NoBroker]

(* TimeframeEngine::on_tick: every required timeframe gets a current bar,  *)
(* and the ones that had one may have it closed by this tick.              *)
Form(b) ==
    LET i == call[b].instrument
    IN  /\ call[b].pc = "engine"
        /\ \E shut \in SUBSET (Required \cap forming[i]) :
             /\ \A tf \in shut : closed[i][tf] < MaxBars
             /\ closed' = [closed EXCEPT ![i] =
                  [tf \in Timeframes |-> IF tf \in shut THEN @[tf] + 1 ELSE @[tf]]]
             /\ series' = [series EXCEPT ![i] =
                  [tf \in Timeframes |->
                     IF tf \in shut THEN Merged(@[tf], <<closed[i][tf] + 1>>) ELSE @[tf]]]
             /\ IF i \in Triggering
                  THEN /\ call' = [call EXCEPT ![b].pc = "dispatch",
                                               ![b].shut = shut]
                       /\ UNCHANGED <<readers, holder>>
                  ELSE Leave(b)
        /\ forming' = [forming EXCEPT ![i] = @ \cup Required]
        /\ UNCHANGED <<reload, ssus, seen, registered, reloads, faults>>

(* dispatch_market_event clones active_ssus. *)
Dispatch(b) ==
    /\ call[b].pc = "dispatch"
    /\ call' = [call EXCEPT ![b].pc = "deliver", ![b].todo = active,
                            ![b].generation = generation]
    /\ UNCHANGED <<holder, readers, reload, ssus, seen, engine, reloads, faults>>

(* on_market_event of the next SSU in the order of ssu_id. *)
NextSsu(todo) == CHOOSE s \in todo : \A t \in todo : s <= t
Deliver(b) ==
    LET s == NextSsu(call[b].todo)
    IN  /\ call[b].pc = "deliver" /\ call[b].todo # {}
        /\ seen' = IF call[b].generation = generation THEN Handled(b, s) ELSE seen
        /\ call' = [call EXCEPT ![b].todo = @ \ {s}]
        /\ UNCHANGED <<holder, readers, reload, ssus, engine, reloads, faults>>

(* All SSUs had the Tick: candle_snapshot_from_update reads the last bar   *)
(* of each timeframe that was closed, and Candles is dispatched.           *)
Collect(b) ==
    LET i == call[b].instrument
    IN  /\ call[b].pc = "deliver" /\ call[b].todo = {} /\ call[b].event = "tick"
        /\ call[b].shut # {}
        /\ call' = [call EXCEPT ![b].pc = "dispatch", ![b].event = "candles",
                      ![b].shut = {},
                      ![b].bars = {<<tf, closed[i][tf]>> : tf \in call[b].shut}]
        /\ UNCHANGED <<holder, readers, reload, ssus, seen, engine, reloads, faults>>

Return(b) ==
    /\ call[b].pc = "deliver" /\ call[b].todo = {} /\ call[b].shut = {}
    /\ Leave(b)
    /\ UNCHANGED <<reload, ssus, seen, engine, reloads, faults>>

(* on_market_event fails, before or after its indicators took the bar: the *)
(* other SSUs, and the Candles if this was the Tick, are left out.         *)
Fail(b) ==
    /\ call[b].pc = "deliver" /\ call[b].todo # {}
    /\ faults < MaxFaults /\ faults' = faults + 1
    /\ seen' \in {seen, IF call[b].generation = generation
                          THEN Handled(b, NextSsu(call[b].todo)) ELSE seen}
    /\ Leave(b)
    /\ UNCHANGED <<reload, ssus, engine, reloads>>

-----------------------------------------------------------------------------
(* reload_ssus, by the admin thread.                                       *)

Request ==
    /\ reload.pc = "idle" /\ reloads < MaxReloads
    /\ reloads' = reloads + 1
    /\ reload' = [reload EXCEPT !.pc = "wait"]
    /\ UNCHANGED <<call, holder, readers, ssus, seen, engine, faults>>

AcquireGate ==
    /\ reload.pc = "wait" /\ MayWrite
    /\ reload' = [reload EXCEPT !.pc = "load"]
    /\ UNCHANGED <<call, holder, readers, ssus, seen, engine, reloads, faults>>

(* load_active_ssus: the rows enabled now, some with a strategy_key, an    *)
(* indicator or parameters the program does not accept.                    *)
LoadRows ==
    /\ reload.pc = "load"
    /\ \E rows \in SUBSET Ssus : \E bad \in SUBSET rows :
         /\ Started \/ bad = {}
         /\ reload' = [reload EXCEPT !.pc = "reset", !.todo = rows, !.bad = bad]
    /\ UNCHANGED <<call, holder, readers, ssus, seen, engine, reloads, faults>>

Bug_Reset == UNCHANGED registered              \* stale registrations stay
Reset == registered' = {}
ResetSsus ==
    /\ reload.pc = "reset"
    /\ Reset
    /\ reload' = [reload EXCEPT !.pc = "register"]
    /\ UNCHANGED <<call, holder, readers, ssus, seen, forming, closed, series,
                   reloads, faults>>

(* register_ssu; then for each instrument recent_bars or load_bars, the    *)
(* warmup of the engine and the one of the strategy.                       *)
Register(s, instruments) ==
    /\ registered' = registered \cup {s}
    /\ \E found \in [Instruments -> 0..StoredBars] :
         series' = WarmedSeries(TimeframeOf[s], instruments, found)

LoadSsu ==
    LET s == NextSsu(reload.todo)
    IN  /\ reload.pc = "register" /\ reload.todo # {} /\ s \notin reload.bad
        /\ Register(s, Warmed)
        /\ reload' = [reload EXCEPT !.todo = @ \ {s}, !.loaded = @ \cup {s},
             !.seen = [@ EXCEPT ![s] = [i \in Instruments |->
                 IF i \in Warmed THEN Replayed(series'[i][TimeframeOf[s]], MaxBars + 1)
                 ELSE {}]]]
        /\ UNCHANGED <<call, holder, readers, ssus, seen, forming, closed, reloads,
                       faults>>

(* A row that is not accepted, or a read that fails, ends the reload: the  *)
(* SSUs that were active stay so, and the series keep what was merged.     *)
AbortReload ==
    /\ Started
    /\ \/ /\ reload.pc = "load"
          /\ faults < MaxFaults /\ faults' = faults + 1
          /\ UNCHANGED <<registered, series>>
       \/ /\ reload.pc = "register" /\ reload.todo # {}
          /\ IF NextSsu(reload.todo) \in reload.bad THEN UNCHANGED faults
             ELSE faults < MaxFaults /\ faults' = faults + 1
          /\ \/ UNCHANGED <<registered, series>>
             \/ \E done \in SUBSET Warmed : Register(NextSsu(reload.todo), done)
    /\ reload' = NoReload
    /\ UNCHANGED <<call, holder, readers, ssus, seen, forming, closed, reloads>>

Install ==
    /\ reload.pc = "register" /\ reload.todo = {}
    /\ active' = reload.loaded /\ seen' = reload.seen
    /\ generation' = generation + 1
    /\ reload' = NoReload
    /\ UNCHANGED <<call, holder, readers, engine, reloads, faults>>

-----------------------------------------------------------------------------
(* What a thread does once it holds the instrument lock, and what reload   *)
(* does once it was asked to.                                              *)
Handling(b) ==
    \/ Enter(b) \/ Form(b) \/ Dispatch(b) \/ Deliver(b) \/ Collect(b) \/ Return(b)
    \/ Fail(b)
Reloading ==
    \/ AcquireGate \/ LoadRows \/ ResetSsus \/ LoadSsu \/ AbortReload \/ Install

Next ==
    \/ \E b \in Brokers : Tick(b) \/ Lock(b) \/ Handling(b)
    \/ Request \/ Reloading

(* A handler that has begun runs on, and so does a reload.  Nothing is     *)
(* assumed of ticks, requests or of who gets a lock that two threads want. *)
Spec ==
    /\ Init /\ [][Next]_vars
    /\ \A b \in Brokers : WF_vars(Handling(b))
    /\ WF_vars(Reloading)

-----------------------------------------------------------------------------
(* A strategy instance that a reload has replaced handles no event: the    *)
(* SSUs a thread is dispatching to are the active ones, made by the latest *)
(* successful reload.                                                      *)
InstancesAreCurrent ==
    \A b \in Brokers : call[b].pc = "deliver" =>
        call[b].generation = generation /\ call[b].todo \subseteq active

(* Reloads and rival broker threads leave no hole in what an SSU has seen: *)
(* where nothing of the instrument is being handled, the indicators of an  *)
(* active SSU were computed from every bar from their first one on to the  *)
(* latest, except for one bar at most per handler that failed (which they  *)
(* never catch up with).  Which bar is the first depends on the copies     *)
(* that reloads left in the series; that there is no hole does not.  One   *)
(* that has seen nothing of a warmed instrument missed every live bar.     *)
Missed(s, i) ==
    {n \in 1..closed[i][TimeframeOf[s]] :
        \/ \E m \in seen[s][i] : m < n
        \/ seen[s][i] = {} /\ i \in Warmed /\ n > StoredBars} \ seen[s][i]
BarsAreSeen ==
    \A s \in active, i \in Triggering :
        holder[i] = NoBroker => Cardinality(Missed(s, i)) <= faults

(* A reload that was asked for ends, however many ticks keep coming.       *)
ReloadEnds == reload.pc = "wait" ~> reload.pc = "idle"

(* What a reload installs is what the engine forms bars for, whatever the  *)
(* reloads that failed before it had cleared or left behind.               *)
InstalledIsRegistered ==
    [][generation' # generation => registered' = active']_vars

(* docs/strategy_v1_contract.md:12, `TimeframeEngine` maintains live       *)
(* forming bars for SSU-required timeframes: outside a reload, a tick      *)
(* forms bars of every timeframe that an active SSU requires.              *)
ActiveIsRegistered ==
    reload.pc \in {"idle", "wait"} => {TimeframeOf[s] : s \in active} \subseteq Required
=============================================================================
