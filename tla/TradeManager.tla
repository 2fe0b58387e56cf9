---------------------------- MODULE TradeManager ----------------------------
(***************************************************************************)
(* The life of one trade of AdaptiveSupertrendStrategy: entry, partial     *)
(* exits, trailing stop and exit, driven by the ticks of its instrument    *)
(* and by the bars those ticks close.                                      *)
(*                                                                         *)
(* A tick is dispatched to the strategy as Tick first and then, when it    *)
(* has closed a bar, as Candles with that bar.  Each handler loads the     *)
(* trade context from SQLite, decides on the copy, and then writes one     *)
(* statement after another; an error leaves the handler, and with it the   *)
(* rest of the tick, at any of them, and the process can die at any.  The  *)
(* instrument lock admits one tick at a time.                              *)
(*                                                                         *)
(* Prices are small integers around the entry price, mirrored for a short. *)
(* The indicators that judge a bar (supertrend line, ATR, opposite flip)   *)
(* are inputs.  Fractions, realized R and signal metadata are left out:    *)
(* nothing branches on them.                                               *)
(***************************************************************************)
EXTENDS Integers, FiniteSets

CONSTANTS
    Sides,        \* subset of {"Long", "Short"}: sides the trade may have
    Modes,        \* subset of ExitModes: exit modes the SSU may have
    Risk,         \* distance of the initial stop from the entry price
    Target,       \* distance of tp1, tp2, tp3 from the entry price
    Moves,        \* distances from the entry price the market reaches
    Trail,        \* chandelier_atr_mult * atr
    BarLength,    \* duration of the strategy's timeframe
    Timeout,      \* trade_timeout_bars
    MaxTime,      \* bound: the last time a tick can have
    MaxFaults,    \* bound: failed statements and kills in a behaviour
    None          \* no bar, no context, no price

ExitModes == {"partial_book", "trail_then_exit", "trail_supertrend",
              "trail_chandelier"}
Tps == {"tp1", "tp2", "tp3"}

ASSUME ConstantsAssumption ==
    /\ Sides \subseteq {"Long", "Short"}
    /\ Modes \subseteq ExitModes
    /\ Risk \in Nat \ {0} /\ Trail \in Nat
    /\ Target \in [Tps -> Nat]   \* sort_three orders them
    /\ 0 < Target["tp1"] /\ Target["tp1"] <= Target["tp2"]
    /\ Target["tp2"] <= Target["tp3"]
    /\ Moves \subseteq Int
    /\ BarLength \in Nat \ {0} /\ Timeout \in Nat \ {0}
    /\ MaxTime \in Nat /\ MaxFaults \in Nat

VARIABLES
    side, mode,   \* SignalSide of the trade, ExitMode of its SSU
    now,          \* time of the latest tick; the entry bar ended at 0
    price,        \* its price
    bar,          \* the bar the TimeframeEngine is forming
    memory,       \* status of the position in the book
    row,          \* status of the position in virtual_position
    ctx,          \* its row of strategy_trade_context
    journal,      \* strategy_signal: the signals of this trade
    run,          \* the tick being handled
    faults,       \* failed statements and kills so far
    raised,       \* history: when the stored stop was last moved
    touched       \* history: a price has been at or beyond it since

vars == <<side, mode, now, price, bar, memory, row, ctx, journal, run, faults,
          raised, touched>>
trade == <<side, mode>>
market == <<now, price, bar>>
book == <<memory, row>>
history == <<raised, touched>>

-----------------------------------------------------------------------------
(* Prices, stops and targets (the entry price is 0).                       *)

At(distance) == IF side = "Long" THEN distance ELSE -distance
Prices == {At(d) : d \in Moves}
EntryPrice == 0
StopPrice == At(-Risk)
TpPrice(l) == At(Target[l])

PriceReached(p, target) == IF side = "Long" THEN p >= target ELSE p <= target
PriceStopped(p, stop) == IF side = "Long" THEN p <= stop ELSE p >= stop
Reached(b, target) == PriceReached(IF side = "Long" THEN b.high ELSE b.low, target)
Stopped(b, stop) == PriceStopped(IF side = "Long" THEN b.low ELSE b.high, stop)

(* Bug_Name: Name with a mistake a change of the code could make; the runs *)
(* show that the property named in PROJECT.json would catch it.           *)
Bug_FavorableStop(current, candidate) == candidate  \* the stop just follows
FavorableStop(current, candidate) ==
    IF PriceReached(candidate, current) THEN candidate ELSE current

(* Each target that is newly hit pulls the stop to the one before it.      *)
RaisedStop(stop, new) ==
    LET s1 == IF "tp1" \in new THEN FavorableStop(stop, EntryPrice) ELSE stop
        s2 == IF "tp2" \in new THEN FavorableStop(s1, TpPrice("tp1")) ELSE s1
    IN  IF "tp3" \in new /\ mode \in {"trail_supertrend", "trail_chandelier"}
          THEN FavorableStop(s2, TpPrice("tp2"))
          ELSE s2

-----------------------------------------------------------------------------
(* Bars.                                                                   *)
Bucket(t) == t \div BarLength
Bars == [bucket : 0..MaxTime, low : Int, high : Int, close : Int]
EndAt(b) == (b.bucket + 1) * BarLength
NewBar(t, p) == [bucket |-> Bucket(t), low |-> p, high |-> p, close |-> p]

(* update_series: the bar after a tick, and the bar that tick closed.      *)
Bug_Formed(b, t, p) ==    \* the new bar keeps the range of the one it closes
    IF b = None THEN NewBar(t, p)
    ELSE [bucket |-> Bucket(t), low |-> IF p < b.low THEN p ELSE b.low,
          high |-> IF p > b.high THEN p ELSE b.high, close |-> p]
Formed(b, t, p) ==
    IF b # None /\ b.bucket = Bucket(t)
      THEN [b EXCEPT !.low = IF p < @ THEN p ELSE @,
                     !.high = IF p > @ THEN p ELSE @,
                     !.close = p]
      ELSE NewBar(t, p)
Closed(b, t) == IF b # None /\ b.bucket < Bucket(t) THEN b ELSE None

-----------------------------------------------------------------------------
(* What is left to do for the tick being handled: a set of statements,     *)
(* executed in the order Before gives.  "mark" is close_position setting   *)
(* the row in memory to CLOSED, "exit" and "row" its two statements.       *)
Partials == {"tp1", "tp2"}
Opening == {"entry", "insert", "save"}
Bug_Closing == {"mark", "exit", "row"}  \* the context is not deleted
Closing == {"mark", "exit", "row", "delete"}
Ops == Opening \cup Partials \cup Closing \cup {"update"}
Before == [entry |-> {}, insert |-> {"entry"}, save |-> {"insert"},
           tp1 |-> {}, tp2 |-> {"tp1"}, update |-> Partials,
           mark |-> Partials, exit |-> {"mark"}, row |-> {"exit"},
           delete |-> {"row"}]

Reasons == {"tp3", "stop", "timeout", "opposite_flip", "supertrend_trail"}

(* The metadata of a trade context: the hit flags, active_stop_price and   *)
(* trail_high_since_tp3 (trail_low_since_tp3).                             *)
Contexts == [hit : SUBSET Tps, stop : Int, peak : Int \cup {None}]
Signals == [type : {"entry", "exit"} \cup Partials, at : Int,
            reason : Reasons \cup {None}]

(* at: time of the Tick, or end of the bar of the Candles; closed: the bar *)
(* whose Candles are still to come; judged: since when the prices that are *)
(* judged were traded.                                                     *)
Handlers == [pc : {"idle", "tick", "bar", "write"}, at : Int,
             closed : Bars \cup {None}, todo : SUBSET Ops,
             ctx : Contexts \cup {None}, reason : Reasons \cup {None},
             judged : Int]
ASSUME NoneAssumption ==
    /\ None \notin Int /\ None \notin Bars
    /\ None \notin Contexts /\ None \notin Reasons

Idle == [pc |-> "idle", at |-> 0, closed |-> None, todo |-> {}, ctx |-> None,
         reason |-> None, judged |-> 0]

Settled(r) ==
    CASE r.todo # {} -> [r EXCEPT !.pc = "write"]
      [] r.todo = {} /\ r.closed # None ->
            [Idle EXCEPT !.pc = "bar", !.closed = r.closed]
      [] OTHER -> Idle

TypeOK ==
    /\ side \in Sides /\ mode \in Modes
    /\ now \in 0..MaxTime /\ price \in Prices
    /\ bar \in Bars \cup {None}
    /\ memory \in {"none", "open", "closed"}
    /\ row \in {"none", "open", "closed"}
    /\ ctx \in Contexts \cup {None}
    /\ journal \subseteq Signals
    /\ run \in Handlers
    /\ faults \in 0..MaxFaults
    /\ raised \in 0..MaxTime /\ touched \in BOOLEAN

-----------------------------------------------------------------------------
(* The entry has been accepted at the close of its bar, by the tick that   *)
(* opens the next one.                                                     *)
NewContext == [hit |-> {}, stop |-> StopPrice, peak |-> None]

Init ==
    /\ side \in Sides /\ mode \in Modes
    /\ now = 0 /\ price \in Prices /\ bar = NewBar(0, price)
    /\ memory = "none" /\ row = "none" /\ ctx = None /\ journal = {}
    /\ run = [Idle EXCEPT !.pc = "write", !.todo = Opening, !.ctx = NewContext]
    /\ faults = 0
    /\ raised = 0 /\ touched = FALSE

(* StrategyRuntime::on_tick: the engine takes the price before the         *)
(* strategies see it.                                                      *)
Tick ==
    /\ run.pc = "idle"
    /\ \E t \in now..MaxTime, p \in Prices :
        /\ now' = t /\ price' = p /\ bar' = Formed(bar, t, p)
        /\ run' = [Idle EXCEPT !.pc = "tick", !.at = t, !.closed = Closed(bar, t)]
        /\ touched' = (touched \/ (ctx # None /\ PriceStopped(p, ctx.stop)))
    /\ UNCHANGED <<trade, book, ctx, journal, faults, raised>>

(* What a handler decided: the statements to write, and the context the    *)
(* "update" among them stores.                                             *)
Plan(todo, hit, stop, peak, reason) ==
    [todo |-> todo, reason |-> reason,
     ctx |-> [hit |-> hit, stop |-> stop, peak |-> peak]]
Bug_Exiting(reason, partials, otherwise) ==   \* partials, or else an update
    IF reason # None THEN partials \cup Closing
    ELSE IF partials # {} THEN partials ELSE otherwise
Bug2_Exiting(reason, partials, otherwise) ==  \* partials, or else an exit
    IF reason # None THEN Closing ELSE partials \cup otherwise
Exiting(reason, partials, otherwise) ==
    partials \cup (IF reason = None THEN otherwise ELSE Closing)

TickPlan(c, p) ==
    LET reached == {l \in Tps : PriceReached(p, TpPrice(l))}
        new == reached \ c.hit
        hit == c.hit \cup new
        update == IF hit = {} THEN {} ELSE {"update"}
    IN  CASE PriceStopped(p, IF mode = "partial_book" THEN StopPrice ELSE c.stop) ->
               Plan(Closing, c.hit, c.stop, c.peak, "stop")
          [] mode = "partial_book" /\ ~PriceStopped(p, StopPrice) ->
               LET reason == IF "tp3" \in reached THEN "tp3" ELSE None
               IN  Plan(Exiting(reason, new \cap Partials, update),
                        hit, c.stop, c.peak, reason)
          [] OTHER ->
               LET reason == IF mode = "trail_then_exit" /\ "tp3" \in new
                               THEN "tp3" ELSE None
               IN  Plan(Exiting(reason, {}, update),
                        hit, RaisedStop(c.stop, new), c.peak, reason)

(* A closed bar: partial_book looks at the targets before the stop, the    *)
(* trailing modes at the stop first.                                       *)
FirstOf(stopped, expired, flip) ==
    CASE stopped -> "stop"
      [] ~stopped /\ expired -> "timeout"
      [] ~stopped /\ ~expired /\ flip -> "opposite_flip"
      [] OTHER -> None

PartialBookPlan(c, b, expired, flip) ==
    LET new == {l \in Tps : Reached(b, TpPrice(l))} \ c.hit
        hit == c.hit \cup new
        reason == IF "tp3" \in hit THEN "tp3"
                  ELSE FirstOf(Stopped(b, StopPrice), expired, flip)
    IN  Plan(Exiting(reason, new \cap Partials, {"update"}),
             hit, c.stop, c.peak, reason)

Peak(c, b) ==
    LET extreme == IF side = "Long" THEN b.high ELSE b.low
    IN  IF c.peak # None /\ PriceReached(c.peak, extreme) THEN c.peak ELSE extreme

TrailingPlan(c, b, expired, flip, line, atr) ==
    LET out == Stopped(b, c.stop)
        new == IF out THEN {} ELSE {l \in Tps : Reached(b, TpPrice(l))} \ c.hit
        hit == c.hit \cup new
        done == out \/ (mode = "trail_then_exit" /\ "tp3" \in new)
        trailing == ~done /\ "tp3" \in hit
        s1 == RaisedStop(c.stop, new)
        supertrend == trailing /\ mode = "trail_supertrend"
        chandelier == trailing /\ mode = "trail_chandelier" /\ atr > 0
        peak == IF chandelier THEN Peak(c, b) ELSE c.peak
        stop == CASE supertrend -> FavorableStop(s1, line)
                  [] chandelier -> FavorableStop(s1, peak - At(atr))
                  [] OTHER -> s1
        reason == CASE out -> "stop"
                    [] done /\ ~out -> "tp3"
                    [] supertrend /\ b.close # line /\ PriceStopped(b.close, line) ->
                         "supertrend_trail"
                    [] OTHER -> FirstOf(FALSE, expired, flip)
    IN  Plan(Exiting(reason, {}, {"update"}), hit, stop, peak, reason)

Bug_Managed ==   \* an exit signal counts as an exit
    memory = "open" /\ ctx # None /\ \A g \in journal : g.type # "exit"
Managed == memory = "open" /\ ctx # None

(* manage_open_positions_on_tick. *)
ManageTick ==
    /\ run.pc = "tick"
    /\ run' = IF Managed /\ run.at > 0
                THEN LET plan == TickPlan(ctx, price)
                     IN  Settled([run EXCEPT !.todo = plan.todo, !.ctx = plan.ctx,
                                             !.reason = plan.reason,
                                             !.judged = run.at])
                ELSE Settled(run)
    /\ UNCHANGED <<trade, market, book, ctx, journal, faults, history>>

(* manage_open_positions, for any state the indicators may be in. *)
ManageBar ==
    /\ run.pc = "bar"
    /\ \E flip \in BOOLEAN, line \in Prices, atr \in {0, Trail} :
        LET b == run.closed
            expired == EndAt(b) >= Timeout * BarLength
            plan == IF mode = "partial_book"
                      THEN PartialBookPlan(ctx, b, expired, flip)
                      ELSE TrailingPlan(ctx, b, expired, flip, line, atr)
        IN  run' = IF Managed /\ EndAt(b) > 0
                     THEN Settled([run EXCEPT !.at = EndAt(b), !.closed = None,
                                              !.todo = plan.todo, !.ctx = plan.ctx,
                                              !.reason = plan.reason,
                                              !.judged = EndAt(b) - BarLength])
                     ELSE Idle
    /\ UNCHANGED <<trade, market, book, ctx, journal, faults, history>>

-----------------------------------------------------------------------------
(* The statements of a plan.                                               *)
Ready(op) == run.pc = "write" /\ op \in run.todo /\ run.todo \cap Before[op] = {}
Done(op) == run' = Settled([run EXCEPT !.todo = @ \ {op}])
IdFree(op) == \A g \in journal : g.type # op \/ g.at # run.at

(* persist_signal, for an entry, a partial exit or an exit. *)
PersistSignal(op) ==
    /\ Ready(op) /\ IdFree(op)
    /\ journal' = journal \cup {[type |-> op, at |-> run.at, reason |-> run.reason]}
    /\ Done(op)
    /\ UNCHANGED <<trade, market, book, ctx, faults, history>>

(* persist_open_position and the insert into memory. *)
InsertPosition ==
    /\ Ready("insert")
    /\ row' = "open" /\ memory' = "open"
    /\ Done("insert")
    /\ UNCHANGED <<trade, market, ctx, journal, faults, history>>

(* save_context, and update_context of the decided values. *)
WriteContext(op) ==
    /\ Ready(op)
    /\ ctx' = run.ctx
    /\ IF op = "update" /\ ctx.stop # run.ctx.stop
         THEN /\ raised' = now
              /\ touched' = PriceStopped(price, run.ctx.stop)
         ELSE UNCHANGED history
    /\ Done(op)
    /\ UNCHANGED <<trade, market, book, journal, faults>>

MarkClosed ==
    /\ Ready("mark")
    /\ memory' = "closed"
    /\ Done("mark")
    /\ UNCHANGED <<trade, market, row, ctx, journal, faults, history>>

(* persist_close_position. *)
WriteClosed ==
    /\ Ready("row")
    /\ row' = "closed"
    /\ Done("row")
    /\ UNCHANGED <<trade, market, memory, ctx, journal, faults, history>>

DeleteContext ==
    /\ Ready("delete")
    /\ ctx' = None
    /\ Done("delete")
    /\ UNCHANGED <<trade, market, book, journal, faults, history>>

(* The id of the signal is taken (strategy_signal has it as primary key):  *)
(* the error ends the handling of the tick.                                *)
IdTaken(op) ==
    /\ Ready(op) /\ ~IdFree(op)
    /\ run' = Idle
    /\ UNCHANGED <<trade, market, book, ctx, journal, faults, history>>

(* A read or a write fails, here or for an SSU that is dispatched before   *)
(* this one: `?` ends the handling of the tick, the Candles of the bar it  *)
(* closed included.                                                        *)
SqlFails ==
    /\ run.pc # "idle" /\ ~Ready("mark")
    /\ faults < MaxFaults /\ faults' = faults + 1
    /\ run' = Idle
    /\ UNCHANGED <<trade, market, book, ctx, journal, history>>

(* The process dies and starts again: the book is loaded from SQLite, the  *)
(* bar being formed is lost.                                               *)
Restart ==
    /\ faults < MaxFaults /\ faults' = faults + 1
    /\ memory' = row /\ bar' = None /\ run' = Idle
    /\ UNCHANGED <<trade, now, price, row, ctx, journal, history>>

Handle ==
    \/ ManageTick \/ ManageBar
    \/ \E op \in {"entry", "exit"} \cup Partials : PersistSignal(op) \/ IdTaken(op)
    \/ InsertPosition
    \/ \E op \in {"save", "update"} : WriteContext(op)
    \/ MarkClosed \/ WriteClosed \/ DeleteContext

Next == Tick \/ Handle \/ SqlFails \/ Restart

(* The feed goes on and a handler that has begun does not stop by itself.  *)
Spec == Init /\ [][Next]_vars /\ WF_vars(Tick) /\ WF_vars(Handle)

-----------------------------------------------------------------------------
Booked(l) == {g \in journal : g.type = l}

(* A target is booked once, and once more for each failure or kill: the    *)
(* flag that says so is stored after the signal, by a statement of its own.*)
BookedOncePerFault == \A l \in Partials : Cardinality(Booked(l)) <= 1 + faults

(* A stored flag of partial_book never runs ahead of its signal: the share *)
(* it takes off the remaining position was booked.                         *)
StoredHitsAreBooked ==
    mode = "partial_book" /\ ctx # None =>
        \A l \in ctx.hit \cap Partials : Booked(l) # {}

(* A trade of partial_book that ends at tp3 has booked tp1 and tp2, on     *)
(* whichever ticks and bars they were reached and whatever failed between. *)
Tp3BooksTheRest ==
    mode = "partial_book" /\ (\E g \in Booked("exit") : g.reason = "tp3") =>
        \A l \in Partials : Booked(l) # {}

(* What partial_book believes to have booked, in its flags or by ending at *)
(* tp3, it has booked.                                                     *)
TargetsAreBooked == StoredHitsAreBooked /\ Tp3BooksTheRest

(* Between two ticks without a fault, a position has a context exactly as  *)
(* long as it is open: no open position is left unmanaged.                 *)
OpenIsManaged ==
    faults = 0 /\ run.pc = "idle" => (memory = "open" <=> ctx # None)

(* The stored stop only moves toward profit and the stored flags only get  *)
(* set, through ticks, bars that are judged after newer ticks, failures    *)
(* and kills.                                                              *)
StopNeverLoosens ==
    [][ctx # None /\ ctx' # None =>
        /\ PriceReached(ctx'.stop, ctx.stop)
        /\ ctx.hit \subseteq ctx'.hit]_vars

(* A stop exit means that the market was at the stop: some price has been  *)
(* at or beyond it since it was moved there.  The exception is the bar in  *)
(* which, or after which, it was moved: that one is judged whole, earlier  *)
(* prices included (and so a trade can be stopped out by a price from      *)
(* before its stop was raised).                                            *)
StopExitIsTouched ==
    run.pc = "write" /\ run.reason = "stop" => touched \/ raised >= run.judged

(* If the market stays beyond the initial stop, an open trade that has its *)
(* context is closed in memory in the end, whatever fails on the way.      *)
StopIsTaken ==
    <>[](now > 0 /\ PriceStopped(price, StopPrice))
        => <>[](memory = "open" => ctx = None)
=============================================================================
