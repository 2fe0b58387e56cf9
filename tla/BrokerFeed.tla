----------------------------- MODULE BrokerFeed -----------------------------
(***************************************************************************)
(* One supervised broker thread, of any of the four brokers: it connects,  *)
(* subscribes the spot symbols, hands every tick to the strategies and the *)
(* latest-price file, and subscribes the derivatives around each spot      *)
(* price, again whenever the spot has moved far enough from its anchor.    *)
(*                                                                         *)
(* The brokers run the same loop in different orders; `todo' holds what is *)
(* left of the call in progress, so that each may fail at any of its       *)
(* steps.  An error drops everything but the files and, at DB              *)
(* International, whose subscriptions belong to the login, what the server *)
(* sends.  The server handles requests when it gets to them, and ticks it  *)
(* sent before an unsubscription arrive after it.                          *)
(*                                                                         *)
(* Left out: the candle service and the recovery (CandleHistory), what the *)
(* strategies do (StrategyRuntime), max_events (0 in production), and wire *)
(* formats.  Instruments of an underlying trade at the price of its spot.  *)
(***************************************************************************)
EXTENDS Integers, Sequences, FiniteSets, SequencesExt

CONSTANTS
    Brokers,    \* subset of {"DELTA", "FYERS", "DB", "ANGEL"}
    Unders,     \* underlyings, one spot symbol each
    FileUnder,  \* the one underlying of the latest-price file of DELTA
    Prices,     \* spot prices; the strikes are the same numbers
    Trigger,    \* refresh_trigger_pct
    Width,      \* strike distance
    Errors,     \* the kinds of failure of each broker: "config", "transient"
    Notifier,   \* the notifications of each broker: "muted", "no_sink", "sink"
    MaxMoves,   \* bound on price and session changes, by broker
    MaxNet,     \* bound on the ticks on their way, by broker
    MaxFaults,  \* bound on failures, by broker
    None

ASSUME FeedAssumption ==
    /\ Brokers \subseteq {"DELTA", "FYERS", "DB", "ANGEL"} /\ Brokers # {}
    /\ FileUnder \in Unders /\ IsFiniteSet(Unders) /\ IsFiniteSet(Prices)
    /\ Prices \subseteq Nat \ {0} /\ Prices # {} /\ Trigger \in Nat \ {0} /\ Width \in Nat
    /\ Errors \in [Brokers -> (SUBSET {"config", "transient"}) \ {{}}]
    /\ Notifier \in [Brokers -> {"muted", "no_sink", "sink"}]
    /\ MaxMoves \in [Brokers -> Nat] /\ MaxNet \in [Brokers -> Nat \ {0}]
    /\ MaxFaults \in [Brokers -> Nat]

Spot(u) == <<u, 0>>
Spots == {Spot(u) : u \in Unders}
Derivatives(u) == {<<u, k>> : k \in Prices}
Symbols == Spots \cup UNION {Derivatives(u) : u \in Unders}

(* Ticks as they are parsed, changes of a universe, topics of FYERS.       *)
Events == [symbol : Symbols, price : Prices, named : BOOLEAN]
Changes == [under : Unders, subscribe : SUBSET Symbols, unsubscribe : SUBSET Symbols]
TopicStates == [named : BOOLEAN, price : Prices]

ASSUME NoneAssumption ==
    None # "down" /\ None \notin Prices \cup Events \cup Changes \cup TopicStates

Abs(n) == IF n < 0 THEN -n ELSE n

(* selected_trading_symbols of the summary built at a price, and the one   *)
(* of its options that is nearest to the price.                            *)
Selected(u, p) == {<<u, k>> : k \in {x \in Prices : Abs(x - p) <= Width}}
Nearest(u, p) == <<u, CHOOSE k \in Prices : \A x \in Prices : Abs(k - p) <= Abs(x - p)>>

VARIABLES
    broker,     \* which broker this is
    market,     \* the price of each underlying
    open,       \* underlyings whose exchange is in session
    moves,      \* changes of market and open so far
    phase,      \* "starting" or "live" in run_live, "waiting" to retry
    todo,       \* steps left of the call in progress
    hand,       \* the tick being handled
    change,     \* the subscription diff being applied
    anchor,     \* UniverseRefreshState.anchor_price
    wanted,     \* UniverseRefreshState.active_symbols
    summaries,  \* active_summaries, by the price they were built at
    current,    \* ANGEL: active_reference_keys
    active,     \* the feeder's own set of subscribed symbols
    topics,     \* FYERS: the parser's state of each topic
    requests,   \* requests the server has not handled
    server,     \* symbols the server sends ticks of
    owed,       \* FYERS: symbols whose snapshot has not been sent
    net,        \* ticks sent and not received
    pending,    \* ticks parsed and not handled
    rows,       \* the latest-price file
    csv,        \* the derivatives file
    relogged,   \* DB: this run_live has logged in again
    alert,      \* FailureState of this broker
    told,       \* observer: what the last notification that arrived said
    lost,       \* observer: the last notification did not arrive
    last,       \* observer: last price handled of each symbol in this run
    faults

environment == <<market, open, moves>>
universe == <<anchor, wanted, summaries, current>>
wire == <<requests, server, owed, net>>
files == <<rows, csv>>
news == <<alert, told, lost>>
status == <<relogged, news, faults>>
vars == <<broker, environment, phase, todo, hand, change, universe, active, topics,
          wire, pending, files, status, last>>

NoneOf(S) == [x \in S |-> None]

Init ==
    /\ broker \in Brokers
    /\ market \in [Unders -> {CHOOSE p \in Prices : \A x \in Prices : p <= x}]
    /\ open = Unders /\ moves = 0
    /\ phase = "waiting" /\ todo = <<>> /\ hand = None /\ change = None
    /\ anchor = NoneOf(Unders) /\ wanted = [u \in Unders |-> {}]
    /\ summaries = NoneOf(Unders) /\ current = {}
    /\ active = {} /\ topics = NoneOf(Symbols)
    /\ requests = <<>> /\ server = {} /\ owed = {} /\ net = <<>> /\ pending = <<>>
    /\ rows = <<>> /\ csv = {}
    /\ alert = [active |-> FALSE, message |-> None] /\ told = None /\ lost = FALSE
    /\ relogged = FALSE /\ last = NoneOf(Symbols) /\ faults = 0

----------------------------------------------------------------------------
(* The exchange and the server.                                            *)

Move ==
    /\ moves < MaxMoves[broker] /\ moves' = moves + 1
    /\ \/ \E u \in open : \E p \in Prices \ {market[u]} :
             market' = [market EXCEPT ![u] = p] /\ UNCHANGED open
       \/ \E u \in Unders :
             /\ open' = IF u \in open THEN open \ {u} ELSE open \cup {u}
             /\ UNCHANGED market
    /\ UNCHANGED <<broker, phase, todo, hand, change, universe, active, topics, wire,
                   pending, files, status, last>>

Served(S, request) == IF request.op = "subscribe" THEN S \cup request.symbols
                      ELSE S \ request.symbols

HandleRequest ==
    /\ requests # <<>>
    /\ requests' = Tail(requests)
    /\ server' = Served(server, Head(requests))
    /\ owed' = IF broker = "FYERS" THEN Served(owed, Head(requests)) ELSE owed
    /\ UNCHANGED <<broker, environment, phase, todo, hand, change, universe, active,
                   topics, net, pending, files, status, last>>

Connected == "connect" \notin ToSet(todo) /\ phase # "waiting"

(* A tick.  FYERS sends a snapshot with the name of the topic first, then  *)
(* updates that hold only its number.                                      *)
SendTick(s) ==
    /\ Connected /\ s \in server /\ s[1] \in open /\ Len(net) < MaxNet[broker]
    /\ net' = Append(net, [symbol |-> s, price |-> market[s[1]], snapshot |-> s \in owed])
    /\ owed' = owed \ {s}
    /\ UNCHANGED <<broker, environment, phase, todo, hand, change, universe, active,
                   topics, requests, server, pending, files, status, last>>

----------------------------------------------------------------------------
(* The feeders.                                                            *)

(* A symbol the feeder has no name for keeps the broker's own.             *)
Event(m, named) == [symbol |-> m.symbol, price |-> m.price, named |-> named]

(* parse_snapshot, parse_lite_update: the topic's state after a message.   *)
Topic(m) ==
    IF m.snapshot THEN [named |-> m.symbol \in active, price |-> m.price]
    ELSE IF topics[m.symbol] = None THEN None
    ELSE [topics[m.symbol] EXCEPT !.price = m.price]

(* An update of an unknown topic or of the price it has is no event.       *)
FyersEvents(m) ==
    IF Topic(m) = None \/ (~m.snapshot /\ Topic(m) = topics[m.symbol]) THEN <<>>
    ELSE <<Event(m, Topic(m).named)>>

DeltaEvents(m) == <<Event(m, TRUE)>>
DbEvents(m) == <<Event(m, m.symbol \in active)>>
AngelEvents(m) == <<Event(m, m.symbol \in active)>>

Parsed(m) ==
    CASE broker = "FYERS" -> FyersEvents(m)
      [] broker = "DELTA" -> DeltaEvents(m)
      [] broker = "DB"    -> DbEvents(m)
      [] broker = "ANGEL" -> AngelEvents(m)

(* next_price_event reads when nothing parsed is left.  A frame of FYERS   *)
(* holds several messages, parsed before anything else is done.  DB        *)
(* International's socket thread reads at any time.                        *)
MayRead == IF broker = "DB" THEN Connected /\ Len(pending) < MaxNet[broker]
           ELSE phase = "live" /\ todo = <<>> /\ pending = <<>>

InFrame == todo # <<>> /\ Head(todo) = "frame"

Receive ==
    LET m == Head(net) IN
    /\ net # <<>> /\ (MayRead \/ InFrame)
    /\ net' = Tail(net)
    /\ topics' = IF broker = "FYERS" THEN [topics EXCEPT ![m.symbol] = Topic(m)] ELSE topics
    /\ pending' = pending \o Parsed(m)
    /\ \/ todo' = IF InFrame THEN <<>> ELSE todo
       \/ broker = "FYERS" /\ net' # <<>> /\ todo' = <<"frame">>
    /\ UNCHANGED <<broker, environment, phase, hand, change, universe, active,
                   requests, server, owed, files, status, last>>

(* subscribe_symbols and its namesakes: what is not subscribed yet.  DB    *)
(* International's requests are HTTP calls, handled when they return, with *)
(* a quote of each symbol that was not subscribed before.                  *)
Quotes(S) == SetToSeq({Event([symbol |-> s, price |-> market[s[1]]], TRUE) : s \in S \ server})

SubscribeCall(new) ==
    /\ server' = server \cup new /\ pending' = pending \o Quotes(new)
    /\ UNCHANGED requests

UnsubscribeCall(old) == server' = server \ old /\ UNCHANGED <<requests, pending>>

(* The others send a message.                                              *)
Message(op, S) == IF S = {} THEN <<>> ELSE <<[op |-> op, symbols |-> S]>>

Send(op, S) == requests' = requests \o Message(op, S) /\ UNCHANGED <<server, pending>>

Subscribe(S) ==
    LET new == S \ active IN
    /\ active' = active \cup new
    /\ IF broker = "DB" THEN SubscribeCall(new) ELSE Send("subscribe", new)
    /\ UNCHANGED <<owed, net, topics>>

(* The feeder forgets a symbol it has not told the server about.           *)
Bug_Unsubscribe(S) ==
    /\ active' = active \ S
    /\ UNCHANGED <<requests, server, owed, net, pending, topics>>

Unsubscribe(S) ==
    LET old == S \cap active IN
    /\ active' = active \ old
    /\ topics' = [s \in Symbols |-> IF s \in old THEN None ELSE topics[s]]
    /\ IF broker = "DB" THEN UnsubscribeCall(old) ELSE Send("unsubscribe", old)
    /\ UNCHANGED <<owed, net>>

----------------------------------------------------------------------------
(* The latest-price file: a price per slot.  DELTA and FYERS keep slots    *)
(* for a spot and its nearest option, the others one for every symbol.     *)

Slotted == broker \in {"DELTA", "FYERS"}

FileUnders == IF broker = "DELTA" THEN {FileUnder} ELSE Unders

Row(s) == [symbol |-> s, price |-> None]

(* build_latest_price_file.                                                *)
FirstSymbols ==
    CASE Slotted -> {Spot(u) : u \in FileUnders}
      [] broker = "DB" -> Spots
      [] OTHER -> {}
InitialRows == [s \in FirstSymbols |-> Row(s)]

(* The slot keeps its price when the nearest option changes.               *)
Bug_RowsWithTarget(u, s) ==
    IF u \notin FileUnders THEN rows
    ELSE LET old == IF u \in DOMAIN rows THEN rows[u] ELSE Row(s)
             new == [old EXCEPT !.symbol = s]
         IN  [x \in DOMAIN rows \cup {u} |-> IF x = u THEN new ELSE rows[x]]

(* update_targets_from_summary: a new target has no price yet.             *)
RowsWithTarget(u, s) ==
    IF u \notin FileUnders \/ (u \in DOMAIN rows /\ rows[u].symbol = s) THEN rows
    ELSE [x \in DOMAIN rows \cup {u} |-> IF x = u THEN Row(s) ELSE rows[x]]

(* set_symbols: exactly these symbols, with the prices known of them.      *)
RowsOf(S) == [s \in S |-> IF s \in DOMAIN rows THEN rows[s] ELSE Row(s)]

(* update_tick.                                                            *)
RowsWithPrice(s, p) ==
    [x \in DOMAIN rows |-> IF rows[x].symbol = s THEN [rows[x] EXCEPT !.price = p] ELSE rows[x]]

----------------------------------------------------------------------------
(* The run: connect, subscribe the spots, then tick after tick.            *)

(* run_live of each broker up to its loop.                                 *)
DeltaStart == <<"connect", "file", "spots", "recovered">>
FyersStart == <<"session", "connect", "file", "spots", "recovered">>
DbStart == <<"file", "connect", "spots", "recovered">>
AngelStart == <<"file", "empty_csv", "connect", "recovered">>

StartSteps ==
    [DELTA |-> DeltaStart, FYERS |-> FyersStart, DB |-> DbStart, ANGEL |-> AngelStart][broker]

(* A turn of the loop, and the refresh of a universe.                      *)
SlottedTick == <<"strategy", "prices", "spot">>
ListedTick == <<"prices", "strategy", "spot">>
TickSteps == IF Slotted THEN SlottedTick ELSE ListedTick

SlottedRefresh == <<"subscribe", "unsubscribe", "targets", "csv">>
ListedRefresh == <<"unsubscribe", "subscribe", "csv", "targets">>
RefreshSteps == IF Slotted THEN SlottedRefresh ELSE ListedRefresh

At(name) == todo # <<>> /\ Head(todo) = name
Step(name) == At(name) /\ todo' = Tail(todo)

(* wait_for_any_exchange_session.                                          *)
AwaitSession ==
    /\ Step("session") /\ open # {}
    /\ UNCHANGED <<broker, environment, phase, hand, change, universe, active, topics,
                   wire, pending, files, status, last>>

(* The server may have kept the subscriptions of DB International's login. *)
Connect ==
    /\ Step("connect")
    /\ \E kept \in {{}, server} : server' = IF broker = "DB" THEN kept ELSE {}
    /\ UNCHANGED <<broker, environment, phase, hand, change, universe, active, topics,
                   requests, owed, net, pending, files, status, last>>

StartFile ==
    /\ Step("file")
    /\ rows' = InitialRows
    /\ UNCHANGED <<broker, environment, phase, hand, change, universe, active, topics,
                   wire, pending, csv, status, last>>

StartCsv ==
    /\ Step("empty_csv")
    /\ csv' = {}
    /\ UNCHANGED <<broker, environment, phase, hand, change, universe, active, topics,
                   wire, pending, rows, status, last>>

SubscribeSpots ==
    /\ Step("spots")
    /\ Subscribe(Spots)
    /\ UNCHANGED <<broker, environment, phase, hand, change, universe, files, status, last>>

(* send: with no sink it does nothing, and an error of Telegram is only    *)
(* logged; the state of the failure has changed by then.                   *)
Sent(message) ==
    \E arrives \in (IF Notifier[broker] = "sink" THEN BOOLEAN ELSE {FALSE}) :
        /\ told' = IF arrives THEN message ELSE told
        /\ lost' = ~arrives

(* The minimum severity is above the AlertSeverity::Error of a broker.     *)
Muted == Notifier[broker] = "muted"

(* A failure is the same as the last one, whatever happened in between.    *)
Bug_NotifyFailure(message, recent) ==
    LET known == alert.message = message /\ recent IN
    IF Muted \/ known THEN UNCHANGED news
    ELSE alert' = [active |-> TRUE, message |-> message] /\ Sent("down")

(* notify_failure: sent unless the same failure is active and recent.      *)
NotifyFailure(message, recent) ==
    LET known == alert.active /\ alert.message = message /\ recent IN
    IF Muted \/ known THEN UNCHANGED news
    ELSE alert' = [active |-> TRUE, message |-> message] /\ Sent("down")

NotifyRecovery ==
    IF ~alert.active THEN UNCHANGED news
    ELSE alert' = [alert EXCEPT !.active = FALSE] /\ Sent("up")

Recovered ==
    /\ Step("recovered")
    /\ NotifyRecovery
    /\ phase' = "live"
    /\ UNCHANGED <<broker, environment, hand, change, universe, active, topics, wire,
                   pending, files, relogged, faults, last>>

(* The symbols selected for the summaries there are.                       *)
AllSelected(built) == UNION {Selected(u, built[u]) : u \in {x \in Unders : built[x] # None}}

(* DB International lists the spots it has a summary of.                   *)
Bug_Tracked == {Spot(u) : u \in {x \in Unders : summaries[x] # None}} \cup AllSelected(summaries)

(* tracked_symbols, active_price_symbols: the spots, at ANGEL those in     *)
(* session, and what is selected.  At ANGEL they name the ticks.           *)
Tracked ==
    (IF broker = "ANGEL" THEN {Spot(u) : u \in current} ELSE Spots) \cup AllSelected(summaries)

Take ==
    LET e == Head(pending)
        kept == broker = "ANGEL" => e.named /\ e.symbol \in Tracked IN
    /\ phase = "live" /\ todo = <<>> /\ pending # <<>>
    /\ pending' = Tail(pending)
    /\ hand' = IF kept THEN e ELSE None
    /\ todo' = IF kept THEN TickSteps ELSE <<>>
    /\ last' = IF kept /\ e.named THEN [last EXCEPT ![e.symbol] = e.price] ELSE last
    /\ UNCHANGED <<broker, environment, phase, change, universe, active, topics, wire,
                   files, status>>

(* strategy_runtime.on_tick.                                               *)
RunStrategy ==
    /\ Step("strategy")
    /\ UNCHANGED <<broker, environment, phase, hand, change, universe, active, topics,
                   wire, pending, files, status, last>>

UpdatePrices ==
    /\ Step("prices")
    /\ rows' = IF hand.named THEN RowsWithPrice(hand.symbol, hand.price) ELSE rows
    /\ UNCHANGED <<broker, environment, phase, hand, change, universe, active, topics,
                   wire, pending, csv, status, last>>

(* on_underlying_price.                                                    *)
Moved(from, to) == Abs(to - from) * 100 >= Trigger * from

Refreshes(u, p) == anchor[u] # None => Moved(anchor[u], p)

(* The anchor stays where it was first set.                                *)
Bug_OnUnderlyingPrice(u, p) ==
    /\ Refreshes(u, p)
    /\ anchor' = [anchor EXCEPT ![u] = IF @ = None THEN p ELSE @]

OnUnderlyingPrice(u, p) ==
    /\ Refreshes(u, p)
    /\ anchor' = [anchor EXCEPT ![u] = p]

(* apply_symbols.                                                          *)
ApplySymbols(u, next) ==
    /\ wanted' = [wanted EXCEPT ![u] = next]
    /\ change' = [under |-> u, subscribe |-> next \ wanted[u], unsubscribe |-> wanted[u] \ next]

IsReference(s) == s \in Spots /\ (broker = "ANGEL" => s[1] \in current)

(* handle_spot_tick: a refresh, or nothing more to do.                     *)
HandleSpotTick ==
    LET u == hand.symbol[1] IN
    /\ At("spot")
    /\ \/ /\ hand.named /\ IsReference(hand.symbol)
          /\ OnUnderlyingPrice(u, hand.price)
          /\ ApplySymbols(u, Selected(u, hand.price))
          /\ todo' = RefreshSteps
          /\ UNCHANGED hand
       \/ /\ ~(hand.named /\ IsReference(hand.symbol) /\ Refreshes(u, hand.price))
          /\ todo' = <<>> /\ hand' = None
          /\ UNCHANGED <<anchor, wanted, change>>
    /\ UNCHANGED <<broker, environment, phase, summaries, current, active, topics, wire,
                   pending, files, status, last>>

RefreshSubscribe ==
    /\ Step("subscribe")
    /\ Subscribe(change.subscribe)
    /\ UNCHANGED <<broker, environment, phase, hand, change, universe, files, status, last>>

RefreshUnsubscribe ==
    /\ Step("unsubscribe")
    /\ Unsubscribe(change.unsubscribe)
    /\ UNCHANGED <<broker, environment, phase, hand, change, universe, files, status, last>>

(* The last step of a tick forgets it.                                     *)
Forget == IF todo' = <<>> THEN hand' = None /\ change' = None ELSE UNCHANGED <<hand, change>>

UpdateTargets ==
    /\ Step("targets")
    /\ rows' = IF Slotted THEN RowsWithTarget(change.under, Nearest(change.under, hand.price))
               ELSE RowsOf(Tracked)
    /\ Forget
    /\ UNCHANGED <<broker, environment, phase, universe, active, topics, wire, pending, csv,
                   status, last>>

(* write_active_derivatives_csv of all summaries.                          *)
WriteCsv ==
    /\ Step("csv")
    /\ summaries' = [summaries EXCEPT ![change.under] = hand.price]
    /\ csv' = AllSelected(summaries')
    /\ Forget
    /\ UNCHANGED <<broker, environment, phase, anchor, wanted, current, active, topics, wire,
                   pending, rows, status, last>>

(* ANGEL, before each read: a closed exchange loses its universe and its   *)
(* spot, an opened one gets its spot.                                      *)
ApplySessionState ==
    LET closing == current \ open
        opening == open \ current
        old == {Spot(u) : u \in closing} \cup UNION {wanted[u] : u \in closing} IN
    /\ broker = "ANGEL" /\ phase = "live" /\ todo = <<>> /\ current # open
    /\ current' = open
    /\ anchor' = [u \in Unders |-> IF u \in closing THEN None ELSE anchor[u]]
    /\ wanted' = [u \in Unders |-> IF u \in closing THEN {} ELSE wanted[u]]
    /\ summaries' = [u \in Unders |-> IF u \in closing THEN None ELSE summaries[u]]
    /\ requests' = requests \o Message("unsubscribe", old \cap active)
                            \o Message("subscribe", {Spot(u) : u \in opening} \ active)
    /\ active' = (active \ old) \cup {Spot(u) : u \in opening}
    /\ csv' = AllSelected(summaries')
    /\ rows' = RowsOf({Spot(u) : u \in open} \cup csv')
    /\ UNCHANGED <<broker, environment, phase, todo, hand, change, topics, server, owed, net,
                   pending, status, last>>

----------------------------------------------------------------------------
(* The end of a run.                                                       *)

Drop ==
    /\ hand' = None /\ change' = None
    /\ anchor' = NoneOf(Unders) /\ wanted' = [u \in Unders |-> {}]
    /\ summaries' = NoneOf(Unders) /\ current' = {}
    /\ active' = {} /\ topics' = NoneOf(Symbols)
    /\ requests' = <<>> /\ net' = <<>> /\ pending' = <<>> /\ owed' = {}
    /\ last' = NoneOf(Symbols)

(* Any step may fail, so may the connection between two ticks.             *)
Fails ==
    /\ phase # "waiting" /\ faults < MaxFaults[broker] /\ faults' = faults + 1
    /\ Drop
    /\ phase' = "waiting" /\ todo' = <<>>
    /\ \E message \in Errors[broker], recent \in BOOLEAN : NotifyFailure(message, recent)
    /\ UNCHANGED <<broker, environment, server, files, relogged>>

(* run_live of DB International: the first time the socket rejects the     *)
(* login it logs in again and starts over by itself.                       *)
SessionRejected ==
    /\ broker = "DB" /\ Connected /\ ~relogged
    /\ faults < MaxFaults[broker] /\ faults' = faults + 1
    /\ Drop
    /\ phase' = "starting" /\ todo' = StartSteps /\ relogged' = TRUE
    /\ UNCHANGED <<broker, environment, server, files, news>>

(* Only an error of the network is tried again.                            *)
Bug_Retry ==
    /\ phase = "waiting" /\ alert.message # "config"
    /\ phase' = "starting" /\ todo' = StartSteps /\ relogged' = FALSE
    /\ UNCHANGED <<broker, environment, hand, change, universe, active, topics, wire,
                   pending, files, news, faults, last>>

(* supervise_broker, after its delay.                                      *)
Retry ==
    /\ phase = "waiting"
    /\ phase' = "starting" /\ todo' = StartSteps /\ relogged' = FALSE
    /\ UNCHANGED <<broker, environment, hand, change, universe, active, topics, wire,
                   pending, files, news, faults, last>>

Steps ==
    \/ AwaitSession \/ Connect \/ StartFile \/ StartCsv \/ SubscribeSpots \/ Recovered
    \/ RunStrategy \/ UpdatePrices \/ HandleSpotTick
    \/ RefreshSubscribe \/ RefreshUnsubscribe \/ UpdateTargets \/ WriteCsv

Next ==
    \/ Move \/ HandleRequest \/ (\E s \in Symbols : SendTick(s)) \/ Receive \/ Take
    \/ Steps \/ ApplySessionState \/ Fails \/ SessionRejected \/ Retry

(* The broker thread goes on with its call, and retries.                   *)
Spec == Init /\ [][Next]_vars /\ WF_vars(Steps) /\ WF_vars(Retry)

----------------------------------------------------------------------------
(* Properties.                                                             *)

Idle == phase = "live" /\ todo = <<>>

(* Between two ticks the derivatives subscribed for an underlying are the  *)
(* ones around its anchor, from which its last spot tick is not a refresh  *)
(* away, whatever was subscribed before.                                   *)
UniverseFollowsSpot ==
    Idle => \A u \in Unders :
        anchor[u] # None => /\ active \cap Derivatives(u) = Selected(u, anchor[u])
                            /\ ~Moved(anchor[u], last[Spot(u)])

(* Once it has handled the requests on their way, the server sends what    *)
(* the feeder believes it has subscribed: nothing is left subscribed or    *)
(* unsubscribed by mistake.  Only a login of DB International may keep     *)
(* symbols of an earlier run.                                              *)
Naming(s) == {i \in DOMAIN requests : s \in requests[i].symbols}
WillServe ==
    {s \in Symbols : \/ s \in server /\ Naming(s) = {}
                     \/ \E i \in Naming(s) : /\ requests[i].op = "subscribe"
                                            /\ \A k \in Naming(s) : k <= i}

ServerAgrees ==
    Connected => /\ active \subseteq WillServe
                 /\ broker # "DB" => WillServe = active

(* A price in the latest-price file is the last one handled of the symbol  *)
(* its row stands for, not of the one the row stood for before.            *)
RowsAreCurrent ==
    Idle => \A x \in DOMAIN rows :
        rows[x].price # None => rows[x].price = last[rows[x].symbol]

(* Between two ticks the derivatives file holds what is subscribed, once   *)
(* every subscribed underlying has its universe in this run.               *)
CsvIsSubscribed ==
    (Idle /\ \A u \in Unders : Spot(u) \in active => summaries[u] # None)
        => csv = active \ Spots

(* Whatever universe is refreshed, the file of DB International keeps its  *)
(* spots, each with the last price handled.                                *)
SpotsAreListed ==
    (Idle /\ broker = "DB") =>
        \A s \in Spots : s \in DOMAIN rows /\ rows[s].price = last[s]

(* The files other programs read say what the feed knows.                  *)
FilesAgree == RowsAreCurrent /\ SpotsAreListed /\ CsvIsSubscribed

(* Whoever reads the notifications knows whether the feed is down, unless  *)
(* Telegram did not take the last one or the severity is muted: each       *)
(* outage is announced, and each recovery, although repeated failures are  *)
(* left out.  A notification that is lost is not sent again.               *)
OperatorKnows ==
    ~lost => /\ phase = "live" => told # "down"
             /\ (phase = "waiting" /\ faults > 0 /\ ~Muted) => told = "down"

(* A run that has failed is followed by a live one, if exchanges open.     *)
RunResumes == (phase = "waiting") ~> (phase = "live" \/ open = {})

=============================================================================
