-------------------------- MODULE BrokerFeed_proofs --------------------------
(***************************************************************************)
(* What a supervised broker thread keeps for any number of underlyings,    *)
(* strikes and failures: the subscriptions around the anchor, what the     *)
(* server sends, the rows of the latest-price file, the derivatives file,  *)
(* and what the operator has been told.                                    *)
(***************************************************************************)
EXTENDS BrokerFeed, FiniteSetTheorems, SequenceTheorems, WellFoundedInduction, TLAPS

-----------------------------------------------------------------------------
(* The inductive invariant.                                                *)

Requests == [op : {"subscribe", "unsubscribe"}, symbols : SUBSET Symbols]
Messages == [symbol : Symbols, price : Prices, snapshot : BOOLEAN]

FeedTypes ==
    /\ broker \in Brokers /\ market \in [Unders -> Prices] /\ open \subseteq Unders
    /\ anchor \in [Unders -> Prices \cup {None}] /\ summaries \in [Unders -> Prices \cup {None}]
    /\ wanted \in [Unders -> SUBSET Symbols] /\ current \subseteq Unders
    /\ active \subseteq Symbols /\ server \subseteq Symbols
    /\ topics \in [Symbols -> TopicStates \cup {None}] /\ last \in [Symbols -> Prices \cup {None}]
    /\ requests \in Seq(Requests) /\ net \in Seq(Messages) /\ pending \in Seq(Events)
    /\ rows = [x \in DOMAIN rows |-> [symbol |-> rows[x].symbol, price |-> rows[x].price]]
    /\ \A x \in DOMAIN rows : rows[x].symbol \in Symbols
    /\ alert = [active |-> alert.active, message |-> alert.message] /\ alert.active \in BOOLEAN

(* What a call in progress may have before it.                             *)
Ends(a, b, c, d) == {<<a, b, c, d>>, <<b, c, d>>, <<c, d>>, <<d>>}

StartTodo ==
    CASE broker = "DELTA" -> Ends("connect", "file", "spots", "recovered")
      [] broker = "FYERS" -> {<<"session", "connect", "file", "spots", "recovered">>}
                             \cup Ends("connect", "file", "spots", "recovered")
      [] broker = "DB"    -> Ends("file", "connect", "spots", "recovered")
      [] broker = "ANGEL" -> Ends("file", "empty_csv", "connect", "recovered")

TickTodo ==
    IF Slotted THEN {<<"strategy", "prices", "spot">>, <<"prices", "spot">>, <<"spot">>}
    ELSE {<<"prices", "strategy", "spot">>, <<"strategy", "spot">>, <<"spot">>}

RefreshTodo ==
    IF Slotted THEN Ends("subscribe", "unsubscribe", "targets", "csv")
    ELSE Ends("unsubscribe", "subscribe", "csv", "targets")

Before(name) == name \in ToSet(todo)

(* Nothing is left of an earlier run.                                      *)
Fresh ==
    /\ hand = None /\ change = None /\ current = {}
    /\ anchor = NoneOf(Unders) /\ summaries = NoneOf(Unders) /\ wanted = [u \in Unders |-> {}]
    /\ last = NoneOf(Symbols)

Resting == phase = "waiting" /\ todo = <<>> /\ Fresh /\ active = {} /\ requests = <<>>

Starting ==
    /\ phase = "starting" /\ todo \in StartTodo /\ Fresh
    /\ active = IF broker = "ANGEL" \/ Before("spots") THEN {} ELSE Spots
    /\ Before("connect") => requests = <<>> /\ active = {}

Reading ==
    /\ phase = "live" /\ hand = None /\ change = None
    /\ todo = <<>> \/ (broker = "FYERS" /\ todo = <<"frame">>)

Handling ==
    /\ phase = "live" /\ hand \in Events /\ change = None /\ todo \in TickTodo
    /\ hand.named => last[hand.symbol] = hand.price

Refreshing ==
    /\ phase = "live" /\ hand \in Events /\ change \in Changes /\ todo \in RefreshTodo
    /\ hand.named /\ hand.symbol = Spot(change.under) /\ anchor[change.under] = hand.price
    /\ last[hand.symbol] = hand.price

PhaseOK == Resting \/ Starting \/ Reading \/ Handling \/ Refreshing

(* The refresh of this underlying is under way.                            *)
Changing(u) == change # None /\ change.under = u

Still(name, S) == IF Before(name) THEN S ELSE {}

(* The tick of this symbol has this step before it.                        *)
InHand(s, name) == hand # None /\ hand.named /\ hand.symbol = s /\ Before(name)

(* The universe of an underlying, up to the step a refresh has come to.    *)
UniverseOK(u) ==
    /\ wanted[u] = IF anchor[u] = None THEN {} ELSE Selected(u, anchor[u])
    /\ anchor[u] # None /\ broker = "ANGEL" => u \in current
    /\ anchor[u] # None =>
          /\ last[Spot(u)] # None
          /\ ~Moved(anchor[u], last[Spot(u)]) \/ InHand(Spot(u), "spot")
    /\ summaries[u] = anchor[u] \/ (Changing(u) /\ Before("csv"))
    /\ ~Changing(u) => active \cap Derivatives(u) = wanted[u]
    /\ Changing(u) =>
          /\ change.subscribe \subseteq wanted[u]
          /\ change.unsubscribe \cap wanted[u] = {} /\ change.unsubscribe \subseteq Derivatives(u)
          /\ active \cap Derivatives(u) = (wanted[u] \ Still("subscribe", change.subscribe))
                                          \cup Still("unsubscribe", change.unsubscribe)

SpotsOK ==
    IF broker = "ANGEL" THEN \A u \in Unders : Spot(u) \in active <=> u \in current
    ELSE phase = "live" => Spots \subseteq active

RowsOK ==
    phase = "live" \/ (phase = "starting" /\ ~Before("file")) =>
        \A x \in DOMAIN rows :
            \/ rows[x].price = None \/ rows[x].price = last[rows[x].symbol]
            \/ InHand(rows[x].symbol, "prices")

(* The row of a spot of DB International.                                  *)
Listed(s) ==
    s \in DOMAIN rows /\ rows[s].symbol = s /\ (rows[s].price = last[s] \/ InHand(s, "prices"))

ListedOK ==
    broker = "DB" /\ (phase = "live" \/ (phase = "starting" /\ ~Before("file"))) =>
        \A s \in Spots : Listed(s)

CsvOK ==
    /\ phase = "live" => \/ csv = AllSelected(summaries)
                         \/ broker # "ANGEL" /\ \A u \in Unders : summaries[u] = None
    /\ broker = "ANGEL" /\ phase = "starting" /\ ~Before("file") /\ ~Before("empty_csv") => csv = {}

ServerOK == ServerAgrees /\ (broker = "DB" => requests = <<>>)

(* The state of the failure goes with what arrived, unless it was lost.    *)
AlertOK ==
    /\ lost \/ (alert.active <=> told = "down")
    /\ phase = "live" \/ Muted => ~alert.active
    /\ phase = "waiting" /\ faults > 0 /\ ~Muted => alert.active

FeedInv == /\ FeedTypes /\ PhaseOK /\ (\A u \in Unders : UniverseOK(u))
           /\ SpotsOK /\ RowsOK /\ ListedOK /\ CsvOK /\ ServerOK /\ AlertOK

-----------------------------------------------------------------------------
(* Calls in progress.                                                      *)

(* The first step of a call, the rest, and the steps it has.               *)
LEMMA Call1 ==
    ASSUME NEW a
    PROVE  Head(<<a>>) = a /\ Tail(<<a>>) = <<>> /\ ToSet(<<a>>) = {a}
<1>1. DOMAIN <<a>> = {1}
  OBVIOUS
<1>2. Head(<<a>>) = a /\ Tail(<<a>>) = <<>>
  OBVIOUS
<1>3. ToSet(<<a>>) = {a}
  BY <1>1 DEF ToSet
<1> QED BY <1>2, <1>3

(* The same of two steps.                                               *)
LEMMA Call2 ==
    ASSUME NEW a, NEW b
    PROVE  Head(<<a, b>>) = a /\ Tail(<<a, b>>) = <<b>> /\ ToSet(<<a, b>>) = {a, b}
<1>1. DOMAIN <<a, b>> = {1, 2}
  OBVIOUS
<1>2. Head(<<a, b>>) = a /\ Tail(<<a, b>>) = <<b>>
  OBVIOUS
<1>3. ToSet(<<a, b>>) = {a, b}
  BY <1>1 DEF ToSet
<1> QED BY <1>2, <1>3

(* The same of three steps.                                             *)
LEMMA Call3 ==
    ASSUME NEW a, NEW b, NEW c
    PROVE  Head(<<a, b, c>>) = a /\ Tail(<<a, b, c>>) = <<b, c>> /\ ToSet(<<a, b, c>>) = {a, b, c}
<1>1. DOMAIN <<a, b, c>> = {1, 2, 3}
  OBVIOUS
<1>2. Head(<<a, b, c>>) = a /\ Tail(<<a, b, c>>) = <<b, c>>
  OBVIOUS
<1>3. ToSet(<<a, b, c>>) = {a, b, c}
  BY <1>1 DEF ToSet
<1> QED BY <1>2, <1>3

(* The same of four steps.                                              *)
LEMMA Call4 ==
    ASSUME NEW a, NEW b, NEW c, NEW d
    PROVE  Head(<<a, b, c, d>>) = a /\ Tail(<<a, b, c, d>>) = <<b, c, d>> /\ ToSet(<<a, b, c, d>>) = {a, b, c, d}
<1>1. DOMAIN <<a, b, c, d>> = {1, 2, 3, 4}
  OBVIOUS
<1>2. Head(<<a, b, c, d>>) = a /\ Tail(<<a, b, c, d>>) = <<b, c, d>>
  OBVIOUS
<1>3. ToSet(<<a, b, c, d>>) = {a, b, c, d}
  BY <1>1 DEF ToSet
<1> QED BY <1>2, <1>3

(* The same of five steps.                                              *)
LEMMA Call5 ==
    ASSUME NEW a, NEW b, NEW c, NEW d, NEW e
    PROVE  Head(<<a, b, c, d, e>>) = a /\ Tail(<<a, b, c, d, e>>) = <<b, c, d, e>> /\ ToSet(<<a, b, c, d, e>>) = {a, b, c, d, e}
<1>1. DOMAIN <<a, b, c, d, e>> = {1, 2, 3, 4, 5}
  OBVIOUS
<1>2. Head(<<a, b, c, d, e>>) = a /\ Tail(<<a, b, c, d, e>>) = <<b, c, d, e>>
  OBVIOUS
<1>3. ToSet(<<a, b, c, d, e>>) = {a, b, c, d, e}
  BY <1>1 DEF ToSet
<1> QED BY <1>2, <1>3

(* The step a call is at, and what is before it after the step.            *)
LEMMA EndsAre ==
    ASSUME NEW a, NEW b, NEW c, NEW d,
           a # b, a # c, a # d, b # c, b # d, c # d,
           NEW q \in Ends(a, b, c, d)
    PROVE  /\ q # <<>> /\ Head(q) \in {a, b, c, d}
           /\ ToSet(Tail(q)) = ToSet(q) \ {Head(q)} /\ Head(q) \in ToSet(q)
           /\ ToSet(q) \subseteq {a, b, c, d}
           /\ Head(q) # d => Tail(q) \in Ends(a, b, c, d)
           /\ Head(q) = a => Tail(q) = <<b, c, d>>
           /\ Head(q) = b => q = <<b, c, d>> /\ Tail(q) = <<c, d>>
           /\ Head(q) = c => q = <<c, d>> /\ Tail(q) = <<d>>
           /\ Head(q) = d => q = <<d>> /\ Tail(q) = <<>>
<1>1. CASE q = <<a, b, c, d>>
  <2>1. Head(q) = a /\ Tail(q) = <<b, c, d>> /\ ToSet(q) = {a, b, c, d} /\ ToSet(Tail(q)) = {b, c, d}
    <3>1. Head(<<a, b, c, d>>) = a /\ Tail(<<a, b, c, d>>) = <<b, c, d>> /\ ToSet(<<a, b, c, d>>) = {a, b, c, d}
      BY Call4
    <3>2. ToSet(<<b, c, d>>) = {b, c, d}
      BY Call3
    <3> QED BY <1>1, <3>1, <3>2
  <2> QED BY <2>1, <1>1 DEF Ends
<1>2. CASE q = <<b, c, d>>
  <2>1. Head(q) = b /\ Tail(q) = <<c, d>> /\ ToSet(q) = {b, c, d} /\ ToSet(Tail(q)) = {c, d}
    <3>1. Head(<<b, c, d>>) = b /\ Tail(<<b, c, d>>) = <<c, d>> /\ ToSet(<<b, c, d>>) = {b, c, d}
      BY Call3
    <3>2. ToSet(<<c, d>>) = {c, d}
      BY Call2
    <3> QED BY <1>2, <3>1, <3>2
  <2> QED BY <2>1, <1>2 DEF Ends
<1>3. CASE q = <<c, d>>
  <2>1. Head(q) = c /\ Tail(q) = <<d>> /\ ToSet(q) = {c, d} /\ ToSet(Tail(q)) = {d}
    <3>1. Head(<<c, d>>) = c /\ Tail(<<c, d>>) = <<d>> /\ ToSet(<<c, d>>) = {c, d}
      BY Call2
    <3>2. ToSet(<<d>>) = {d}
      BY Call1
    <3> QED BY <1>3, <3>1, <3>2
  <2> QED BY <2>1, <1>3 DEF Ends
<1>4. CASE q = <<d>>
  <2>1. Head(q) = d /\ Tail(q) = <<>> /\ ToSet(q) = {d} /\ ToSet(<<>>) = {}
    BY <1>4, Call1 DEF ToSet
  <2> QED BY <2>1, <1>4 DEF Ends
<1> QED BY <1>1, <1>2, <1>3, <1>4 DEF Ends

(* A step belongs to one kind of call, in the order of the broker.         *)
LEMMA StepIs ==
    ASSUME FeedTypes, PhaseOK, NEW name, At(name)
    PROVE  /\ todo # <<>> /\ ToSet(Tail(todo)) = ToSet(todo) \ {name} /\ Before(name)
           /\ \/ /\ Starting /\ name \in {"session", "connect", "file", "empty_csv", "spots", "recovered"}
                 /\ name # "recovered" => Tail(todo) \in StartTodo
                 /\ name = "recovered" => Tail(todo) = <<>> /\ ~Before("spots") /\ ~Before("connect")
                                          /\ ~Before("file") /\ ~Before("empty_csv")
                 /\ name = "session" => broker = "FYERS"
                 /\ name = "empty_csv" => broker = "ANGEL" /\ ~Before("file")
                 /\ name = "spots" => broker # "ANGEL" /\ ~Before("connect") /\ ~Before("file")
              \/ /\ Handling /\ name \in {"strategy", "prices", "spot"}
                 /\ name # "spot" => Tail(todo) \in TickTodo
                 /\ name = "spot" => Tail(todo) = <<>> /\ ~Before("prices")
              \/ /\ Refreshing /\ name \in {"subscribe", "unsubscribe", "targets", "csv"}
                 /\ Tail(todo) \in RefreshTodo \cup {<<>>}
                 /\ name \in {"subscribe", "unsubscribe"} => Tail(todo) \in RefreshTodo
                 /\ ~Before("prices") /\ ~Before("spot")
              \/ Reading /\ name = "frame" /\ broker = "FYERS" /\ Tail(todo) = <<>>
<1>1. todo # <<>> /\ Head(todo) = name
  BY DEF At
<1>2. broker \in {"DELTA", "FYERS", "DB", "ANGEL"}
  BY FeedAssumption DEF FeedTypes
<1>3. ~Resting
  BY <1>1 DEF Resting
<1>4. CASE Reading
  <2>1. /\ Head(<<"frame">>) = "frame" /\ Tail(<<"frame">>) = <<>>
        /\ ToSet(<<"frame">>) = {"frame"} /\ ToSet(<<>>) = {}
    BY Call1 DEF ToSet
  <2> QED BY <2>1, <1>1, <1>4 DEF Reading, Before
<1>5. CASE Starting
  <2>1. CASE todo = <<"session", "connect", "file", "spots", "recovered">> /\ broker = "FYERS"
    <3>1. /\ name = "session" /\ Tail(todo) = <<"connect", "file", "spots", "recovered">>
          /\ ToSet(todo) = {"session", "connect", "file", "spots", "recovered"}
      BY <1>1, <2>1, Call5
    <3>2. ToSet(<<"connect", "file", "spots", "recovered">>) = {"connect", "file", "spots", "recovered"}
      <4>1. DOMAIN <<"connect", "file", "spots", "recovered">> = {1, 2, 3, 4}
        OBVIOUS
      <4> QED BY <4>1 DEF ToSet
    <3>3. Tail(todo) \in StartTodo
      BY <3>1, <2>1 DEF StartTodo, Ends
    <3> QED BY <3>1, <3>2, <3>3, <1>1, <1>5, <2>1 DEF Before
  <2>2. CASE todo \in Ends("connect", "file", "spots", "recovered") /\ broker \in {"DELTA", "FYERS"}
    <3>1. /\ name \in {"connect", "file", "spots", "recovered"} /\ Before(name)
          /\ ToSet(Tail(todo)) = ToSet(todo) \ {name}
          /\ name # "recovered" => Tail(todo) \in Ends("connect", "file", "spots", "recovered")
          /\ name = "recovered" => todo = <<"recovered">> /\ Tail(todo) = <<>>
          /\ name = "spots" => todo = <<"spots", "recovered">>
      BY <1>1, <2>2, EndsAre DEF Before
    <3>2. name # "recovered" => Tail(todo) \in StartTodo
      BY <3>1, <2>2 DEF StartTodo
    <3>3. /\ name = "recovered" => ToSet(todo) = {"recovered"}
          /\ name = "spots" => ToSet(todo) = {"spots", "recovered"}
      BY <3>1, Call1, Call2
    <3> QED BY <3>1, <3>2, <3>3, <1>1, <1>5, <2>2 DEF Before
  <2>3. CASE todo \in Ends("file", "connect", "spots", "recovered") /\ broker = "DB"
    <3>1. /\ name \in {"connect", "file", "spots", "recovered"} /\ Before(name)
          /\ ToSet(Tail(todo)) = ToSet(todo) \ {name}
          /\ name # "recovered" => Tail(todo) \in Ends("file", "connect", "spots", "recovered")
          /\ name = "recovered" => todo = <<"recovered">> /\ Tail(todo) = <<>>
          /\ name = "spots" => todo = <<"spots", "recovered">>
      BY <1>1, <2>3, EndsAre DEF Before
    <3>2. name # "recovered" => Tail(todo) \in StartTodo
      BY <3>1, <2>3 DEF StartTodo
    <3>3. /\ name = "recovered" => ToSet(todo) = {"recovered"}
          /\ name = "spots" => ToSet(todo) = {"spots", "recovered"}
      BY <3>1, Call1, Call2
    <3> QED BY <3>1, <3>2, <3>3, <1>1, <1>5, <2>3 DEF Before
  <2>4. CASE todo \in Ends("file", "empty_csv", "connect", "recovered") /\ broker = "ANGEL"
    <3>1. /\ name \in {"file", "empty_csv", "connect", "recovered"} /\ Before(name)
          /\ ToSet(Tail(todo)) = ToSet(todo) \ {name}
          /\ name # "recovered" => Tail(todo) \in Ends("file", "empty_csv", "connect", "recovered")
          /\ name = "recovered" => todo = <<"recovered">> /\ Tail(todo) = <<>>
          /\ name = "empty_csv" => todo = <<"empty_csv", "connect", "recovered">>
      BY <1>1, <2>4, EndsAre DEF Before
    <3>2. name # "recovered" => Tail(todo) \in StartTodo
      BY <3>1, <2>4 DEF StartTodo
    <3>3. /\ name = "recovered" => ToSet(todo) = {"recovered"}
          /\ name = "empty_csv" => ToSet(todo) = {"empty_csv", "connect", "recovered"}
      <4>1. ToSet(<<"empty_csv", "connect", "recovered">>) = {"empty_csv", "connect", "recovered"}
        BY Call3, Zenon
      <4>2. ToSet(<<"recovered">>) = {"recovered"}
        BY Call1
      <4> QED BY <3>1, <4>1, <4>2
    <3> QED BY <3>1, <3>2, <3>3, <1>1, <1>5, <2>4 DEF Before
  <2> QED BY <1>2, <1>5, <2>1, <2>2, <2>3, <2>4 DEF Starting, StartTodo
<1>6. CASE Handling
  <2>1. CASE todo = <<"strategy", "prices", "spot">>
    <3>1. /\ name = "strategy" /\ Tail(todo) = <<"prices", "spot">>
          /\ ToSet(todo) = {"strategy", "prices", "spot"}
      <4>1. DOMAIN <<"strategy", "prices", "spot">> = {1, 2, 3}
        OBVIOUS
      <4>2. ToSet(todo) = {"strategy", "prices", "spot"}
        BY <2>1, <4>1 DEF ToSet
      <4>3. Head(todo) = "strategy" /\ Tail(todo) = <<"prices", "spot">>
        BY <2>1
      <4> QED BY <1>1, <4>2, <4>3
    <3>2. ToSet(<<"prices", "spot">>) = {"prices", "spot"}
      BY Call2, Zenon
    <3>3. Tail(todo) \in TickTodo
      <4>1. <<"strategy", "prices", "spot">> # <<"prices", "strategy", "spot">>
        OBVIOUS
      <4>2. Len(todo) = 3
        BY <2>1
      <4> QED BY <1>6, <2>1, <3>1, <4>1, <4>2 DEF Handling, TickTodo
    <3> QED BY <3>1, <3>2, <3>3, <1>1, <1>6 DEF Before
  <2>2. CASE todo = <<"prices", "strategy", "spot">>
    <3>1. /\ name = "prices" /\ Tail(todo) = <<"strategy", "spot">>
          /\ ToSet(todo) = {"prices", "strategy", "spot"}
      <4>1. DOMAIN <<"prices", "strategy", "spot">> = {1, 2, 3}
        OBVIOUS
      <4>2. ToSet(todo) = {"prices", "strategy", "spot"}
        BY <2>2, <4>1 DEF ToSet
      <4>3. Head(todo) = "prices" /\ Tail(todo) = <<"strategy", "spot">>
        BY <2>2
      <4> QED BY <1>1, <4>2, <4>3
    <3>2. ToSet(<<"strategy", "spot">>) = {"strategy", "spot"}
      BY Call2, Zenon
    <3>3. Tail(todo) \in TickTodo
      <4>1. <<"strategy", "prices", "spot">> # <<"prices", "strategy", "spot">>
        OBVIOUS
      <4>2. Len(todo) = 3
        BY <2>2
      <4> QED BY <1>6, <2>2, <3>1, <4>1, <4>2 DEF Handling, TickTodo
    <3> QED BY <3>1, <3>2, <3>3, <1>1, <1>6 DEF Before
  <2>4. CASE todo = <<"prices", "spot">>
    <3>1. /\ name = "prices" /\ Tail(todo) = <<"spot">> /\ ToSet(todo) = {"prices", "spot"}
      BY <1>1, <2>4, Call2, Zenon
    <3>2. ToSet(<<"spot">>) = {"spot"}
      BY Call1
    <3>3. Tail(todo) \in TickTodo
      BY <3>1 DEF TickTodo
    <3> QED BY <3>1, <3>2, <3>3, <1>1, <1>6 DEF Before
  <2>5. CASE todo = <<"strategy", "spot">>
    <3>1. /\ name = "strategy" /\ Tail(todo) = <<"spot">> /\ ToSet(todo) = {"strategy", "spot"}
      BY <1>1, <2>5, Call2, Zenon
    <3>2. ToSet(<<"spot">>) = {"spot"}
      BY Call1
    <3>3. Tail(todo) \in TickTodo
      BY <3>1 DEF TickTodo
    <3> QED BY <3>1, <3>2, <3>3, <1>1, <1>6 DEF Before
  <2>3. CASE todo = <<"spot">>
    <3>1. name = "spot" /\ Tail(todo) = <<>> /\ ToSet(todo) = {"spot"} /\ ToSet(<<>>) = {}
      BY <1>1, <2>3, Call1 DEF ToSet
    <3> QED BY <3>1, <1>1, <1>6 DEF Before
  <2> QED BY <1>6, <2>1, <2>2, <2>3, <2>4, <2>5 DEF Handling, TickTodo
<1>7. CASE Refreshing
  <2>1. CASE Slotted
    <3>1. todo \in Ends("subscribe", "unsubscribe", "targets", "csv")
      BY <1>7, <2>1 DEF Refreshing, RefreshTodo
    <3>2. /\ name \in {"subscribe", "unsubscribe", "targets", "csv"} /\ Before(name)
          /\ ToSet(Tail(todo)) = ToSet(todo) \ {name}
          /\ Tail(todo) \in Ends("subscribe", "unsubscribe", "targets", "csv") \cup {<<>>}
          /\ name \in {"subscribe", "unsubscribe"} =>
                Tail(todo) \in Ends("subscribe", "unsubscribe", "targets", "csv")
          /\ ToSet(todo) \subseteq {"subscribe", "unsubscribe", "targets", "csv"}
      BY <1>1, <3>1, EndsAre DEF Before
    <3>3. ~Before("prices") /\ ~Before("spot")
      BY <3>2 DEF Before
    <3> QED BY <3>2, <3>3, <1>1, <1>7, <2>1 DEF RefreshTodo
  <2>2. CASE ~Slotted
    <3>1. todo \in Ends("unsubscribe", "subscribe", "csv", "targets")
      BY <1>7, <2>2 DEF Refreshing, RefreshTodo
    <3>2. /\ name \in {"subscribe", "unsubscribe", "targets", "csv"} /\ Before(name)
          /\ ToSet(Tail(todo)) = ToSet(todo) \ {name}
          /\ Tail(todo) \in Ends("unsubscribe", "subscribe", "csv", "targets") \cup {<<>>}
          /\ name \in {"subscribe", "unsubscribe"} =>
                Tail(todo) \in Ends("unsubscribe", "subscribe", "csv", "targets")
          /\ ToSet(todo) \subseteq {"subscribe", "unsubscribe", "targets", "csv"}
      BY <1>1, <3>1, EndsAre DEF Before
    <3>3. ~Before("prices") /\ ~Before("spot")
      BY <3>2 DEF Before
    <3> QED BY <3>2, <3>3, <1>1, <1>7, <2>2 DEF RefreshTodo
  <2> QED BY <2>1, <2>2
<1> QED BY <1>3, <1>4, <1>5, <1>6, <1>7 DEF PhaseOK

-----------------------------------------------------------------------------
(* Symbols, subscriptions, rows.                                           *)

(* Spots and derivatives of different underlyings are different symbols.   *)
LEMMA SymbolsAre ==
    /\ Spots \subseteq Symbols /\ \A s \in Spots : s[1] \in Unders /\ s = Spot(s[1])
    /\ \A u \in Unders : Spot(u) \in Spots /\ Derivatives(u) \subseteq Symbols
    /\ \A u, v \in Unders : Spot(u) \notin Derivatives(v) /\ (Spot(u) = Spot(v) => u = v)
    /\ \A u, v \in Unders : u # v => Derivatives(u) \cap Derivatives(v) = {}
    /\ \A s \in Symbols : s \in Spots \/ \E u \in Unders : s \in Derivatives(u)
    /\ \A u \in Unders, p \in Prices : Selected(u, p) \subseteq Derivatives(u)
<1>1. \A k \in Prices : k # 0
  BY FeedAssumption
<1>2. /\ Spots \subseteq Symbols /\ \A s \in Spots : s[1] \in Unders /\ s = Spot(s[1])
      /\ \A u \in Unders : Spot(u) \in Spots /\ Derivatives(u) \subseteq Symbols
  BY DEF Symbols, Spots, Spot
<1>3. /\ \A u, v \in Unders : Spot(u) \notin Derivatives(v) /\ (Spot(u) = Spot(v) => u = v)
      /\ \A u, v \in Unders : u # v => Derivatives(u) \cap Derivatives(v) = {}
  BY <1>1 DEF Spot, Derivatives
<1>4. \A s \in Symbols : s \in Spots \/ \E u \in Unders : s \in Derivatives(u)
  BY DEF Symbols
<1>5. \A u \in Unders, p \in Prices : Selected(u, p) \subseteq Derivatives(u)
  BY DEF Selected, Derivatives
<1> QED BY <1>2, <1>3, <1>4, <1>5

(* There is a strike nearest to a price.                                   *)
LEMMA NearestIs ==
    ASSUME NEW u \in Unders, NEW p \in Prices
    PROVE  Nearest(u, p) \in Derivatives(u)
<1> DEFINE D == {Abs(k - p) : k \in Prices}
<1>1. Prices \subseteq Nat
  BY FeedAssumption
<1>2. \A k \in Prices : Abs(k - p) \in Nat
  BY <1>1 DEF Abs
<1>3. D \subseteq Nat /\ D # {}
  BY <1>2
<1>4. PICK n \in D : \A m \in D : ~(<<m, n>> \in OpToRel(<, Nat))
  <2> HIDE DEF D
  <2> QED BY <1>3, NatLessThanWellFounded, WFMin
<1>5. PICK k \in Prices : n = Abs(k - p)
  OBVIOUS
<1>6. ASSUME NEW x \in Prices PROVE Abs(k - p) <= Abs(x - p)
  <2>1. ~(Abs(x - p) < Abs(k - p))
    BY <1>2, <1>4, <1>5 DEF OpToRel
  <2> QED BY <1>2, <2>1
<1>7. (CHOOSE y \in Prices : \A x \in Prices : Abs(y - p) <= Abs(x - p)) \in Prices
  BY <1>6
<1> QED BY <1>7 DEF Nearest, Derivatives

(* What a server that sends S will send once it has handled q.             *)
NamingIn(q, s) == {i \in DOMAIN q : s \in q[i].symbols}
Serving(S, q) ==
    {s \in Symbols : \/ s \in S /\ NamingIn(q, s) = {}
                     \/ \E i \in NamingIn(q, s) : /\ q[i].op = "subscribe"
                                                  /\ \A k \in NamingIn(q, s) : k <= i}

(* A request more is handled last.                                         *)
LEMMA ServingMore ==
    ASSUME NEW S \in SUBSET Symbols, NEW q \in Seq(Requests), NEW r \in Requests
    PROVE  Serving(S, Append(q, r)) = Served(Serving(S, q), r)
<1> DEFINE p == Append(q, r)
           n == Len(q) + 1
<1>1. /\ r.op \in {"subscribe", "unsubscribe"} /\ r.symbols \subseteq Symbols
  BY DEF Requests
<1>2. /\ DOMAIN q = 1..Len(q) /\ Len(q) \in Nat /\ DOMAIN p = 1..n
      /\ p[n] = r /\ \A i \in 1..Len(q) : p[i] = q[i]
  OBVIOUS
<1> HIDE DEF p
<1>3. ASSUME NEW s \in Symbols PROVE s \in Serving(S, p) <=> s \in Served(Serving(S, q), r)
  <2>1. CASE s \in r.symbols
    <3>1. n \in NamingIn(p, s) /\ \A k \in NamingIn(p, s) : k <= n /\ k \in Nat
      BY <1>2, <2>1 DEF NamingIn
    <3>2. s \in Serving(S, p) <=> r.op = "subscribe"
      <4>1. \A i \in NamingIn(p, s) : (\A k \in NamingIn(p, s) : k <= i) => i = n
        BY <3>1, <1>2
      <4> QED BY <3>1, <4>1, <1>2 DEF Serving
    <3> QED BY <3>2, <2>1, <1>1 DEF Served
  <2>2. CASE s \notin r.symbols
    <3>1. NamingIn(p, s) = NamingIn(q, s)
      BY <1>2, <2>2 DEF NamingIn
    <3>2. \A i \in NamingIn(q, s) : p[i] = q[i]
      BY <1>2 DEF NamingIn
    <3>3. s \in Serving(S, p) <=> s \in Serving(S, q)
      BY <3>1, <3>2 DEF Serving
    <3> QED BY <3>3, <2>2, <1>1 DEF Served
  <2> QED BY <2>1, <2>2
<1>4. Serving(S, p) \subseteq Symbols /\ Served(Serving(S, q), r) \subseteq Symbols
  BY <1>1 DEF Serving, Served
<1> QED BY <1>3, <1>4 DEF p

(* The server handles its first request.                                   *)
LEMMA ServingOne ==
    ASSUME NEW S \in SUBSET Symbols, NEW q \in Seq(Requests), q # <<>>
    PROVE  Serving(Served(S, Head(q)), Tail(q)) = Serving(S, q)
<1> DEFINE p == Tail(q)
           r == Head(q)
           R == Served(S, r)
<1>1. /\ r \in Requests /\ r.op \in {"subscribe", "unsubscribe"} /\ r.symbols \subseteq Symbols
      /\ R \subseteq Symbols
  <2>1. r \in Requests
    OBVIOUS
  <2> HIDE DEF r
  <2> QED BY <2>1 DEF Requests, Served
<1>2. /\ DOMAIN q = 1..Len(q) /\ Len(q) \in Nat /\ Len(q) >= 1 /\ q[1] = r
      /\ DOMAIN p = 1..(Len(q) - 1)
      /\ \A i \in DOMAIN p : p[i] = q[i + 1]
  OBVIOUS
<1> HIDE DEF p
<1>3. ASSUME NEW s \in Symbols PROVE s \in Serving(R, p) <=> s \in Serving(S, q)
  <2>1. \A i \in NamingIn(p, s) : i \in Nat /\ i + 1 \in NamingIn(q, s) /\ q[i + 1] = p[i]
    BY <1>2 DEF NamingIn
  <2>2. \A k \in NamingIn(q, s) : k \in Nat /\ (k = 1 \/ (k - 1 \in NamingIn(p, s) /\ p[k - 1] = q[k]))
    <3> SUFFICES ASSUME NEW k \in NamingIn(q, s), k # 1
                 PROVE  k \in Nat /\ k - 1 \in NamingIn(p, s) /\ p[k - 1] = q[k]
      BY <1>2 DEF NamingIn
    <3>1. k \in 1..Len(q) /\ s \in q[k].symbols
      BY <1>2 DEF NamingIn
    <3>2. k - 1 \in DOMAIN p
      BY <3>1, <1>2
    <3>3. p[k - 1] = q[k]
      <4>1. p[k - 1] = q[(k - 1) + 1] /\ (k - 1) + 1 = k
        BY <3>1, <3>2, <1>2
      <4> QED BY <4>1
    <3> QED BY <3>1, <3>2, <3>3 DEF NamingIn
  <2>3. 1 \in NamingIn(q, s) <=> s \in r.symbols
    BY <1>2 DEF NamingIn
  <2>4. CASE NamingIn(p, s) = {}
    <3>1. NamingIn(q, s) = IF s \in r.symbols THEN {1} ELSE {}
      BY <2>2, <2>3, <2>4
    <3>2. s \in Serving(R, p) <=> s \in R
      BY <2>4 DEF Serving
    <3>3. s \in Serving(S, q) <=> s \in R
      <4>1. CASE s \in r.symbols
        <5>1. NamingIn(q, s) = {1} /\ q[1] = r
          BY <3>1, <4>1, <1>2
        <5>2. s \in Serving(S, q) <=> r.op = "subscribe"
          BY <5>1 DEF Serving
        <5>3. s \in R <=> r.op = "subscribe"
          BY <4>1, <1>1 DEF Served
        <5> QED BY <5>2, <5>3
      <4>2. CASE s \notin r.symbols
        BY <3>1, <4>2, <1>1 DEF Serving, Served
      <4> QED BY <4>1, <4>2
    <3> QED BY <3>2, <3>3
  <2>5. CASE NamingIn(p, s) # {}
    <3>1. NamingIn(q, s) # {}
      BY <2>1, <2>5
    <3>2. ASSUME NEW i \in NamingIn(p, s), \A k \in NamingIn(p, s) : k <= i
          PROVE  \A k \in NamingIn(q, s) : k <= i + 1
      BY <2>1, <2>2, <3>2
    <3>3. ASSUME NEW i \in NamingIn(q, s), \A k \in NamingIn(q, s) : k <= i
          PROVE  /\ i - 1 \in NamingIn(p, s) /\ p[i - 1] = q[i]
                 /\ \A k \in NamingIn(p, s) : k <= i - 1
      <4>1. i # 1
        <5>1. PICK k \in NamingIn(p, s) : TRUE
          BY <2>5
        <5>2. k + 1 <= i /\ k \in Nat /\ k >= 1
          BY <5>1, <2>1, <3>3, <1>2 DEF NamingIn
        <5> QED BY <5>2
      <4>2. i - 1 \in NamingIn(p, s) /\ p[i - 1] = q[i] /\ i \in Nat
        BY <4>1, <2>2
      <4>3. ASSUME NEW k \in NamingIn(p, s) PROVE k <= i - 1
        BY <2>1, <3>3, <4>2
      <4> QED BY <4>2, <4>3
    <3>4. s \in Serving(R, p) => s \in Serving(S, q)
      <4> SUFFICES ASSUME s \in Serving(R, p) PROVE s \in Serving(S, q)
        OBVIOUS
      <4>1. PICK i \in NamingIn(p, s) : p[i].op = "subscribe" /\ \A k \in NamingIn(p, s) : k <= i
        BY <2>5 DEF Serving
      <4>2. i + 1 \in NamingIn(q, s) /\ q[i + 1].op = "subscribe" /\ \A k \in NamingIn(q, s) : k <= i + 1
        BY <4>1, <2>1, <3>2
      <4> QED BY <4>2 DEF Serving
    <3>5. s \in Serving(S, q) => s \in Serving(R, p)
      <4> SUFFICES ASSUME s \in Serving(S, q) PROVE s \in Serving(R, p)
        OBVIOUS
      <4>1. PICK i \in NamingIn(q, s) : q[i].op = "subscribe" /\ \A k \in NamingIn(q, s) : k <= i
        BY <3>1 DEF Serving
      <4>2. /\ i - 1 \in NamingIn(p, s) /\ p[i - 1].op = "subscribe"
            /\ \A k \in NamingIn(p, s) : k <= i - 1
        BY <4>1, <3>3
      <4> QED BY <4>2 DEF Serving
    <3> QED BY <3>4, <3>5
  <2> QED BY <2>4, <2>5
<1>4. Serving(R, p) \subseteq Symbols /\ Serving(S, q) \subseteq Symbols
  BY DEF Serving
<1> QED BY <1>3, <1>4 DEF p

(* Nothing is on its way.                                                  *)
LEMMA ServingNothing ==
    ASSUME NEW S \in SUBSET Symbols
    PROVE  Serving(S, <<>>) = S
BY DEF Serving, NamingIn

(* WillServe is this of the server and its requests.                       *)
LEMMA WillServeIs == WillServe = Serving(server, requests)
BY DEF WillServe, Naming, Serving, NamingIn

(* There are finitely many symbols.                                        *)
LEMMA FinitelyMany == IsFiniteSet(Symbols)
<1>1. IsFiniteSet(Unders) /\ IsFiniteSet(Prices)
  BY FeedAssumption
<1>2. IsFiniteSet(Prices \cup {0})
  BY <1>1, FS_AddElement
<1>3. IsFiniteSet(Unders \X (Prices \cup {0}))
  BY <1>1, <1>2, FS_Product
<1>4. Symbols \subseteq Unders \X (Prices \cup {0})
  BY DEF Symbols, Spots, Spot, Derivatives
<1> QED BY <1>3, <1>4, FS_Subset

(* DB International's quotes are ticks like any other.                     *)
LEMMA QuotesAre ==
    ASSUME FeedTypes, NEW S \in SUBSET Symbols
    PROVE  Quotes(S) \in Seq(Events)
<1> DEFINE D == S \ server
           quote == [s \in D |-> Event([symbol |-> s, price |-> market[s[1]]], TRUE)]
           T == {quote[s] : s \in D}
<1>1. Quotes(S) = SetToSeq(T)
  BY DEF Quotes
<1>2. IsFiniteSet(T)
  <2>1. IsFiniteSet(D)
    BY FinitelyMany, FS_Subset
  <2>2. quote \in Surjection(D, T)
    BY DEF Surjection
  <2> HIDE DEF quote, D, T
  <2> QED BY <2>1, <2>2, FS_Surjection
<1>3. T \subseteq Events
  <2> SUFFICES ASSUME NEW s \in D
               PROVE  Event([symbol |-> s, price |-> market[s[1]]], TRUE) \in Events
    OBVIOUS
  <2>1. s \in Symbols /\ s[1] \in Unders
    BY DEF Symbols, Spots, Spot, Derivatives
  <2>2. market[s[1]] \in Prices
    BY <2>1 DEF FeedTypes
  <2> QED BY <2>1, <2>2 DEF Event, Events
<1> HIDE DEF T
<1>4. Cardinality(T) \in Nat /\ \E f \in [1..Cardinality(T) -> T] : IsInjective(f)
  BY <1>2, FS_CardinalityType DEF ExistsBijection, Bijection, Injection
<1>5. SetToSeq(T) \in [1..Cardinality(T) -> T]
  BY <1>4 DEF SetToSeq
<1>6. SetToSeq(T) \in Seq(T)
  BY <1>4, <1>5
<1> QED BY <1>1, <1>3, <1>6

-----------------------------------------------------------------------------
(* The steps, one by one.                                                  *)

(* A step that changes what is on its way, or the markets, or nothing.     *)
LEMMA QuietStep ==
    ASSUME FeedInv, FeedTypes', ServerOK',
           UNCHANGED <<broker, phase, hand, change, anchor, wanted, summaries, current, active,
                       rows, csv, alert, told, lost, faults, last>>,
           todo' = todo \/ (Reading /\ Reading'),
           requests' = requests \/ (Starting /\ ~Before("connect")) \/ phase = "live"
    PROVE  FeedInv'
<1>1. CASE todo' = todo
  <2>1. PhaseOK'
    <3>1. Resting => requests' = requests
      BY DEF Resting, Starting
    <3>2. StartTodo' = StartTodo /\ TickTodo' = TickTodo /\ RefreshTodo' = RefreshTodo
      BY DEF StartTodo, TickTodo, RefreshTodo, Slotted
    <3>3. CASE Resting
      BY <3>1, <3>3, <1>1 DEF Resting, Fresh, PhaseOK
    <3>4. CASE Starting
      BY <3>2, <3>4, <1>1 DEF Starting, Fresh, Before, PhaseOK
    <3>5. CASE Reading
      BY <3>5, <1>1 DEF Reading, PhaseOK
    <3>6. CASE Handling
      BY <3>2, <3>6, <1>1 DEF Handling, PhaseOK
    <3>7. CASE Refreshing
      BY <3>2, <3>7, <1>1 DEF Refreshing, PhaseOK
    <3> QED BY <3>3, <3>4, <3>5, <3>6, <3>7 DEF FeedInv, PhaseOK
  <2>2. \A u \in Unders : UniverseOK(u)'
    BY <1>1 DEF FeedInv, UniverseOK, Changing, Still, InHand, Before
  <2>3. SpotsOK' /\ RowsOK' /\ ListedOK' /\ AlertOK'
    <3>1. SpotsOK' /\ AlertOK'
      BY <1>1 DEF FeedInv, SpotsOK, AlertOK, Muted
    <3>2. RowsOK'
      BY <1>1 DEF FeedInv, RowsOK, InHand, Before
    <3>3. ListedOK'
      BY <1>1 DEF FeedInv, ListedOK, Listed, InHand, Before
    <3> QED BY <3>1, <3>2, <3>3
  <2>4. CsvOK'
    BY <1>1 DEF FeedInv, CsvOK, AllSelected, Before
  <2> QED BY <2>1, <2>2, <2>3, <2>4 DEF FeedInv
<1>2. CASE Reading /\ Reading'
  <2>1. phase = "live" /\ hand = None /\ change = None
    BY <1>2 DEF Reading
  <2>2. \A x : (todo = <<>> \/ todo = <<"frame">>) => (x \in ToSet(todo) => x = "frame")
    <3>1. ToSet(<<"frame">>) = {"frame"} /\ ToSet(<<>>) = {}
      BY Call1 DEF ToSet
    <3> QED BY <3>1
  <2>3. \A u \in Unders : UniverseOK(u)'
    <3>1. ~Before("spot") /\ ~Before("csv")
      BY <2>2, <1>2 DEF Reading, Before
    <3> QED BY <2>1, <3>1 DEF FeedInv, UniverseOK, Changing, Still, InHand
  <2>4. SpotsOK' /\ RowsOK' /\ ListedOK' /\ AlertOK' /\ CsvOK'
    <3>1. SpotsOK' /\ AlertOK'
      BY <2>1 DEF FeedInv, SpotsOK, AlertOK, Muted
    <3>2. RowsOK'
      BY <2>1 DEF FeedInv, RowsOK, InHand
    <3>4. ListedOK'
      BY <2>1 DEF FeedInv, ListedOK, Listed, InHand
    <3>3. CsvOK'
      BY <2>1 DEF FeedInv, CsvOK, AllSelected
    <3> QED BY <3>1, <3>2, <3>3, <3>4
  <2> QED BY <1>2, <2>3, <2>4 DEF FeedInv, PhaseOK
<1> QED BY <1>1, <1>2

(* Between two ticks.                                                      *)
LEMMA IdleIs ==
    ASSUME PhaseOK, phase = "live", todo = <<>>
    PROVE  Reading
<1>1. \A a, b, c, d : <<>> \notin Ends(a, b, c, d)
  BY DEF Ends
<1>2. <<>> \notin TickTodo /\ <<>> \notin RefreshTodo
  BY <1>1 DEF TickTodo, RefreshTodo
<1> QED BY <1>2 DEF PhaseOK, Resting, Starting, Handling, Refreshing

(* What the server will send depends on what it sends and its requests.    *)
LEMMA ServerStays ==
    ASSUME FeedInv, UNCHANGED <<broker, requests, server, active>>, Connected' => Connected
    PROVE  ServerOK'
<1>1. WillServe' = WillServe
  BY WillServeIs DEF Serving, NamingIn, WillServe, Naming
<1> QED BY <1>1 DEF FeedInv, ServerOK, ServerAgrees

(* Prices move and exchanges open and close.                               *)
LEMMA MoveStep == ASSUME FeedInv, Move PROVE FeedInv'
<1>1. /\ UNCHANGED <<broker, phase, todo, hand, change, anchor, wanted, summaries, current, active,
                     rows, csv, alert, told, lost, faults, last, topics, requests, server, net, pending>>
  BY DEF Move, universe, wire, files, status, news
<1>2. FeedTypes'
  <2>1. market' \in [Unders -> Prices] /\ open' \subseteq Unders
    BY DEF Move, FeedInv, FeedTypes
  <2> QED BY <1>1, <2>1 DEF FeedInv, FeedTypes
<1>3. ServerOK'
  BY <1>1, ServerStays DEF Connected
<1> QED BY <1>1, <1>2, <1>3, QuietStep

(* The server handles a request.                                           *)
LEMMA HandleRequestStep == ASSUME FeedInv, HandleRequest PROVE FeedInv'
<1>1. /\ UNCHANGED <<broker, phase, todo, hand, change, anchor, wanted, summaries, current, active,
                     rows, csv, alert, told, lost, faults, last, topics, market, open, net, pending>>
      /\ requests # <<>> /\ requests' = Tail(requests) /\ server' = Served(server, Head(requests))
  BY DEF HandleRequest, universe, files, status, news, environment
<1>2. FeedTypes /\ requests \in Seq(Requests) /\ server \in SUBSET Symbols
  BY DEF FeedInv, FeedTypes
<1>3. requests' \in Seq(Requests) /\ server' \in SUBSET Symbols
  <2>1. Head(requests) \in Requests /\ Tail(requests) \in Seq(Requests)
    BY <1>1, <1>2
  <2> DEFINE r == Head(requests)
  <2>2. r \in Requests
    BY <2>1
  <2> HIDE DEF r
  <2>3. Served(server, r) \in SUBSET Symbols
    BY <1>2, <2>2 DEF Served, Requests
  <2> QED BY <1>1, <2>1, <2>3 DEF r
<1>4. FeedTypes'
  BY <1>1, <1>2, <1>3 DEF FeedTypes
<1>5. ServerOK'
  <2>1. WillServe' = WillServe
    <3>1. WillServe' = Serving(server', requests')
      BY DEF WillServe, Naming, Serving, NamingIn
    <3>2. Serving(server', requests') = Serving(server, requests)
      BY <1>1, <1>2, ServingOne
    <3> QED BY <3>1, <3>2, WillServeIs
  <2> QED BY <1>1, <2>1 DEF FeedInv, ServerOK, ServerAgrees, Connected
<1>6. (Starting /\ ~Before("connect")) \/ phase = "live"
  BY <1>1 DEF FeedInv, PhaseOK, Resting, Starting, Reading, Handling, Refreshing
<1> QED BY <1>1, <1>4, <1>5, <1>6, QuietStep

(* The server sends a tick.                                                *)
LEMMA SendTickStep == ASSUME FeedInv, NEW s \in Symbols, SendTick(s) PROVE FeedInv'
<1> DEFINE m == [symbol |-> s, price |-> market[s[1]], snapshot |-> s \in owed]
<1>1. /\ UNCHANGED <<broker, phase, todo, hand, change, anchor, wanted, summaries, current, active,
                     rows, csv, alert, told, lost, faults, last, topics, market, open, requests, server, pending>>
      /\ net' = Append(net, m)
  BY DEF SendTick, universe, files, status, news, environment
<1>2. m \in Messages
  <2>1. market[s[1]] \in Prices
    BY DEF FeedInv, FeedTypes, Symbols, Spots, Spot, Derivatives
  <2> QED BY <2>1 DEF Messages
<1>3. FeedTypes'
  BY <1>1, <1>2 DEF FeedInv, FeedTypes
<1>4. ServerOK'
  BY <1>1, ServerStays DEF Connected
<1> QED BY <1>1, <1>3, <1>4, QuietStep

(* A message is parsed.                                                    *)
LEMMA ReceiveStep == ASSUME FeedInv, Receive PROVE FeedInv'
<1> DEFINE m == Head(net)
<1>1. /\ UNCHANGED <<broker, phase, hand, change, anchor, wanted, summaries, current, active,
                     rows, csv, alert, told, lost, faults, last, market, open, requests, server>>
      /\ net # <<>> /\ (MayRead \/ InFrame) /\ net' = Tail(net)
      /\ topics' = IF broker = "FYERS" THEN [topics EXCEPT ![m.symbol] = Topic(m)] ELSE topics
      /\ pending' = pending \o Parsed(m)
      /\ \/ todo' = IF InFrame THEN <<>> ELSE todo
         \/ broker = "FYERS" /\ todo' = <<"frame">>
  BY DEF Receive, universe, files, status, news, environment
<1>2. FeedTypes /\ PhaseOK /\ net \in Seq(Messages) /\ pending \in Seq(Events)
      /\ topics \in [Symbols -> TopicStates \cup {None}] /\ active \subseteq Symbols
      /\ broker \in {"DELTA", "FYERS", "DB", "ANGEL"}
  BY FeedAssumption DEF FeedInv, FeedTypes
<1>3. m \in Messages /\ net' \in Seq(Messages)
  BY <1>1, <1>2
<1> HIDE DEF m
<1>4. /\ m.symbol \in Symbols /\ m.price \in Prices /\ m.snapshot \in BOOLEAN
  BY <1>3 DEF Messages
<1>5. Topic(m) \in TopicStates \cup {None}
  <2>1. CASE m.snapshot
    BY <2>1, <1>4 DEF Topic, TopicStates
  <2>2. CASE ~m.snapshot /\ topics[m.symbol] = None
    BY <2>2 DEF Topic
  <2>3. CASE ~m.snapshot /\ topics[m.symbol] # None
    <3>1. topics[m.symbol] \in TopicStates
      BY <1>2, <1>4, <2>3
    <3>2. [topics[m.symbol] EXCEPT !.price = m.price] \in TopicStates
      BY <3>1, <1>4 DEF TopicStates
    <3> QED BY <3>2, <2>3 DEF Topic
  <2> QED BY <2>1, <2>2, <2>3
<1>6. topics' \in [Symbols -> TopicStates \cup {None}]
  BY <1>1, <1>2, <1>4, <1>5
<1>7. pending' \in Seq(Events)
  <2>1. \A named \in BOOLEAN : Event(m, named) \in Events
    BY <1>4 DEF Event, Events
  <2>2. Topic(m) # None => Topic(m).named \in BOOLEAN
    BY <1>5 DEF TopicStates
  <2>3. \A e \in Events : <<e>> \in Seq(Events)
    OBVIOUS
  <2>4. FyersEvents(m) \in Seq(Events)
    BY <2>1, <2>2, <2>3 DEF FyersEvents
  <2>5. DeltaEvents(m) \in Seq(Events) /\ DbEvents(m) \in Seq(Events) /\ AngelEvents(m) \in Seq(Events)
    <3>1. \A named \in BOOLEAN : <<Event(m, named)>> \in Seq(Events)
      BY <2>1, <2>3
    <3>2. (m.symbol \in active) \in BOOLEAN /\ TRUE \in BOOLEAN
      OBVIOUS
    <3>3. <<Event(m, TRUE)>> \in Seq(Events) /\ <<Event(m, m.symbol \in active)>> \in Seq(Events)
      BY <3>1, <3>2, Zenon
    <3> QED BY <3>3 DEF DeltaEvents, DbEvents, AngelEvents
  <2>6. Parsed(m) \in Seq(Events)
    BY <1>2, <2>4, <2>5 DEF Parsed
  <2> HIDE DEF m
  <2> QED BY <2>6, <1>1, <1>2
<1>8. FeedTypes'
  BY <1>1, <1>2, <1>3, <1>6, <1>7 DEF FeedTypes
<1>9. CASE InFrame
  <2>1. Reading /\ broker = "FYERS" /\ todo = <<"frame">>
    <3>1. At("frame")
      BY <1>9 DEF InFrame, At
    <3>2. Reading /\ broker = "FYERS" /\ todo # <<>>
      BY <3>1, <1>2, StepIs
    <3> QED BY <3>2 DEF Reading
  <2>2. Reading'
    BY <1>1, <1>9, <2>1 DEF Reading
  <2>3. Connected' => Connected
    <3>1. ToSet(<<"frame">>) = {"frame"}
      BY Call1
    <3> QED BY <3>1, <2>1, <1>1 DEF Connected, Reading
  <2>4. ServerOK'
    BY <1>1, <2>3, ServerStays
  <2> QED BY <1>1, <1>8, <2>1, <2>2, <2>4, QuietStep
<1>10. CASE ~InFrame /\ todo' = todo
  <2>1. ServerOK'
    BY <1>1, <1>10, ServerStays DEF Connected
  <2> QED BY <1>1, <1>8, <1>10, <2>1, QuietStep
<1>11. CASE ~InFrame /\ broker = "FYERS" /\ todo' = <<"frame">>
  <2>1. phase = "live" /\ todo = <<>>
    BY <1>1, <1>11 DEF MayRead
  <2>2. Reading
    BY <2>1, <1>2, IdleIs
  <2>3. Reading'
    BY <1>1, <1>11, <2>2 DEF Reading
  <2>4. Connected' => Connected
    <3>1. ToSet(<<>>) = {}
      BY DEF ToSet
    <3> QED BY <3>1, <2>1 DEF Connected
  <2>5. ServerOK'
    BY <1>1, <2>4, ServerStays
  <2> QED BY <1>1, <1>8, <2>2, <2>3, <2>5, QuietStep
<1> QED BY <1>1, <1>9, <1>10, <1>11

(* A message more is appended.                                             *)
LEMMA OneMore ==
    ASSUME NEW T, NEW q \in Seq(T), NEW r \in T
    PROVE  q \o <<r>> = Append(q, r)
<1> DEFINE c == q \o <<r>>
           p == Append(q, r)
<1>1. <<r>> \in Seq(T) /\ Len(<<r>>) = 1 /\ <<r>>[1] = r
  OBVIOUS
<1>2. c \in Seq(T) /\ p \in Seq(T) /\ Len(c) = Len(q) + 1 /\ Len(p) = Len(q) + 1
  BY <1>1
<1>3. \A i \in 1..(Len(q) + 1) : c[i] = p[i]
  BY <1>1
<1> HIDE DEF c, p
<1>4. c = p
  BY <1>2, <1>3
<1> QED BY <1>4 DEF c, p

(* Subscribing: the request is the last the server will handle.            *)
LEMMA SubscribeIs ==
    ASSUME FeedTypes, ServerOK, UNCHANGED broker, Connected, NEW S \in SUBSET Symbols, Subscribe(S)
    PROVE  /\ active' = active \cup S /\ active' \subseteq Symbols /\ server' \subseteq Symbols
           /\ requests' \in Seq(Requests) /\ pending' \in Seq(Events)
           /\ ServerOK' /\ net' = net /\ topics' = topics
<1> DEFINE new == S \ active
           r == [op |-> "subscribe", symbols |-> new]
<1>1. /\ new \in SUBSET Symbols /\ active \subseteq Symbols /\ server \in SUBSET Symbols
      /\ requests \in Seq(Requests) /\ pending \in Seq(Events)
  BY DEF FeedTypes
<1>2. active' = active \cup S /\ net' = net /\ topics' = topics
  BY DEF Subscribe
<1>3. active \subseteq WillServe /\ (broker # "DB" => WillServe = active)
      /\ (broker = "DB" => requests = <<>>)
  BY DEF ServerOK, ServerAgrees
<1>4. WillServe = Serving(server, requests) /\ WillServe' = Serving(server', requests')
  BY WillServeIs DEF WillServe, Naming, Serving, NamingIn
<1>5. CASE broker = "DB"
  <2>1. server' = server \cup new /\ pending' = pending \o Quotes(new) /\ requests' = requests
    BY <1>5 DEF Subscribe, SubscribeCall
  <2>2. Quotes(new) \in Seq(Events)
    BY <1>1, QuotesAre
  <2> HIDE DEF new
  <2>3. pending' \in Seq(Events) /\ server' \in SUBSET Symbols
    BY <2>1, <2>2, <1>1
  <2>4. WillServe = server /\ WillServe' = server'
    BY <1>3, <1>4, <1>5, <2>1, <2>3, <1>1, ServingNothing
  <2>5. active' \subseteq WillServe'
    BY <2>1, <2>4, <1>2, <1>3 DEF new
  <2> QED BY <1>1, <1>2, <1>3, <1>5, <2>1, <2>3, <2>5 DEF ServerOK, ServerAgrees
<1>6. CASE broker # "DB"
  <2>1. /\ server' = server /\ pending' = pending
        /\ requests' = requests \o Message("subscribe", new)
    BY <1>6 DEF Subscribe, Send
  <2>2. requests' \in Seq(Requests) /\ WillServe' = WillServe \cup new
    <3>1. CASE new = {}
      <4>1. requests' = requests
        BY <2>1, <3>1, <1>1 DEF Message
      <4> QED BY <4>1, <1>1, <1>4, <2>1, <3>1
    <3>2. CASE new # {}
      <4>1. Message("subscribe", new) = <<r>>
        BY <3>2 DEF Message
      <4>2. r \in Requests
        BY <1>1 DEF Requests
      <4> HIDE DEF r
      <4>3. requests' = Append(requests, r)
        BY <4>1, <4>2, <2>1, <1>1, OneMore
      <4>4. WillServe' = Served(WillServe, r)
        BY <4>2, <4>3, <1>1, <1>4, <2>1, ServingMore
      <4>5. r.op = "subscribe" /\ r.symbols = new
        BY DEF r
      <4> QED BY <4>2, <4>3, <4>4, <4>5, <1>1 DEF Served
    <3> QED BY <3>1, <3>2
  <2>3. WillServe' = active'
    BY <2>2, <1>2, <1>3, <1>6
  <2> QED BY <1>1, <1>2, <1>6, <2>1, <2>2, <2>3 DEF ServerOK, ServerAgrees
<1> QED BY <1>5, <1>6

(* Unsubscribing.                                                          *)
LEMMA UnsubscribeIs ==
    ASSUME FeedTypes, ServerOK, UNCHANGED broker, Connected, NEW S \in SUBSET Symbols,
           Unsubscribe(S)
    PROVE  /\ active' = active \ S /\ server' \subseteq Symbols
           /\ requests' \in Seq(Requests) /\ pending' \in Seq(Events)
           /\ ServerOK' /\ net' = net /\ topics' \in [Symbols -> TopicStates \cup {None}]
<1> DEFINE old == S \cap active
           r == [op |-> "unsubscribe", symbols |-> old]
<1>1. /\ old \in SUBSET Symbols /\ active \subseteq Symbols /\ server \in SUBSET Symbols
      /\ requests \in Seq(Requests) /\ pending \in Seq(Events)
  BY DEF FeedTypes
<1>2. active' = active \ S /\ net' = net
  BY DEF Unsubscribe
<1>3. active \subseteq WillServe /\ (broker # "DB" => WillServe = active)
      /\ (broker = "DB" => requests = <<>>)
  BY DEF ServerOK, ServerAgrees
<1>4. WillServe = Serving(server, requests) /\ WillServe' = Serving(server', requests')
  BY WillServeIs DEF WillServe, Naming, Serving, NamingIn
<1>5. topics' \in [Symbols -> TopicStates \cup {None}]
  BY DEF Unsubscribe, FeedTypes
<1>6. CASE broker = "DB"
  <2>1. server' = server \ old /\ pending' = pending /\ requests' = requests
    BY <1>6 DEF Unsubscribe, UnsubscribeCall
  <2>2. server' \in SUBSET Symbols
    BY <2>1, <1>1
  <2>3. WillServe = server /\ WillServe' = server'
    BY <1>3, <1>4, <1>6, <2>1, <2>2, <1>1, ServingNothing
  <2>4. active' \subseteq WillServe'
    BY <2>1, <2>3, <1>2, <1>3
  <2> QED BY <1>1, <1>2, <1>3, <1>5, <1>6, <2>1, <2>2, <2>4 DEF ServerOK, ServerAgrees
<1>7. CASE broker # "DB"
  <2>1. /\ server' = server /\ pending' = pending
        /\ requests' = requests \o Message("unsubscribe", old)
    BY <1>7 DEF Unsubscribe, Send
  <2>2. requests' \in Seq(Requests) /\ WillServe' = WillServe \ old
    <3>1. CASE old = {}
      <4>1. requests' = requests
        BY <2>1, <3>1, <1>1 DEF Message
      <4> QED BY <4>1, <1>1, <1>4, <2>1, <3>1
    <3>2. CASE old # {}
      <4>1. Message("unsubscribe", old) = <<r>>
        BY <3>2 DEF Message
      <4>2. r \in Requests
        BY <1>1 DEF Requests
      <4> HIDE DEF r
      <4>3. requests' = Append(requests, r)
        BY <4>1, <4>2, <2>1, <1>1, OneMore
      <4>4. WillServe' = Served(WillServe, r)
        BY <4>2, <4>3, <1>1, <1>4, <2>1, ServingMore
      <4>5. r.op = "unsubscribe" /\ r.symbols = old
        BY DEF r
      <4> QED BY <4>2, <4>3, <4>4, <4>5, <1>1 DEF Served
    <3> QED BY <3>1, <3>2
  <2>3. WillServe' = active'
    BY <2>2, <1>2, <1>3, <1>7
  <2> QED BY <1>1, <1>2, <1>5, <1>7, <2>1, <2>2, <2>3 DEF ServerOK, ServerAgrees
<1> QED BY <1>6, <1>7

(* What a run that starts has to keep.                                     *)
LEMMA StartKeeps ==
    ASSUME FeedTypes', Fresh', Resting' \/ Starting', RowsOK', ListedOK', CsvOK', ServerOK', AlertOK'
    PROVE  FeedInv'
<1>1. \A u \in Unders : active' \cap Derivatives(u) = {}
  <2>1. active' = {} \/ active' = Spots
    BY DEF Resting, Starting
  <2> QED BY <2>1, SymbolsAre
<1>2. \A u \in Unders : UniverseOK(u)'
  <2> SUFFICES ASSUME NEW u \in Unders PROVE UniverseOK(u)'
    OBVIOUS
  <2>1. anchor'[u] = None /\ summaries'[u] = None /\ wanted'[u] = {} /\ change' = None
    BY DEF Fresh, NoneOf
  <2> QED BY <2>1, <1>1 DEF UniverseOK, Changing
<1>3. SpotsOK'
  <2>1. phase' # "live" /\ current' = {}
    BY DEF Resting, Starting, Fresh
  <2>2. broker' = "ANGEL" => active' = {}
    BY DEF Resting, Starting
  <2> QED BY <2>1, <2>2 DEF SpotsOK
<1> QED BY <1>2, <1>3 DEF FeedInv, PhaseOK

(* The call of a run that starts goes on: what is before it after a step.  *)
LEMMA StartGoesOn ==
    ASSUME FeedInv, NEW name, Step(name), name \notin {"recovered", "frame"},
           name \in {"session", "connect", "file", "empty_csv", "spots"},
           UNCHANGED <<broker, phase, hand, change, universe, last, alert, told, lost, faults>>,
           FeedTypes', RowsOK', ListedOK', CsvOK', ServerOK',
           IF name = "spots" THEN active' = Spots
           ELSE active' = active /\ requests' = requests
    PROVE  FeedInv'
<1>1. FeedTypes /\ PhaseOK /\ At(name) /\ todo' = Tail(todo)
  BY DEF FeedInv, Step
<1>2. /\ Starting /\ todo' \in StartTodo /\ Before(name) /\ ToSet(todo') = ToSet(todo) \ {name}
      /\ name = "spots" => broker # "ANGEL" /\ ~Before("connect") /\ ~Before("file")
  BY <1>1, StepIs
<1>3. \A n : Before(n)' <=> Before(n) /\ n # name
  BY <1>2 DEF Before
<1>4. StartTodo' = StartTodo
  BY DEF StartTodo
<1>5. Fresh'
  BY <1>2 DEF Starting, Fresh, universe
<1>8. AlertOK'
  BY DEF FeedInv, AlertOK, Muted
<1>6. CASE name = "spots"
  <2>1. active' = IF (broker = "ANGEL" \/ Before("spots"))' THEN {} ELSE Spots
    BY <1>2, <1>3, <1>6
  <2>2. ~Before("connect")'
    <3>1. ~Before("connect")
      BY <1>2, <1>6
    <3>2. Before("connect")' <=> Before("connect") /\ "connect" # name
      BY <1>3
    <3> QED BY <3>1, <3>2
  <2>3. Starting'
    BY <1>2, <1>4, <1>5, <2>1, <2>2 DEF Starting
  <2> QED BY <2>3, <1>5, <1>8, StartKeeps
<1>7. CASE name # "spots"
  <2>1. Before("spots")' <=> Before("spots")
    BY <1>3, <1>7
  <2>2. active' = IF (broker = "ANGEL" \/ Before("spots"))' THEN {} ELSE Spots
    BY <1>2, <1>7, <2>1 DEF Starting
  <2>3. Before("connect")' => requests' = <<>> /\ active' = {}
    BY <1>2, <1>3, <1>7 DEF Starting
  <2>4. Starting'
    BY <1>2, <1>4, <1>5, <2>2, <2>3 DEF Starting
  <2> QED BY <2>4, <1>5, <1>8, StartKeeps
<1> QED BY <1>6, <1>7

(* Only the step of the file and of the csv matter to them at the start.   *)
LEMMA StartFiles ==
    ASSUME FeedInv, NEW name, Step(name), name \in {"session", "connect", "spots"},
           UNCHANGED <<broker, phase, hand, change, universe, last, files>>
    PROVE  RowsOK' /\ ListedOK' /\ CsvOK'
<1>1. /\ Starting /\ ToSet(todo') = ToSet(todo) \ {name}
  BY StepIs DEF FeedInv, Step
<1>2. \A n \in {"file", "empty_csv", "prices"} : Before(n)' <=> Before(n)
  BY <1>1 DEF Before
<1>3. UNCHANGED <<rows, csv, summaries, broker, phase, hand, last>> /\ phase = "starting" /\ hand = None
  BY <1>1 DEF universe, files, Starting, Fresh
<1>4. RowsOK'
  BY <1>2, <1>3 DEF FeedInv, RowsOK, InHand
<1>5. CsvOK'
  BY <1>2, <1>3 DEF FeedInv, CsvOK
<1>6. ListedOK'
  BY <1>2, <1>3 DEF FeedInv, ListedOK, Listed, InHand
<1> QED BY <1>4, <1>5, <1>6

(* FYERS waits for an exchange.                                            *)
LEMMA AwaitSessionStep == ASSUME FeedInv, AwaitSession PROVE FeedInv'
<1>1. /\ Step("session")
      /\ UNCHANGED <<broker, phase, hand, change, universe, last, files, alert, told, lost, faults>>
      /\ UNCHANGED <<market, open, anchor, summaries, wanted, current, active, server, topics,
                     requests, net, pending, rows>>
  BY DEF AwaitSession, environment, universe, wire, files, status, news
<1>2. FeedTypes'
  BY <1>1 DEF FeedInv, FeedTypes
<1>3. RowsOK' /\ ListedOK' /\ CsvOK'
  BY <1>1, StartFiles
<1>4. ServerOK'
  <2>1. ToSet(todo') = ToSet(todo) \ {"session"}
    BY <1>1, StepIs DEF FeedInv, Step
  <2>2. Connected' => Connected
    BY <2>1, <1>1 DEF Connected
  <2> QED BY <2>2, <1>1, ServerStays
<1> QED BY <1>1, <1>2, <1>3, <1>4, StartGoesOn

(* A run connects.                                                         *)
LEMMA ConnectStep == ASSUME FeedInv, Connect PROVE FeedInv'
<1>1. /\ Step("connect") /\ server' \in {{}, server} /\ (broker # "DB" => server' = {})
      /\ UNCHANGED <<broker, phase, hand, change, universe, last, files, alert, told, lost, faults>>
      /\ UNCHANGED <<market, open, anchor, summaries, wanted, current, active, topics,
                     requests, net, pending, rows>>
  BY DEF Connect, environment, universe, files, status, news
<1>2. FeedTypes'
  <2>1. server' \subseteq Symbols
    BY <1>1 DEF FeedInv, FeedTypes
  <2> QED BY <1>1, <2>1 DEF FeedInv, FeedTypes
<1>3. RowsOK' /\ ListedOK' /\ CsvOK'
  BY <1>1, StartFiles
<1>4. ServerOK'
  <2>1. Starting /\ Before("connect")
    BY <1>1, StepIs DEF FeedInv, Step
  <2>2. requests' = <<>> /\ active' = {}
    BY <2>1, <1>1 DEF Starting
  <2>3. server' \in SUBSET Symbols
    BY <1>2 DEF FeedTypes
  <2>4. WillServe' = server'
    <3>1. WillServe' = Serving(server', requests')
      BY DEF WillServe, Naming, Serving, NamingIn
    <3> QED BY <3>1, <2>2, <2>3, ServingNothing
  <2> QED BY <2>2, <2>4, <1>1 DEF ServerOK, ServerAgrees
<1> QED BY <1>1, <1>2, <1>3, <1>4, StartGoesOn

(* The latest-price file starts over.                                      *)
LEMMA StartFileStep == ASSUME FeedInv, StartFile PROVE FeedInv'
<1>1. /\ Step("file") /\ rows' = InitialRows
      /\ UNCHANGED <<broker, phase, hand, change, universe, last, alert, told, lost, faults>>
      /\ UNCHANGED <<market, open, anchor, summaries, wanted, current, active, server, topics,
                     requests, net, pending, csv>>
  BY DEF StartFile, environment, universe, wire, status, news
<1>2. PICK S : S \subseteq Symbols /\ rows' = [s \in S |-> [symbol |-> s, price |-> None]]
  <2>1. FirstSymbols \subseteq Spots
    <3>1. FileUnders \subseteq Unders
      BY FeedAssumption DEF FileUnders
    <3> QED BY <3>1 DEF FirstSymbols, Spots
  <2>2. FirstSymbols \subseteq Symbols
    BY <2>1, SymbolsAre
  <2> QED BY <2>2, <1>1 DEF InitialRows, Row
<1>4. FeedTypes'
  <2>1. /\ rows' = [x \in DOMAIN rows' |-> [symbol |-> rows'[x].symbol, price |-> rows'[x].price]]
        /\ \A x \in DOMAIN rows' : rows'[x].symbol \in Symbols
    BY <1>2
  <2> QED BY <1>1, <2>1 DEF FeedInv, FeedTypes
<1>5. RowsOK'
  BY <1>2 DEF RowsOK
<1>9. ListedOK'
  <2> SUFFICES ASSUME broker = "DB", NEW s \in Spots PROVE Listed(s)'
    BY <1>1 DEF ListedOK
  <2>1. ~Slotted
    BY DEF Slotted
  <2>2. s \in DOMAIN rows' /\ rows'[s] = [symbol |-> s, price |-> None]
    BY <2>1, <1>1 DEF InitialRows, FirstSymbols, Row
  <2>3. last[s] = None
    <3>1. Starting /\ s \in Symbols
      BY <1>1, StepIs, SymbolsAre DEF FeedInv, Step
    <3> QED BY <3>1 DEF Starting, Fresh, NoneOf
  <2> QED BY <2>2, <2>3, <1>1 DEF Listed
<1>6. /\ Starting /\ ToSet(todo') = ToSet(todo) \ {"file"} /\ Before("file")
  BY <1>1, StepIs DEF FeedInv, Step
<1>7. CsvOK'
  <2>1. phase' = "starting"
    BY <1>1, <1>6 DEF Starting
  <2>2. broker' = "ANGEL" => Before("empty_csv")'
    <3>1. ASSUME broker = "ANGEL" PROVE todo = <<"file", "empty_csv", "connect", "recovered">>
      <4>1. todo \in Ends("file", "empty_csv", "connect", "recovered") /\ Head(todo) = "file"
        BY <1>1, <1>6, <3>1 DEF Starting, StartTodo, Step, At
      <4>2. Head(todo) = "file" => Tail(todo) = <<"empty_csv", "connect", "recovered">>
        BY <4>1, EndsAre
      <4>3. Tail(<<"recovered">>) = <<>> /\ Tail(<<"connect", "recovered">>) = <<"recovered">>
            /\ Tail(<<"empty_csv", "connect", "recovered">>) = <<"connect", "recovered">>
        OBVIOUS
      <4>4. Head(<<"recovered">>) # "file" /\ Head(<<"connect", "recovered">>) # "file"
            /\ Head(<<"empty_csv", "connect", "recovered">>) # "file"
        OBVIOUS
      <4> QED BY <4>1, <4>4 DEF Ends
    <3>2. ToSet(<<"file", "empty_csv", "connect", "recovered">>) = {"file", "empty_csv", "connect", "recovered"}
      <4>1. DOMAIN <<"file", "empty_csv", "connect", "recovered">> = {1, 2, 3, 4}
        OBVIOUS
      <4> QED BY <4>1 DEF ToSet
    <3> QED BY <3>1, <3>2, <1>1, <1>6 DEF Before
  <2> QED BY <2>1, <2>2 DEF CsvOK
<1>8. ServerOK'
  <2>1. Connected' => Connected
    BY <1>1, <1>6 DEF Connected
  <2> QED BY <2>1, <1>1, ServerStays
<1> QED BY <1>1, <1>4, <1>5, <1>7, <1>8, <1>9, StartGoesOn

(* ANGEL empties its derivatives file.                                     *)
LEMMA StartCsvStep == ASSUME FeedInv, StartCsv PROVE FeedInv'
<1>1. /\ Step("empty_csv") /\ csv' = {}
      /\ UNCHANGED <<broker, phase, hand, change, universe, last, alert, told, lost, faults>>
      /\ UNCHANGED <<market, open, anchor, summaries, wanted, current, active, server, topics,
                     requests, net, pending, rows>>
  BY DEF StartCsv, environment, universe, wire, status, news
<1>2. FeedTypes'
  BY <1>1 DEF FeedInv, FeedTypes
<1>3. /\ Starting /\ ToSet(todo') = ToSet(todo) \ {"empty_csv"}
  BY <1>1, StepIs DEF FeedInv, Step
<1>4. RowsOK'
  <2>1. \A n \in {"file", "prices"} : Before(n)' <=> Before(n)
    BY <1>3 DEF Before
  <2> QED BY <2>1, <1>1 DEF FeedInv, RowsOK, InHand
<1>7. ListedOK'
  <2>1. \A n \in {"file", "prices"} : Before(n)' <=> Before(n)
    BY <1>3 DEF Before
  <2> QED BY <2>1, <1>1 DEF FeedInv, ListedOK, Listed, InHand
<1>5. CsvOK'
  BY <1>1, <1>3 DEF CsvOK, Starting
<1>6. ServerOK'
  <2>1. Connected' => Connected
    BY <1>1, <1>3 DEF Connected
  <2> QED BY <2>1, <1>1, ServerStays
<1> QED BY <1>1, <1>2, <1>4, <1>5, <1>6, <1>7, StartGoesOn

(* The spots are subscribed.                                               *)
LEMMA SubscribeSpotsStep == ASSUME FeedInv, SubscribeSpots PROVE FeedInv'
<1>1. /\ Step("spots") /\ Subscribe(Spots)
      /\ UNCHANGED <<broker, phase, hand, change, universe, last, files, alert, told, lost, faults>>
      /\ UNCHANGED <<market, open, anchor, summaries, wanted, current, rows>>
  BY DEF SubscribeSpots, environment, universe, files, status, news
<1>2. /\ Starting /\ Before("spots") /\ ~Before("connect") /\ FeedTypes /\ ServerOK
      /\ ToSet(todo') = ToSet(todo) \ {"spots"}
  BY <1>1, StepIs DEF FeedInv, Step
<1>3. Connected
  BY <1>2 DEF Connected, Before, Starting
<1>4. active = {}
  BY <1>2 DEF Starting
<1>5. /\ active' = Spots /\ server' \subseteq Symbols /\ active' \subseteq Symbols
      /\ requests' \in Seq(Requests) /\ pending' \in Seq(Events)
      /\ ServerOK' /\ net' = net /\ topics' = topics
  BY <1>1, <1>2, <1>3, <1>4, SubscribeIs, SymbolsAre
<1>6. FeedTypes'
  BY <1>1, <1>2, <1>5 DEF FeedTypes
<1>7. RowsOK' /\ ListedOK' /\ CsvOK'
  BY <1>1, StartFiles
<1> QED BY <1>1, <1>5, <1>6, <1>7, StartGoesOn

(* The run is live.                                                        *)
LEMMA RecoveredStep == ASSUME FeedInv, Recovered PROVE FeedInv'
<1>1. /\ Step("recovered") /\ NotifyRecovery /\ phase' = "live"
      /\ UNCHANGED <<broker, hand, change, last>>
      /\ UNCHANGED <<market, open, anchor, summaries, wanted, current, active, server, topics,
                     requests, net, pending, rows, csv>>
  BY DEF Recovered, environment, universe, wire, files
<1>2. /\ Starting /\ FeedTypes /\ ~Before("spots") /\ ~Before("connect") /\ ~Before("file")
      /\ ~Before("empty_csv") /\ todo' = <<>>
  BY <1>1, StepIs DEF FeedInv, Step
<1>3. ToSet(todo') = {}
  BY <1>2 DEF ToSet
<1>4. /\ hand = None /\ change = None /\ current = {}
      /\ \A u \in Unders : anchor[u] = None /\ summaries[u] = None /\ wanted[u] = {}
      /\ active = IF broker = "ANGEL" THEN {} ELSE Spots
  BY <1>2 DEF Starting, Fresh, NoneOf
<1>5. FeedTypes'
  <2>1. alert' = [active |-> FALSE, message |-> alert.message]
    BY <1>1, <1>2 DEF NotifyRecovery, FeedTypes, news
  <2>2. alert' = [active |-> alert'.active, message |-> alert'.message] /\ alert'.active \in BOOLEAN
    BY <2>1
  <2> QED BY <1>1, <1>2, <2>2 DEF FeedTypes
<1>6. PhaseOK'
  BY <1>1, <1>2, <1>4 DEF PhaseOK, Reading
<1>7. ASSUME NEW u \in Unders PROVE UniverseOK(u)'
  <2>1. active' \cap Derivatives(u) = {}
    BY <1>1, <1>4, SymbolsAre
  <2>2. anchor'[u] = None /\ summaries'[u] = None /\ wanted'[u] = {} /\ change' = None
    BY <1>1, <1>4
  <2> QED BY <2>1, <2>2 DEF UniverseOK, Changing
<1>8. SpotsOK'
  <2>1. broker = "ANGEL" => active' = {} /\ current' = {}
    BY <1>1, <1>4
  <2> QED BY <2>1, <1>1, <1>4 DEF SpotsOK
<1>9. RowsOK'
  <2>1. phase = "starting"
    BY <1>2 DEF Starting
  <2>2. \A x \in DOMAIN rows : rows[x].price = None \/ rows[x].price = last[rows[x].symbol]
    BY <1>2, <1>4, <2>1 DEF FeedInv, RowsOK, InHand
  <2> QED BY <2>2, <1>1 DEF RowsOK
<1>13. ListedOK'
  <2>1. phase = "starting"
    BY <1>2 DEF Starting
  <2>2. broker = "DB" => \A s \in Spots : Listed(s)
    BY <1>2, <2>1 DEF FeedInv, ListedOK
  <2> QED BY <2>2, <1>1, <1>4 DEF ListedOK, Listed, InHand
<1>10. CsvOK'
  <2>1. CASE broker = "ANGEL"
    <3>1. csv' = {}
      BY <1>1, <1>2, <2>1 DEF FeedInv, CsvOK, Starting
    <3>2. {x \in Unders : summaries'[x] # None} = {}
      BY <1>1, <1>4
    <3>3. AllSelected(summaries') = {}
      BY <3>2 DEF AllSelected
    <3> QED BY <3>1, <3>3, <1>1 DEF CsvOK
  <2>2. CASE broker # "ANGEL"
    BY <1>1, <1>4, <2>2 DEF CsvOK
  <2> QED BY <2>1, <2>2
<1>11. ServerOK'
  <2>1. Connected
    BY <1>2 DEF Connected, Before, Starting
  <2> QED BY <2>1, <1>1, ServerStays
<1>12. AlertOK'
  <2>1. CASE alert.active
    <3>1. alert'.active = FALSE /\ (lost' \/ told' = "up")
      BY <2>1, <1>1, <1>2 DEF NotifyRecovery, FeedTypes, Sent
    <3> QED BY <3>1, <1>1 DEF AlertOK
  <2>2. CASE ~alert.active
    <3>1. alert' = alert /\ told' = told /\ lost' = lost
      BY <2>2, <1>1 DEF NotifyRecovery, news
    <3> QED BY <3>1, <2>2, <1>1 DEF FeedInv, AlertOK
  <2> QED BY <2>1, <2>2
<1> QED BY <1>5, <1>6, <1>7, <1>8, <1>9, <1>10, <1>11, <1>12, <1>13 DEF FeedInv

(* A tick is taken.                                                        *)
LEMMA TakeStep == ASSUME FeedInv, Take PROVE FeedInv'
<1> DEFINE e == Head(pending)
           kept == broker = "ANGEL" => e.named /\ e.symbol \in Tracked
<1>1. /\ phase = "live" /\ todo = <<>> /\ pending # <<>> /\ pending' = Tail(pending)
      /\ hand' = IF kept THEN e ELSE None
      /\ todo' = IF kept THEN TickSteps ELSE <<>>
      /\ last' = IF kept /\ e.named THEN [last EXCEPT ![e.symbol] = e.price] ELSE last
      /\ UNCHANGED <<broker, phase, change, market, open, anchor, summaries, wanted, current, active,
                     server, topics, requests, net, rows, csv, alert, told, lost, faults>>
  BY DEF Take, environment, universe, wire, files, status, news
<1>2. FeedTypes /\ PhaseOK /\ Reading
  BY <1>1, IdleIs DEF FeedInv
<1>3. e \in Events /\ pending' \in Seq(Events)
  BY <1>1, <1>2 DEF FeedTypes
<1> HIDE DEF e, kept
<1>4. e.symbol \in Symbols /\ e.price \in Prices /\ e.named \in BOOLEAN /\ e # None
      /\ e.price # None
  BY <1>3, NoneAssumption DEF Events
<1>5. last' \in [Symbols -> Prices \cup {None}]
  BY <1>1, <1>2, <1>4 DEF FeedTypes
<1>6. FeedTypes'
  BY <1>1, <1>2, <1>3, <1>5 DEF FeedTypes
<1>7. phase = "live" /\ hand = None /\ change = None /\ ToSet(todo) = {} /\ ToSet(<<>>) = {}
  BY <1>1, <1>2 DEF Reading, ToSet
<1>8. TickSteps \in TickTodo /\ {"prices", "spot"} \subseteq ToSet(TickSteps)
      /\ TickSteps # <<>> /\ "connect" \notin ToSet(TickSteps) /\ "csv" \notin ToSet(TickSteps)
  <2>1. ToSet(SlottedTick) = {"strategy", "prices", "spot"}
    <3>1. DOMAIN SlottedTick = {1, 2, 3}
      BY DEF SlottedTick
    <3> QED BY <3>1 DEF ToSet, SlottedTick
  <2>2. ToSet(ListedTick) = {"prices", "strategy", "spot"}
    <3>1. DOMAIN ListedTick = {1, 2, 3}
      BY DEF ListedTick
    <3> QED BY <3>1 DEF ToSet, ListedTick
  <2>3. TickSteps \in TickTodo
    BY DEF TickSteps, TickTodo, SlottedTick, ListedTick
  <2>4. TickSteps = SlottedTick \/ TickSteps = ListedTick
    BY DEF TickSteps
  <2>5. SlottedTick # <<>> /\ ListedTick # <<>>
    BY DEF SlottedTick, ListedTick
  <2> QED BY <2>1, <2>2, <2>3, <2>4, <2>5
<1>9. PhaseOK'
  <2>1. CASE kept
    <3>1. e.named => last'[e.symbol] = e.price
      BY <1>1, <1>2, <1>4, <2>1 DEF FeedTypes
    <3>2. TickTodo' = TickTodo
      BY <1>1 DEF TickTodo, Slotted
    <3>3. Handling'
      BY <3>1, <3>2, <1>1, <1>3, <1>7, <1>8, <2>1 DEF Handling
    <3> QED BY <3>3 DEF PhaseOK
  <2>2. CASE ~kept
    BY <2>2, <1>1, <1>7 DEF PhaseOK, Reading
  <2> QED BY <2>1, <2>2
<1>10. ASSUME NEW s \in Symbols, last'[s] # last[s]
       PROVE  InHand(s, "spot")' /\ InHand(s, "prices")' /\ last'[s] # None
  <2>1. kept /\ e.named /\ e.symbol = s /\ last'[s] = e.price
    BY <1>1, <1>2, <1>4, <1>10 DEF FeedTypes
  <2> QED BY <2>1, <1>1, <1>4, <1>8 DEF InHand, Before
<1>11. ASSUME NEW u \in Unders PROVE UniverseOK(u)'
  <2>1. Spot(u) \in Symbols
    BY SymbolsAre
  <2>2. UniverseOK(u) /\ ~Changing(u) /\ ~Changing(u)'
    BY <1>1, <1>7 DEF FeedInv, Changing
  <2>3. anchor'[u] # None => /\ last'[Spot(u)] # None
                             /\ ~Moved(anchor'[u], last'[Spot(u)]) \/ InHand(Spot(u), "spot")'
    BY <2>1, <2>2, <1>1, <1>7, <1>10 DEF UniverseOK, InHand
  <2> QED BY <2>2, <2>3, <1>1, <1>7 DEF UniverseOK, Before
<1>12. SpotsOK' /\ CsvOK' /\ AlertOK'
  <2>1. SpotsOK' /\ AlertOK'
    BY <1>1, <1>7 DEF FeedInv, SpotsOK, AlertOK, Muted
  <2>2. CsvOK'
    BY <1>1, <1>7 DEF FeedInv, CsvOK, AllSelected
  <2> QED BY <2>1, <2>2
<1>13. RowsOK'
  <2> SUFFICES ASSUME NEW x \in DOMAIN rows, rows[x].price # None
               PROVE  rows[x].price = last'[rows[x].symbol] \/ InHand(rows[x].symbol, "prices")'
    BY <1>1 DEF RowsOK
  <2>1. rows[x].price = last[rows[x].symbol]
    BY <1>7 DEF FeedInv, RowsOK, InHand
  <2>2. rows[x].symbol \in Symbols
    BY <1>2 DEF FeedTypes
  <2>3. CASE last'[rows[x].symbol] = last[rows[x].symbol]
    BY <2>1, <2>3
  <2>4. CASE last'[rows[x].symbol] # last[rows[x].symbol]
    <3>1. PICK s \in Symbols : s = rows[x].symbol
      BY <2>2
    <3>2. InHand(s, "prices")'
      BY <3>1, <2>4, <1>10
    <3> QED BY <3>1, <3>2, <1>1 DEF InHand
  <2> QED BY <2>3, <2>4
<1>14. ServerOK'
  BY <1>1, <1>7, <1>8, ServerStays DEF Connected
<1>15. ListedOK'
  <2> SUFFICES ASSUME broker = "DB", NEW s \in Spots PROVE Listed(s)'
    BY <1>1 DEF ListedOK
  <2>1. Listed(s) /\ s \in Symbols
    BY <1>1, SymbolsAre DEF FeedInv, ListedOK
  <2>2. s \in DOMAIN rows /\ rows[s].symbol = s /\ rows[s].price = last[s]
    BY <2>1, <1>7 DEF Listed, InHand
  <2>3. last'[s] = last[s] \/ InHand(s, "prices")'
    BY <2>1, <1>10
  <2> QED BY <2>2, <2>3, <1>1 DEF Listed
<1> QED BY <1>6, <1>9, <1>11, <1>12, <1>13, <1>14, <1>15 DEF FeedInv

(* A step of a tick that changes rows only.                                *)
LEMMA TickGoesOn ==
    ASSUME FeedInv, NEW name, Step(name), name \in {"strategy", "prices"},
           FeedTypes', RowsOK', ListedOK',
           UNCHANGED <<broker, phase, hand, change, anchor, wanted, summaries, current, active,
                       server, requests, csv, alert, told, lost, faults, last>>
    PROVE  FeedInv'
<1>1. FeedTypes /\ PhaseOK /\ At(name) /\ todo' = Tail(todo)
  BY DEF FeedInv, Step
<1>2. Handling /\ todo' \in TickTodo /\ ToSet(todo') = ToSet(todo) \ {name}
  BY <1>1, StepIs
<1>3. \A n \in {"spot", "csv", "subscribe", "unsubscribe", "connect"} : Before(n)' <=> Before(n)
  BY <1>2 DEF Before
<1>4. PhaseOK'
  <2>1. TickTodo' = TickTodo
    BY DEF TickTodo, Slotted
  <2> QED BY <2>1, <1>2 DEF PhaseOK, Handling
<1>5. \A u \in Unders : UniverseOK(u)'
  BY <1>3 DEF FeedInv, UniverseOK, Changing, Still, InHand
<1>6. SpotsOK' /\ AlertOK'
  BY DEF FeedInv, SpotsOK, AlertOK, Muted
<1>7. CsvOK'
  BY <1>2 DEF FeedInv, CsvOK, AllSelected, Handling
<1>8. ServerOK'
  BY <1>3, ServerStays DEF Connected, Before
<1> QED BY <1>4, <1>5, <1>6, <1>7, <1>8 DEF FeedInv

(* The strategies get the tick.                                            *)
LEMMA RunStrategyStep == ASSUME FeedInv, RunStrategy PROVE FeedInv'
<1>1. /\ Step("strategy")
      /\ UNCHANGED <<broker, phase, hand, change, anchor, wanted, summaries, current, active,
                     server, requests, csv, alert, told, lost, faults, last, market, open, topics, net, pending, rows>>
  BY DEF RunStrategy, environment, universe, wire, files, status, news
<1>2. FeedTypes'
  BY <1>1 DEF FeedInv, FeedTypes
<1>3. RowsOK'
  <2>1. ToSet(todo') = ToSet(todo) \ {"strategy"}
    BY <1>1, StepIs DEF FeedInv, Step
  <2>2. \A n \in {"file", "prices"} : Before(n)' <=> Before(n)
    BY <2>1 DEF Before
  <2> QED BY <2>2, <1>1 DEF FeedInv, RowsOK, InHand
<1>4. ListedOK'
  <2>1. ToSet(todo') = ToSet(todo) \ {"strategy"}
    BY <1>1, StepIs DEF FeedInv, Step
  <2>2. \A n \in {"file", "prices"} : Before(n)' <=> Before(n)
    BY <2>1 DEF Before
  <2> QED BY <2>2, <1>1 DEF FeedInv, ListedOK, Listed, InHand
<1> QED BY <1>1, <1>2, <1>3, <1>4, TickGoesOn

(* The rows of the tick's symbol get its price.                            *)
LEMMA UpdatePricesStep == ASSUME FeedInv, UpdatePrices PROVE FeedInv'
<1>1. /\ Step("prices")
      /\ rows' = IF hand.named THEN RowsWithPrice(hand.symbol, hand.price) ELSE rows
      /\ UNCHANGED <<broker, phase, hand, change, anchor, wanted, summaries, current, active,
                     server, requests, csv, alert, told, lost, faults, last, market, open, topics, net, pending>>
  BY DEF UpdatePrices, environment, universe, wire, files, status, news
<1>2. Handling /\ ToSet(todo') = ToSet(todo) \ {"prices"} /\ FeedTypes
  BY <1>1, StepIs DEF FeedInv, Step
<1>3. \A x \in DOMAIN rows :
         rows[x] = [symbol |-> rows[x].symbol, price |-> rows[x].price] /\ rows[x].symbol \in Symbols
  BY <1>2 DEF FeedTypes
<1>4. CASE hand.named
  <2> DEFINE s == hand.symbol
             p == hand.price
             row(x) == IF rows[x].symbol = s THEN [rows[x] EXCEPT !.price = p] ELSE rows[x]
  <2>1. \A x \in DOMAIN rows :
           /\ row(x) = [symbol |-> rows[x].symbol, price |-> row(x).price]
           /\ rows[x].symbol = s => row(x).price = p
           /\ rows[x].symbol # s => row(x).price = rows[x].price
    <3> SUFFICES ASSUME NEW x \in DOMAIN rows
                 PROVE  /\ row(x) = [symbol |-> rows[x].symbol, price |-> row(x).price]
                        /\ rows[x].symbol = s => row(x).price = p
                        /\ rows[x].symbol # s => row(x).price = rows[x].price
      OBVIOUS
    <3>1. PICK a, b : rows[x] = [symbol |-> a, price |-> b]
      BY <1>3
    <3>2. [rows[x] EXCEPT !.price = p] = [symbol |-> a, price |-> p]
      BY <3>1
    <3> QED BY <3>1, <3>2
  <2>2. rows' = [x \in DOMAIN rows |-> row(x)]
    BY <1>1, <1>4 DEF RowsWithPrice
  <2> HIDE DEF row
  <2>3. DOMAIN rows' = DOMAIN rows /\ \A x \in DOMAIN rows : rows'[x] = row(x)
    BY <2>2
  <2>4. /\ rows' = [x \in DOMAIN rows' |-> [symbol |-> rows'[x].symbol, price |-> rows'[x].price]]
        /\ \A x \in DOMAIN rows' : rows'[x].symbol \in Symbols
    BY <2>1, <2>2, <2>3, <1>3
  <2>5. FeedTypes'
    BY <2>4, <1>1, <1>2 DEF FeedTypes
  <2>6. RowsOK'
    <3> SUFFICES ASSUME NEW x \in DOMAIN rows
                 PROVE  rows'[x].price = None \/ rows'[x].price = last[rows'[x].symbol]
      BY <2>3, <1>1 DEF RowsOK
    <3>1. rows'[x].symbol = rows[x].symbol
      BY <2>1, <2>3
    <3>2. CASE rows[x].symbol = s
      <4>1. last[s] = p
        BY <1>2, <1>4 DEF Handling
      <4> QED BY <4>1, <3>1, <3>2, <2>1, <2>3
    <3>3. CASE rows[x].symbol # s
      <4>1. rows'[x].price = rows[x].price
        BY <3>3, <2>1, <2>3
      <4>2. rows[x].price = None \/ rows[x].price = last[rows[x].symbol]
        BY <3>3, <1>2 DEF FeedInv, RowsOK, InHand, Handling
      <4> QED BY <4>1, <4>2, <3>1
    <3> QED BY <3>2, <3>3
  <2>7. ListedOK'
    <3> SUFFICES ASSUME broker = "DB", NEW t \in Spots PROVE Listed(t)'
      BY <1>1 DEF ListedOK
    <3>1. Listed(t)
      BY <1>2 DEF FeedInv, ListedOK, Handling
    <3>2. t \in DOMAIN rows' /\ rows'[t].symbol = t
      BY <3>1, <2>1, <2>3 DEF Listed
    <3>3. CASE t = s
      <4>1. last[s] = p /\ rows'[t].price = p
        BY <3>1, <3>3, <1>2, <1>4, <2>1, <2>3 DEF Handling, Listed
      <4> QED BY <4>1, <3>2, <3>3, <1>1 DEF Listed
    <3>4. CASE t # s
      <4>1. rows'[t].price = rows[t].price /\ rows[t].price = last[t]
        BY <3>1, <3>4, <2>1, <2>3 DEF Listed, InHand
      <4> QED BY <4>1, <3>2, <1>1 DEF Listed
    <3> QED BY <3>3, <3>4
  <2> QED BY <2>5, <2>6, <2>7, <1>1, TickGoesOn
<1>5. CASE ~hand.named
  <2>1. FeedTypes'
    BY <1>1, <1>2, <1>5 DEF FeedTypes
  <2>2. RowsOK'
    BY <1>1, <1>2, <1>5 DEF FeedInv, RowsOK, InHand, Handling
  <2>3. ListedOK'
    BY <1>1, <1>2, <1>5 DEF FeedInv, ListedOK, Listed, InHand, Handling
  <2> QED BY <2>1, <2>2, <2>3, <1>1, TickGoesOn
<1> QED BY <1>4, <1>5

(* A price has not moved from itself.                                      *)
LEMMA NotMoved ==
    ASSUME NEW p \in Prices
    PROVE  ~Moved(p, p)
<1>1. p \in Nat /\ p > 0 /\ Trigger \in Nat /\ Trigger > 0
  BY FeedAssumption
<1>2. Trigger * p > 0
  <2>1. Trigger - 1 \in Nat /\ Trigger = (Trigger - 1) + 1
    BY <1>1
  <2>2. PICK t \in Nat : Trigger = t + 1
    BY <2>1
  <2>3. Trigger * p = t * p + p /\ t * p \in Nat
    BY <2>2, <1>1
  <2> QED BY <2>3, <1>1
<1>3. Abs(p - p) * 100 = 0
  BY <1>1 DEF Abs
<1> QED BY <1>1, <1>2, <1>3 DEF Moved

(* A tick of a spot: a refresh, or nothing more to do.                     *)
LEMMA HandleSpotTickStep == ASSUME FeedInv, HandleSpotTick PROVE FeedInv'
<1> DEFINE u == hand.symbol[1]
           p == hand.price
<1>1. /\ At("spot")
      /\ UNCHANGED <<broker, phase, summaries, current, active, server, requests, rows, csv, alert,
                     told, lost, faults, last, market, open, topics, net, pending>>
  BY DEF HandleSpotTick, environment, wire, files, status, news
<1>2. /\ Handling /\ ~Before("prices") /\ FeedTypes
  BY <1>1, StepIs DEF FeedInv
<1>3. /\ phase = "live" /\ hand \in Events /\ change = None /\ p \in Prices
      /\ hand.named \in BOOLEAN /\ hand.symbol \in Symbols
      /\ hand.named => last[hand.symbol] = p
  BY <1>2 DEF Handling, Events
<1>4. Connected
  <2>1. "connect" \notin ToSet(todo)
    <3>1. TickTodo \subseteq {<<"strategy", "prices", "spot">>, <<"prices", "spot">>, <<"spot">>,
                              <<"prices", "strategy", "spot">>, <<"strategy", "spot">>}
      BY DEF TickTodo
    <3>2. /\ ToSet(<<"strategy", "prices", "spot">>) = {"strategy", "prices", "spot"}
          /\ ToSet(<<"prices", "strategy", "spot">>) = {"prices", "strategy", "spot"}
      BY Call3, Zenon
    <3>3. /\ ToSet(<<"prices", "spot">>) = {"prices", "spot"}
          /\ ToSet(<<"strategy", "spot">>) = {"strategy", "spot"}
          /\ ToSet(<<"spot">>) = {"spot"}
      BY Call1, Call2, Zenon
    <3>4. todo \in TickTodo
      BY <1>2 DEF Handling
    <3> QED BY <3>1, <3>2, <3>3, <3>4
  <2> QED BY <2>1, <1>3 DEF Connected
<1>5. \A v \in Unders : UniverseOK(v) /\ ~Changing(v)
  BY <1>3 DEF FeedInv, Changing
<1>6. \A s \in Symbols : ~InHand(s, "prices")
  BY <1>2 DEF InHand
<1>7. RowsOK'
  <2>1. \A x \in DOMAIN rows : rows[x].price = None \/ rows[x].price = last[rows[x].symbol]
    BY <1>2, <1>3 DEF FeedInv, RowsOK, InHand
  <2> QED BY <2>1, <1>1 DEF RowsOK
<1>8. SpotsOK' /\ AlertOK' /\ ListedOK'
  <2>1. SpotsOK' /\ AlertOK'
    BY <1>1 DEF FeedInv, SpotsOK, AlertOK, Muted
  <2>2. broker = "DB" => \A s \in Spots : Listed(s) /\ ~InHand(s, "prices")
    BY <1>3, <1>6, SymbolsAre DEF FeedInv, ListedOK
  <2>3. ListedOK'
    BY <2>2, <1>1 DEF ListedOK, Listed
  <2> QED BY <2>1, <2>3
<1>9. CsvOK'
  BY <1>1, <1>3 DEF FeedInv, CsvOK, AllSelected
<1>10. ServerOK'
  BY <1>1, <1>4, ServerStays
<1>11. CASE /\ hand.named /\ IsReference(hand.symbol)
            /\ OnUnderlyingPrice(u, p) /\ ApplySymbols(u, Selected(u, p))
            /\ todo' = RefreshSteps /\ hand' = hand
  <2>1. PICK w \in Unders : /\ w = u /\ hand.symbol = Spot(w)
                             /\ (broker = "ANGEL" => w \in current)
    BY <1>11, SymbolsAre DEF IsReference
  <2>2. /\ anchor' = [anchor EXCEPT ![w] = p] /\ wanted' = [wanted EXCEPT ![w] = Selected(w, p)]
        /\ change' = [under |-> w, subscribe |-> Selected(w, p) \ wanted[w],
                      unsubscribe |-> wanted[w] \ Selected(w, p)]
    BY <1>11, <2>1 DEF OnUnderlyingPrice, ApplySymbols
  <2>3. /\ Selected(w, p) \subseteq Derivatives(w) /\ Derivatives(w) \subseteq Symbols
        /\ wanted[w] \subseteq Symbols
    BY <1>2, <1>3, <2>1, SymbolsAre DEF FeedTypes
  <2>4. FeedTypes'
    <3>1. anchor' \in [Unders -> Prices \cup {None}] /\ wanted' \in [Unders -> SUBSET Symbols]
      BY <1>2, <1>3, <2>1, <2>2, <2>3 DEF FeedTypes
    <3> QED BY <3>1, <1>1, <1>2 DEF FeedTypes
  <2>5. change' \in Changes /\ change' # None /\ change'.under = w
        /\ change'.subscribe = Selected(w, p) \ wanted[w]
        /\ change'.unsubscribe = wanted[w] \ Selected(w, p)
    <3>1. change' \in Changes
      BY <2>1, <2>2, <2>3 DEF Changes
    <3> QED BY <3>1, <2>2, NoneAssumption
  <2>6. /\ RefreshSteps \in RefreshTodo
        /\ {"csv", "subscribe", "unsubscribe"} \subseteq ToSet(todo')
    <3>1. ToSet(SlottedRefresh) = {"subscribe", "unsubscribe", "targets", "csv"}
      <4>1. DOMAIN SlottedRefresh = {1, 2, 3, 4}
        BY DEF SlottedRefresh
      <4> QED BY <4>1 DEF ToSet, SlottedRefresh
    <3>2. ToSet(ListedRefresh) = {"unsubscribe", "subscribe", "csv", "targets"}
      <4>1. DOMAIN ListedRefresh = {1, 2, 3, 4}
        BY DEF ListedRefresh
      <4> QED BY <4>1 DEF ToSet, ListedRefresh
    <3>3. RefreshSteps \in RefreshTodo
      BY DEF RefreshSteps, RefreshTodo, SlottedRefresh, ListedRefresh, Ends
    <3>4. RefreshSteps = SlottedRefresh \/ RefreshSteps = ListedRefresh
      BY DEF RefreshSteps
    <3> QED BY <3>1, <3>2, <3>3, <3>4, <1>11
  <2> HIDE DEF u, p
  <2>7. anchor'[w] = p /\ wanted'[w] = Selected(w, p) /\ p # None
    BY <1>2, <1>3, <2>1, <2>2, NoneAssumption DEF FeedTypes
  <2>8. PhaseOK'
    <3>1. RefreshTodo' = RefreshTodo
      BY <1>1 DEF RefreshTodo, Slotted
    <3>2. Refreshing'
      BY <3>1, <1>1, <1>3, <1>11, <2>1, <2>5, <2>6, <2>7 DEF Refreshing, p
    <3> QED BY <3>2 DEF PhaseOK
  <2>9. UniverseOK(w)'
    <3>1. /\ Changing(w)' /\ Before("csv")' /\ Before("subscribe")' /\ Before("unsubscribe")'
      BY <1>11, <2>5, <2>6 DEF Changing, Before
    <3>2. last'[Spot(w)] = p /\ ~Moved(p, p)
      BY <1>1, <1>3, <1>11, <2>1, NotMoved
    <3>3. active' \cap Derivatives(w) = wanted[w] /\ wanted[w] \subseteq Derivatives(w)
      BY <1>1, <1>5, <2>1 DEF UniverseOK
    <3>4. /\ change'.subscribe \subseteq wanted'[w]
          /\ change'.unsubscribe \cap wanted'[w] = {} /\ change'.unsubscribe \subseteq Derivatives(w)
          /\ active' \cap Derivatives(w) = (wanted'[w] \ change'.subscribe) \cup change'.unsubscribe
      BY <3>3, <2>5, <2>7
    <3>5. broker' = "ANGEL" => w \in current'
      BY <1>1, <2>1
    <3> QED BY <3>1, <3>2, <3>4, <3>5, <2>7 DEF UniverseOK, Still
  <2>10. ASSUME NEW v \in Unders, v # w PROVE UniverseOK(v)'
    <3>1. anchor'[v] = anchor[v] /\ wanted'[v] = wanted[v]
      BY <1>2, <2>1, <2>2, <2>10 DEF FeedTypes
    <3>2. ~Changing(v)'
      BY <2>5, <2>10 DEF Changing
    <3>3. ~InHand(Spot(v), "spot")
      BY <2>1, <2>10, SymbolsAre DEF InHand
    <3> QED BY <3>1, <3>2, <3>3, <1>1, <1>5 DEF UniverseOK
  <2> QED BY <2>4, <2>8, <2>9, <2>10, <1>7, <1>8, <1>9, <1>10 DEF FeedInv
<1>12. CASE /\ ~(hand.named /\ IsReference(hand.symbol) /\ Refreshes(u, p))
            /\ todo' = <<>> /\ hand' = None /\ UNCHANGED <<anchor, wanted, change>>
  <2>1. FeedTypes'
    BY <1>1, <1>2, <1>12 DEF FeedTypes
  <2>2. PhaseOK'
    BY <1>1, <1>3, <1>12 DEF PhaseOK, Reading
  <2>3. ASSUME NEW v \in Unders PROVE UniverseOK(v)'
    <3>1. ~Changing(v) /\ ~Changing(v)' /\ UniverseOK(v)
      BY <1>3, <1>5, <1>12 DEF Changing
    <3>2. anchor[v] # None => ~Moved(anchor[v], last[Spot(v)])
      <4>1. CASE hand.named /\ hand.symbol = Spot(v) /\ anchor[v] # None
        <5>1. u = v
          BY <4>1 DEF Spot
        <5>2. IsReference(hand.symbol)
          BY <4>1, <5>1, <3>1, SymbolsAre DEF IsReference, UniverseOK
        <5>3. ~Refreshes(v, p)
          BY <1>12, <4>1, <5>1, <5>2
        <5> QED BY <5>3, <4>1, <1>3 DEF Refreshes
      <4>2. CASE ~(hand.named /\ hand.symbol = Spot(v))
        BY <4>2, <3>1 DEF UniverseOK, InHand
      <4> QED BY <4>1, <4>2
    <3> QED BY <3>1, <3>2, <1>1, <1>12 DEF UniverseOK
  <2> QED BY <2>1, <2>2, <2>3, <1>7, <1>8, <1>9, <1>10 DEF FeedInv
<1> QED BY <1>11, <1>12 DEF HandleSpotTick

(* A refresh goes on, or its tick is done.                                 *)
LEMMA RefreshGoesOn ==
    ASSUME FeedInv, NEW name \in {"subscribe", "unsubscribe", "targets", "csv"}, Step(name),
           UNCHANGED <<broker, phase, anchor, wanted, current, last, alert, told, lost, faults>>,
           FeedTypes', ServerOK', CsvOK', ListedOK',
           \A x \in DOMAIN rows' :
               rows'[x].price = None \/ rows'[x].price = last[rows'[x].symbol],
           IF name \in {"targets", "csv"} THEN Forget ELSE UNCHANGED <<hand, change>>,
           active' = IF name = "subscribe" THEN active \cup change.subscribe
                     ELSE IF name = "unsubscribe" THEN active \ change.unsubscribe ELSE active,
           summaries' = IF name = "csv" THEN [summaries EXCEPT ![change.under] = hand.price]
                        ELSE summaries
    PROVE  FeedInv'
<1>1. FeedTypes /\ PhaseOK /\ At(name) /\ todo' = Tail(todo)
  BY DEF FeedInv, Step
<1>2. /\ Refreshing /\ ToSet(todo') = ToSet(todo) \ {name} /\ todo' \in RefreshTodo \cup {<<>>}
      /\ name \in {"subscribe", "unsubscribe"} => todo' \in RefreshTodo
      /\ ~Before("prices") /\ ~Before("spot") /\ Before(name)
  BY <1>1, StepIs
<1>3. PICK w \in Unders, p \in Prices, sub \in SUBSET Symbols, unsub \in SUBSET Symbols :
         /\ w = change.under /\ sub = change.subscribe /\ unsub = change.unsubscribe
         /\ p = hand.price /\ anchor[w] = p /\ last[Spot(w)] = p
  <2>1. change \in Changes /\ hand \in Events
    BY <1>2 DEF Refreshing
  <2> QED BY <2>1, <1>2 DEF Refreshing, Changes, Events
<1>4. /\ phase = "live" /\ change # None /\ Changing(w) /\ p # None
      /\ \A v \in Unders : v # w => ~Changing(v)
  <2>1. change \in Changes
    BY <1>2 DEF Refreshing
  <2> QED BY <2>1, <1>2, <1>3, NoneAssumption DEF Refreshing, Changing
<1>5. \/ todo' # <<>> /\ hand' = hand /\ change' = change /\ Refreshing'
      \/ todo' = <<>> /\ hand' = None /\ change' = None /\ Reading'
  <2>1. CASE todo' = <<>>
    <3>1. <<>> \notin RefreshTodo
      BY DEF RefreshTodo, Ends
    <3>2. hand' = None /\ change' = None
      BY <3>1, <2>1, <1>2 DEF Forget
    <3> QED BY <3>2, <2>1, <1>4 DEF Reading
  <2>2. CASE todo' # <<>>
    <3>1. hand' = hand /\ change' = change
      BY <2>2 DEF Forget
    <3>2. RefreshTodo' = RefreshTodo
      BY DEF RefreshTodo, Slotted
    <3>3. Refreshing'
      BY <3>1, <3>2, <2>2, <1>2 DEF Refreshing
    <3> QED BY <2>2, <3>1, <3>3
  <2> QED BY <2>1, <2>2
<1>6. \A n : Before(n)' => Before(n) /\ n # name
  BY <1>2 DEF Before
<1>7. \A n : Before(n) /\ n # name => Before(n)' /\ Changing(w)'
  <2> SUFFICES ASSUME NEW n, Before(n), n # name PROVE Before(n)' /\ Changing(w)'
    OBVIOUS
  <2>1. n \in ToSet(todo')
    BY <1>2 DEF Before
  <2>2. todo' # <<>>
    BY <2>1 DEF ToSet
  <2> QED BY <2>1, <2>2, <1>3, <1>4, <1>5 DEF Before, Changing
<1>8. /\ UniverseOK(w) /\ Derivatives(w) \subseteq Symbols /\ wanted[w] \subseteq Derivatives(w)
      /\ sub \subseteq wanted[w] /\ unsub \cap wanted[w] = {} /\ unsub \subseteq Derivatives(w)
      /\ active \cap Derivatives(w) = (wanted[w] \ Still("subscribe", sub)) \cup Still("unsubscribe", unsub)
  <2>1. UniverseOK(w)
    BY DEF FeedInv
  <2>2. wanted[w] = Selected(w, p)
    BY <2>1, <1>3, <1>4 DEF UniverseOK
  <2> QED BY <2>1, <2>2, <1>3, <1>4, SymbolsAre DEF UniverseOK
<1>9. UniverseOK(w)'
  <2>1. ~Moved(anchor'[w], last'[Spot(w)]) /\ last'[Spot(w)] # None
    BY <1>3, <1>4, NotMoved
  <2>2. summaries'[w] = anchor'[w] \/ (Changing(w)' /\ Before("csv")')
    <3>1. CASE name = "csv"
      BY <3>1, <1>1, <1>3 DEF FeedTypes
    <3>2. CASE name # "csv"
      <4>1. summaries'[w] = summaries[w]
        BY <3>2
      <4>2. summaries[w] = anchor[w] \/ Before("csv")
        BY <1>8 DEF UniverseOK
      <4> QED BY <4>1, <4>2, <3>2, <1>7
    <3> QED BY <3>1, <3>2
  <2>3. active' \cap Derivatives(w) =
            (wanted[w] \ (IF Before("subscribe")' THEN sub ELSE {}))
            \cup (IF Before("unsubscribe")' THEN unsub ELSE {})
    <3>1. CASE name = "subscribe"
      <4>1. active' = active \cup sub /\ Before("subscribe") /\ ~Before("subscribe")'
        BY <3>1, <1>2, <1>3, <1>6
      <4>2. Before("unsubscribe")' <=> Before("unsubscribe")
        BY <3>1, <1>6, <1>7
      <4> QED BY <4>1, <4>2, <1>8 DEF Still
    <3>2. CASE name = "unsubscribe"
      <4>1. active' = active \ unsub /\ Before("unsubscribe") /\ ~Before("unsubscribe")'
        BY <3>2, <1>2, <1>3, <1>6
      <4>2. Before("subscribe")' <=> Before("subscribe")
        BY <3>2, <1>6, <1>7
      <4> QED BY <4>1, <4>2, <1>8 DEF Still
    <3>3. CASE name \notin {"subscribe", "unsubscribe"}
      <4>1. active' = active
        BY <3>3
      <4>2. (Before("subscribe")' <=> Before("subscribe"))
            /\ (Before("unsubscribe")' <=> Before("unsubscribe"))
        BY <3>3, <1>6, <1>7
      <4> QED BY <4>1, <4>2, <1>8 DEF Still
    <3> QED BY <3>1, <3>2, <3>3
  <2>4. ~Changing(w)' => active' \cap Derivatives(w) = wanted'[w]
    <3> SUFFICES ASSUME ~Changing(w)' PROVE active' \cap Derivatives(w) = wanted[w]
      OBVIOUS
    <3>1. todo' = <<>>
      BY <1>3, <1>4, <1>5 DEF Changing
    <3>2. ToSet(todo') = {}
      BY <3>1 DEF ToSet
    <3>3. ~Before("subscribe")' /\ ~Before("unsubscribe")'
      BY <3>2 DEF Before
    <3> QED BY <3>3, <2>3
  <2>5. Changing(w)' => change' = change
    BY <1>5 DEF Changing
  <2>6. Changing(w)' =>
          /\ change'.subscribe \subseteq wanted'[w]
          /\ change'.unsubscribe \cap wanted'[w] = {} /\ change'.unsubscribe \subseteq Derivatives(w)
          /\ active' \cap Derivatives(w) = (wanted'[w] \ Still("subscribe", change.subscribe)')
                                           \cup Still("unsubscribe", change.unsubscribe)'
    BY <2>3, <2>5, <1>3, <1>8 DEF Still
  <2>7. /\ wanted'[w] = IF anchor'[w] = None THEN {} ELSE Selected(w, anchor'[w])
        /\ anchor'[w] # None /\ broker' = "ANGEL" => w \in current'
    BY <1>8 DEF UniverseOK
  <2> QED BY <2>1, <2>2, <2>4, <2>6, <2>7 DEF UniverseOK
<1>10. ASSUME NEW v \in Unders, v # w PROVE UniverseOK(v)'
  <2>1. ~Changing(v) /\ ~Changing(v)' /\ UniverseOK(v)
    BY <1>3, <1>4, <1>5, <1>10 DEF FeedInv, Changing
  <2>2. active' \cap Derivatives(v) = active \cap Derivatives(v)
    <3>1. Derivatives(v) \cap Derivatives(w) = {}
      BY <1>10, SymbolsAre
    <3> QED BY <3>1, <1>3, <1>8
  <2>3. summaries'[v] = summaries[v]
    BY <1>1, <1>3, <1>10 DEF FeedTypes
  <2>4. ~InHand(Spot(v), "spot")
    BY <1>2 DEF InHand
  <2> QED BY <2>1, <2>2, <2>3, <2>4 DEF UniverseOK
<1>11. SpotsOK'
  <2>1. \A v \in Unders : Spot(v) \in active' <=> Spot(v) \in active
    <3>1. \A v \in Unders : Spot(v) \notin sub /\ Spot(v) \notin unsub
      BY <1>8, SymbolsAre
    <3> QED BY <3>1, <1>3
  <2>2. Spots \subseteq active => Spots \subseteq active'
    BY <2>1, SymbolsAre
  <2> QED BY <2>1, <2>2 DEF FeedInv, SpotsOK
<1>12. RowsOK'
  BY DEF RowsOK
<1>13. PhaseOK' /\ AlertOK'
  BY <1>5 DEF PhaseOK, FeedInv, AlertOK, Muted
<1> QED BY <1>9, <1>10, <1>11, <1>12, <1>13 DEF FeedInv

(* In a refresh the prices of the tick are in the file.                    *)
LEMMA RefreshRows ==
    ASSUME FeedInv, NEW name \in {"subscribe", "unsubscribe", "targets", "csv"}, At(name)
    PROVE  /\ \A x \in DOMAIN rows : rows[x].price = None \/ rows[x].price = last[rows[x].symbol]
           /\ broker = "DB" => \A s \in Spots : Listed(s) /\ rows[s].price = last[s]
           /\ Connected /\ phase = "live" /\ change.under \in Unders /\ hand.price \in Prices
           /\ change.subscribe \in SUBSET Symbols /\ change.unsubscribe \in SUBSET Symbols
<1>1. Refreshing /\ ~Before("prices")
  BY StepIs DEF FeedInv
<1>2. change \in Changes /\ hand \in Events /\ phase = "live"
  BY <1>1 DEF Refreshing
<1>3. \A x \in DOMAIN rows : rows[x].price = None \/ rows[x].price = last[rows[x].symbol]
  BY <1>1, <1>2 DEF FeedInv, RowsOK, InHand
<1>4. "connect" \notin ToSet(todo)
  <2>1. \/ todo \in Ends("subscribe", "unsubscribe", "targets", "csv")
        \/ todo \in Ends("unsubscribe", "subscribe", "csv", "targets")
    BY <1>1 DEF Refreshing, RefreshTodo
  <2>2. ToSet(todo) \subseteq {"subscribe", "unsubscribe", "targets", "csv"}
    <3>1. \A q \in Ends("subscribe", "unsubscribe", "targets", "csv") :
             ToSet(q) \subseteq {"subscribe", "unsubscribe", "targets", "csv"}
      BY EndsAre
    <3>2. \A q \in Ends("unsubscribe", "subscribe", "csv", "targets") :
             ToSet(q) \subseteq {"unsubscribe", "subscribe", "csv", "targets"}
      BY EndsAre
    <3> QED BY <2>1, <3>1, <3>2
  <2> QED BY <2>2
<1>5. broker = "DB" => \A s \in Spots : Listed(s) /\ rows[s].price = last[s]
  BY <1>1, <1>2 DEF FeedInv, ListedOK, Listed, InHand
<1> QED BY <1>2, <1>3, <1>4, <1>5 DEF Connected, Changes, Events

(* New derivatives are subscribed.                                         *)
LEMMA RefreshSubscribeStep == ASSUME FeedInv, RefreshSubscribe PROVE FeedInv'
<1>1. /\ Step("subscribe") /\ At("subscribe") /\ Subscribe(change.subscribe)
      /\ UNCHANGED <<broker, phase, anchor, wanted, summaries, current, last, alert, told, lost, faults, hand, change,
                     market, open, rows, csv>>
  BY DEF RefreshSubscribe, environment, universe, files, status, news, Step
<1>2. FeedTypes /\ ServerOK
  BY DEF FeedInv
<1>3. /\ \A x \in DOMAIN rows : rows[x].price = None \/ rows[x].price = last[rows[x].symbol]
      /\ broker = "DB" => \A s \in Spots : Listed(s) /\ rows[s].price = last[s]
      /\ Connected /\ change.subscribe \in SUBSET Symbols /\ phase = "live"
  BY <1>1, RefreshRows
<1>4. /\ active' = active \cup change.subscribe /\ active' \subseteq Symbols /\ server' \subseteq Symbols
      /\ requests' \in Seq(Requests) /\ pending' \in Seq(Events)
      /\ ServerOK' /\ net' = net /\ topics' = topics
  BY <1>1, <1>2, <1>3, SubscribeIs
<1>5. FeedTypes'
  BY <1>1, <1>2, <1>4 DEF FeedTypes
<1>6. CsvOK'
  BY <1>1, <1>3 DEF FeedInv, CsvOK, AllSelected
<1>7. ListedOK'
  BY <1>1, <1>3 DEF ListedOK, Listed
<1> QED BY <1>1, <1>3, <1>4, <1>5, <1>6, <1>7, RefreshGoesOn

(* Old ones are unsubscribed.                                              *)
LEMMA RefreshUnsubscribeStep == ASSUME FeedInv, RefreshUnsubscribe PROVE FeedInv'
<1>1. /\ Step("unsubscribe") /\ At("unsubscribe") /\ Unsubscribe(change.unsubscribe)
      /\ UNCHANGED <<broker, phase, anchor, wanted, summaries, current, last, alert, told, lost, faults, hand, change,
                     market, open, rows, csv>>
  BY DEF RefreshUnsubscribe, environment, universe, files, status, news, Step
<1>2. FeedTypes /\ ServerOK
  BY DEF FeedInv
<1>3. /\ \A x \in DOMAIN rows : rows[x].price = None \/ rows[x].price = last[rows[x].symbol]
      /\ broker = "DB" => \A s \in Spots : Listed(s) /\ rows[s].price = last[s]
      /\ Connected /\ change.unsubscribe \in SUBSET Symbols /\ phase = "live"
  BY <1>1, RefreshRows
<1>4. /\ active' = active \ change.unsubscribe /\ server' \subseteq Symbols
      /\ requests' \in Seq(Requests) /\ pending' \in Seq(Events)
      /\ ServerOK' /\ net' = net /\ topics' \in [Symbols -> TopicStates \cup {None}]
  BY <1>1, <1>2, <1>3, UnsubscribeIs
<1>5. FeedTypes'
  BY <1>1, <1>2, <1>4 DEF FeedTypes
<1>6. CsvOK'
  BY <1>1, <1>3 DEF FeedInv, CsvOK, AllSelected
<1>7. ListedOK'
  BY <1>1, <1>3 DEF ListedOK, Listed
<1> QED BY <1>1, <1>3, <1>4, <1>5, <1>6, <1>7, RefreshGoesOn

(* Rows that were there, or that have no price yet.                        *)
Kept(new) ==
    /\ new = [x \in DOMAIN new |-> new[x]]
    /\ \A x \in DOMAIN new :
          \/ new[x] = [symbol |-> new[x].symbol, price |-> None] /\ new[x].symbol \in Symbols
          \/ x \in DOMAIN rows /\ new[x] = rows[x]

(* Such rows have the type, and the prices, of the ones before.            *)
LEMMA KeptIs ==
    ASSUME FeedTypes, NEW new, Kept(new)
    PROVE  /\ new = [x \in DOMAIN new |-> [symbol |-> new[x].symbol, price |-> new[x].price]]
           /\ \A x \in DOMAIN new : new[x].symbol \in Symbols
           /\ (\A x \in DOMAIN rows : rows[x].price = None \/ rows[x].price = last[rows[x].symbol])
              => \A x \in DOMAIN new : new[x].price = None \/ new[x].price = last[new[x].symbol]
<1>1. \A x \in DOMAIN rows :
         rows[x] = [symbol |-> rows[x].symbol, price |-> rows[x].price] /\ rows[x].symbol \in Symbols
  BY DEF FeedTypes
<1>2. \A x \in DOMAIN new :
         new[x] = [symbol |-> new[x].symbol, price |-> new[x].price] /\ new[x].symbol \in Symbols
  BY <1>1 DEF Kept
<1>3. new = [x \in DOMAIN new |-> [symbol |-> new[x].symbol, price |-> new[x].price]]
  BY <1>2 DEF Kept
<1>4. \A x \in DOMAIN new : new[x].price = None \/ (x \in DOMAIN rows /\ new[x] = rows[x])
  BY DEF Kept
<1> QED BY <1>2, <1>3, <1>4

(* The rows of a set of symbols.                                           *)
LEMMA RowsOfIs == ASSUME NEW S \in SUBSET Symbols PROVE Kept(RowsOf(S))
BY DEF RowsOf, Row, Kept

(* The rows with another option for an underlying.                         *)
LEMMA RowsWithTargetIs ==
    ASSUME FeedTypes, NEW u, NEW s \in Symbols
    PROVE  Kept(RowsWithTarget(u, s))
<1>0. rows = [x \in DOMAIN rows |-> rows[x]]
  BY DEF FeedTypes
<1>1. CASE u \notin FileUnders \/ (u \in DOMAIN rows /\ rows[u].symbol = s)
  BY <1>0, <1>1 DEF RowsWithTarget, Kept
<1>2. CASE ~(u \notin FileUnders \/ (u \in DOMAIN rows /\ rows[u].symbol = s))
  <2> DEFINE new == [x \in DOMAIN rows \cup {u} |-> IF x = u THEN Row(s) ELSE rows[x]]
  <2>1. RowsWithTarget(u, s) = new
    BY <1>2 DEF RowsWithTarget
  <2>2. new = [x \in DOMAIN rows \cup {u} |-> IF x = u THEN Row(s) ELSE rows[x]]
    OBVIOUS
  <2> HIDE DEF new
  <2>3. /\ DOMAIN new = {u} \cup DOMAIN rows /\ new = [x \in DOMAIN new |-> new[x]]
        /\ \A x \in DOMAIN new : new[x] = IF x = u THEN Row(s) ELSE rows[x]
    BY <2>2
  <2>4. Row(s) = [symbol |-> Row(s).symbol, price |-> None] /\ Row(s).symbol = s
    BY DEF Row
  <2> QED BY <2>1, <2>3, <2>4 DEF Kept
<1> QED BY <1>1, <1>2

(* What ANGEL and DB International track: the spots in session, or all of  *)
(* them, and what the summaries select.                                    *)
LEMMA TrackedAre ==
    ASSUME FeedTypes
    PROVE  Tracked \in SUBSET Symbols /\ (broker = "DB" => Spots \subseteq Tracked)
<1>4. broker = "DB" => Spots \subseteq Tracked
  BY DEF Tracked
<1> SUFFICES ASSUME NEW s \in Tracked PROVE s \in Symbols
  BY <1>4
<1>1. CASE s \in {Spot(u) : u \in current} \/ s \in Spots
  BY <1>1, SymbolsAre DEF FeedTypes
<1>2. CASE \E u \in Unders : summaries[u] # None /\ s \in Selected(u, summaries[u])
  <2>1. PICK u \in Unders : summaries[u] # None /\ s \in Selected(u, summaries[u])
    BY <1>2
  <2>2. summaries[u] \in Prices
    BY <2>1 DEF FeedTypes
  <2> QED BY <2>1, <2>2, SymbolsAre
<1> QED BY <1>1, <1>2 DEF Tracked, AllSelected

(* The rows follow the refreshed universe.                                 *)
LEMMA UpdateTargetsStep == ASSUME FeedInv, UpdateTargets PROVE FeedInv'
<1>1. /\ Step("targets") /\ At("targets") /\ Forget
      /\ rows' = IF Slotted THEN RowsWithTarget(change.under, Nearest(change.under, hand.price))
                 ELSE RowsOf(Tracked)
      /\ UNCHANGED <<broker, phase, anchor, wanted, summaries, current, last, alert, told, lost, faults,
                     market, open, csv, active, server, requests, topics, net, pending>>
  BY DEF UpdateTargets, environment, universe, wire, status, news, Step
<1>2. FeedTypes /\ ServerOK
  BY DEF FeedInv
<1>3. /\ \A x \in DOMAIN rows : rows[x].price = None \/ rows[x].price = last[rows[x].symbol]
      /\ broker = "DB" => \A s \in Spots : Listed(s) /\ rows[s].price = last[s]
      /\ Connected /\ phase = "live" /\ change.under \in Unders /\ hand.price \in Prices
  BY <1>1, RefreshRows
<1>4. PICK new : new = rows'
  OBVIOUS
<1>5. Kept(new)
  <2>1. CASE Slotted
    <3>1. Nearest(change.under, hand.price) \in Symbols
      BY <1>3, NearestIs, SymbolsAre
    <3> QED BY <3>1, <2>1, <1>1, <1>2, <1>4, RowsWithTargetIs
  <2>2. CASE ~Slotted
    BY <2>2, <1>1, <1>2, <1>4, TrackedAre, RowsOfIs
  <2> QED BY <2>1, <2>2
<1>6. /\ new = [x \in DOMAIN new |-> [symbol |-> new[x].symbol, price |-> new[x].price]]
      /\ \A x \in DOMAIN new : new[x].symbol \in Symbols
      /\ \A x \in DOMAIN new : new[x].price = None \/ new[x].price = last[new[x].symbol]
  BY <1>2, <1>3, <1>5, KeptIs
<1>7. FeedTypes'
  BY <1>1, <1>2, <1>4, <1>6 DEF FeedTypes
<1>8. CsvOK'
  BY <1>1, <1>3 DEF FeedInv, CsvOK, AllSelected
<1>9. ServerOK'
  BY <1>1, <1>3, ServerStays
<1>10. ListedOK'
  <2> SUFFICES ASSUME broker = "DB", NEW s \in Spots PROVE Listed(s)'
    BY <1>1 DEF ListedOK
  <2>1. ~Slotted
    BY DEF Slotted
  <2>2. s \in Tracked
    BY <1>2, TrackedAre
  <2>3. s \in DOMAIN rows /\ rows[s].symbol = s /\ rows[s].price = last[s]
    BY <1>3 DEF Listed
  <2>4. s \in DOMAIN rows' /\ rows'[s] = rows[s]
    BY <2>1, <2>2, <2>3, <1>1 DEF RowsOf
  <2> QED BY <2>3, <2>4, <1>1 DEF Listed
<1> QED BY <1>1, <1>4, <1>6, <1>7, <1>8, <1>9, <1>10, RefreshGoesOn

(* The derivatives file follows the refreshed universe.                    *)
LEMMA WriteCsvStep == ASSUME FeedInv, WriteCsv PROVE FeedInv'
<1>1. /\ Step("csv") /\ At("csv") /\ Forget
      /\ summaries' = [summaries EXCEPT ![change.under] = hand.price] /\ csv' = AllSelected(summaries')
      /\ UNCHANGED <<broker, phase, anchor, wanted, current, last, alert, told, lost, faults,
                     market, open, rows, active, server, requests, topics, net, pending>>
  BY DEF WriteCsv, environment, wire, status, news, Step
<1>2. FeedTypes /\ ServerOK
  BY DEF FeedInv
<1>3. /\ \A x \in DOMAIN rows : rows[x].price = None \/ rows[x].price = last[rows[x].symbol]
      /\ broker = "DB" => \A s \in Spots : Listed(s) /\ rows[s].price = last[s]
      /\ Connected /\ phase = "live" /\ change.under \in Unders /\ hand.price \in Prices
  BY <1>1, RefreshRows
<1>4. summaries' \in [Unders -> Prices \cup {None}]
  BY <1>1, <1>2, <1>3 DEF FeedTypes
<1>5. FeedTypes'
  BY <1>1, <1>2, <1>4 DEF FeedTypes
<1>6. CsvOK'
  BY <1>1, <1>3 DEF CsvOK
<1>7. ServerOK'
  BY <1>1, <1>3, ServerStays
<1>8. ListedOK'
  BY <1>1, <1>3 DEF ListedOK, Listed
<1> QED BY <1>1, <1>3, <1>5, <1>6, <1>7, <1>8, RefreshGoesOn

(* ANGEL follows the sessions of the exchanges.                            *)
LEMMA SessionStep == ASSUME FeedInv, ApplySessionState PROVE FeedInv'
<1> DEFINE closing == current \ open
           opening == open \ current
           old == {Spot(u) : u \in closing} \cup UNION {wanted[u] : u \in closing}
           fresh == {Spot(u) : u \in opening}
<1>1. /\ broker = "ANGEL" /\ phase = "live" /\ todo = <<>>
      /\ current' = open
      /\ anchor' = [u \in Unders |-> IF u \in closing THEN None ELSE anchor[u]]
      /\ wanted' = [u \in Unders |-> IF u \in closing THEN {} ELSE wanted[u]]
      /\ summaries' = [u \in Unders |-> IF u \in closing THEN None ELSE summaries[u]]
      /\ requests' = requests \o Message("unsubscribe", old \cap active)
                              \o Message("subscribe", fresh \ active)
      /\ active' = (active \ old) \cup fresh
      /\ csv' = AllSelected(summaries')
      /\ rows' = RowsOf({Spot(u) : u \in open} \cup csv')
      /\ UNCHANGED <<broker, phase, todo, hand, change, topics, server, net, pending, last,
                     market, open, alert, told, lost, faults>>
  BY DEF ApplySessionState, environment, status, news
<1>2. FeedTypes /\ PhaseOK /\ Reading /\ ServerOK
  BY <1>1, IdleIs DEF FeedInv
<1>3. /\ hand = None /\ change = None /\ ToSet(todo) = {} /\ Connected
  BY <1>1, <1>2 DEF Reading, ToSet, Connected
<1>4. \A u \in Unders :
         /\ UniverseOK(u) /\ ~Changing(u) /\ ~InHand(Spot(u), "spot")
         /\ wanted[u] \subseteq Derivatives(u) /\ (Spot(u) \in active <=> u \in current)
  <2> SUFFICES ASSUME NEW u \in Unders
               PROVE  /\ UniverseOK(u) /\ ~Changing(u) /\ ~InHand(Spot(u), "spot")
                      /\ wanted[u] \subseteq Derivatives(u) /\ (Spot(u) \in active <=> u \in current)
    OBVIOUS
  <2>1. UniverseOK(u) /\ ~Changing(u) /\ ~InHand(Spot(u), "spot")
    BY <1>3 DEF FeedInv, Changing, InHand
  <2>2. wanted[u] \subseteq Derivatives(u)
    <3>1. anchor[u] # None => anchor[u] \in Prices
      BY <1>2 DEF FeedTypes
    <3> QED BY <2>1, <3>1, SymbolsAre DEF UniverseOK
  <2>3. Spot(u) \in active <=> u \in current
    BY <1>1 DEF FeedInv, SpotsOK
  <2> QED BY <2>1, <2>2, <2>3
<1>5. closing \subseteq Unders /\ opening \subseteq Unders /\ open \subseteq Unders /\ active \subseteq Symbols
  BY <1>2 DEF FeedTypes
<1>6. \A u \in Unders :
         /\ Spot(u) \in old <=> u \in closing
         /\ Spot(u) \in fresh <=> u \in opening
         /\ old \cap Derivatives(u) = IF u \in closing THEN wanted[u] ELSE {}
         /\ fresh \cap Derivatives(u) = {}
  <2> SUFFICES ASSUME NEW u \in Unders
               PROVE  /\ Spot(u) \in old <=> u \in closing
                      /\ Spot(u) \in fresh <=> u \in opening
                      /\ old \cap Derivatives(u) = IF u \in closing THEN wanted[u] ELSE {}
                      /\ fresh \cap Derivatives(u) = {}
    OBVIOUS
  <2> HIDE DEF closing, opening
  <2>1. Spot(u) \in fresh <=> u \in opening
    BY <1>5, SymbolsAre
  <2>2. fresh \cap Derivatives(u) = {}
    BY <1>5, SymbolsAre
  <2>3. Spot(u) \in old <=> u \in closing
    <3>1. \A v \in closing : Spot(u) \notin wanted[v]
      BY <1>4, <1>5, SymbolsAre
    <3>2. \A v \in closing : Spot(u) = Spot(v) => u = v
      BY <1>5, SymbolsAre
    <3> QED BY <3>1, <3>2
  <2>4. old \cap Derivatives(u) = IF u \in closing THEN wanted[u] ELSE {}
    <3>1. \A v \in closing : Spot(v) \notin Derivatives(u)
      BY <1>5, SymbolsAre
    <3>2. \A v \in closing : v # u => wanted[v] \cap Derivatives(u) = {}
      BY <1>4, <1>5, SymbolsAre
    <3>3. wanted[u] \subseteq Derivatives(u)
      BY <1>4
    <3> QED BY <3>1, <3>2, <3>3
  <2> QED BY <2>1, <2>2, <2>3, <2>4
<1>7. /\ old \in SUBSET Symbols /\ fresh \in SUBSET Symbols /\ fresh \cap active = {}
  <2> HIDE DEF closing
  <2>1. \A u \in closing : Spot(u) \in Symbols /\ wanted[u] \subseteq Symbols
    BY <1>4, <1>5, SymbolsAre
  <2>2. \A u \in opening : Spot(u) \in Symbols /\ Spot(u) \notin active
    BY <1>4, <1>5, SymbolsAre
  <2> QED BY <2>1, <2>2
<1>8. ServerOK' /\ requests' \in Seq(Requests)
  <2> DEFINE a == [op |-> "unsubscribe", symbols |-> old \cap active]
             b == [op |-> "subscribe", symbols |-> fresh \ active]
             q == requests \o Message("unsubscribe", old \cap active)
  <2>1. a \in Requests /\ b \in Requests /\ requests \in Seq(Requests) /\ server \in SUBSET Symbols
    BY <1>2, <1>7 DEF Requests, FeedTypes
  <2>2. WillServe = active /\ WillServe = Serving(server, requests)
    BY <1>1, <1>2, <1>3, WillServeIs DEF ServerOK, ServerAgrees
  <2>3. a.op = "unsubscribe" /\ a.symbols = old \cap active /\ b.op = "subscribe"
        /\ b.symbols = fresh \ active
    OBVIOUS
  <2>4. q \in Seq(Requests) /\ Serving(server, q) = active \ old
    <3>1. CASE old \cap active = {}
      <4>1. q = requests
        BY <2>1, <3>1 DEF Message
      <4> HIDE DEF q, old
      <4> QED BY <4>1, <2>1, <2>2, <3>1
    <3>2. CASE old \cap active # {}
      <4>1. Message("unsubscribe", old \cap active) = <<a>>
        BY <3>2 DEF Message
      <4> HIDE DEF a
      <4>2. q = Append(requests, a)
        BY <4>1, <2>1, OneMore
      <4> HIDE DEF q, old
      <4>3. Serving(server, q) = Served(active, a) /\ q \in Seq(Requests)
        BY <4>2, <2>1, <2>2, ServingMore
      <4> QED BY <4>3, <2>3 DEF Served
    <3> QED BY <3>1, <3>2
  <2>5. requests' = q \o Message("subscribe", fresh \ active)
    BY <1>1
  <2> HIDE DEF q
  <2>6. requests' \in Seq(Requests) /\ Serving(server, requests') = (active \ old) \cup fresh
    <3>1. CASE fresh \ active = {}
      <4>1. requests' = q
        BY <2>4, <2>5, <3>1 DEF Message
      <4>2. fresh = {}
        BY <3>1, <1>7
      <4> HIDE DEF old, fresh
      <4> QED BY <4>1, <4>2, <2>4
    <3>2. CASE fresh \ active # {}
      <4>1. Message("subscribe", fresh \ active) = <<b>>
        BY <3>2 DEF Message
      <4> HIDE DEF b
      <4>2. requests' = Append(q, b)
        BY <4>1, <2>1, <2>4, <2>5, OneMore
      <4> HIDE DEF old, fresh
      <4>3. Serving(server, requests') = Served(active \ old, b) /\ requests' \in Seq(Requests)
        <5>1. Serving(server, Append(q, b)) = Served(Serving(server, q), b)
          BY <2>1, <2>4, ServingMore
        <5>2. Append(q, b) \in Seq(Requests)
          BY <2>1, <2>4
        <5> QED BY <5>1, <5>2, <4>2, <2>4
      <4> QED BY <4>3, <2>3, <1>7 DEF Served
    <3> QED BY <3>1, <3>2
  <2>7. WillServe' = active'
    <3>1. WillServe' = Serving(server', requests')
      BY DEF WillServe, Naming, Serving, NamingIn
    <3> HIDE DEF old, fresh
    <3> QED BY <3>1, <2>6, <1>1
  <2> QED BY <2>6, <2>7, <1>1 DEF ServerOK, ServerAgrees
<1>9. /\ anchor' \in [Unders -> Prices \cup {None}] /\ summaries' \in [Unders -> Prices \cup {None}]
      /\ wanted' \in [Unders -> SUBSET Symbols]
  BY <1>1, <1>2 DEF FeedTypes
<1>10. csv' \in SUBSET Symbols
  <2> SUFFICES ASSUME NEW s \in csv' PROVE s \in Symbols
    OBVIOUS
  <2>1. PICK u \in Unders : summaries'[u] # None /\ s \in Selected(u, summaries'[u])
    BY <1>1 DEF AllSelected
  <2>2. summaries'[u] \in Prices
    BY <1>9, <2>1
  <2> QED BY <2>1, <2>2, SymbolsAre
<1>11. PICK new : new = rows'
  OBVIOUS
<1>12. Kept(new)
  <2>1. {Spot(u) : u \in open} \cup csv' \in SUBSET Symbols
    BY <1>5, <1>10, SymbolsAre
  <2> QED BY <2>1, <1>1, <1>11, RowsOfIs
<1>13. /\ new = [x \in DOMAIN new |-> [symbol |-> new[x].symbol, price |-> new[x].price]]
       /\ \A x \in DOMAIN new : new[x].symbol \in Symbols
       /\ \A x \in DOMAIN new : new[x].price = None \/ new[x].price = last[new[x].symbol]
  <2>1. \A x \in DOMAIN rows : rows[x].price = None \/ rows[x].price = last[rows[x].symbol]
    BY <1>1, <1>3 DEF FeedInv, RowsOK, InHand
  <2> QED BY <2>1, <1>2, <1>12, KeptIs
<1>14. FeedTypes'
  <2>1. active' \subseteq Symbols
    BY <1>1, <1>5, <1>7
  <2> QED BY <2>1, <1>1, <1>2, <1>5, <1>8, <1>9, <1>11, <1>13 DEF FeedTypes
<1>15. ASSUME NEW u \in Unders PROVE UniverseOK(u)'
  <2> HIDE DEF old, fresh
  <2>1. active' \cap Derivatives(u) = wanted'[u]
    <3>1. active \cap Derivatives(u) = wanted[u]
      BY <1>4 DEF UniverseOK
    <3> QED BY <3>1, <1>1, <1>6
  <2>2. ~Changing(u)'
    BY <1>1, <1>3 DEF Changing
  <2>3. CASE u \in closing
    <3>1. anchor'[u] = None /\ wanted'[u] = {} /\ summaries'[u] = None
      BY <1>1, <2>3
    <3> QED BY <3>1, <2>1, <2>2 DEF UniverseOK
  <2>4. CASE u \notin closing
    <3>1. anchor'[u] = anchor[u] /\ wanted'[u] = wanted[u] /\ summaries'[u] = summaries[u]
      BY <1>1, <2>4
    <3>2. anchor[u] # None => u \in open
      BY <1>1, <1>4, <2>4 DEF UniverseOK
    <3> QED BY <3>1, <3>2, <2>1, <2>2, <1>1, <1>4 DEF UniverseOK
  <2> QED BY <2>3, <2>4
<1>16. SpotsOK'
  <2> SUFFICES ASSUME NEW u \in Unders PROVE Spot(u) \in active' <=> u \in open
    BY <1>1 DEF SpotsOK
  <2> HIDE DEF old, fresh
  <2> QED BY <1>1, <1>4, <1>6
<1>17. RowsOK'
  BY <1>1, <1>11, <1>13 DEF RowsOK
<1>18. PhaseOK' /\ CsvOK' /\ ListedOK' /\ AlertOK'
  <2>1. PhaseOK' /\ CsvOK' /\ ListedOK'
    BY <1>1, <1>2 DEF PhaseOK, Reading, CsvOK, ListedOK
  <2>2. AlertOK'
    BY <1>1 DEF AlertOK, Muted, FeedInv
  <2> QED BY <2>1, <2>2
<1> QED BY <1>8, <1>14, <1>15, <1>16, <1>17, <1>18 DEF FeedInv

(* What a failure drops.                                                   *)
LEMMA DropIs ==
    ASSUME Drop, UNCHANGED <<broker, server, rows, market, open>>, FeedTypes,
           alert' = [active |-> alert'.active, message |-> alert'.message],
           alert'.active \in BOOLEAN
    PROVE  /\ FeedTypes' /\ Fresh' /\ active' = {} /\ requests' = <<>>
<1>1. /\ Fresh' /\ active' = {} /\ requests' = <<>> /\ net' = <<>> /\ pending' = <<>>
      /\ anchor' = NoneOf(Unders) /\ summaries' = NoneOf(Unders) /\ wanted' = [u \in Unders |-> {}]
      /\ current' = {} /\ topics' = NoneOf(Symbols) /\ last' = NoneOf(Symbols)
  BY DEF Drop, Fresh
<1>2. /\ NoneOf(Unders) \in [Unders -> Prices \cup {None}]
      /\ NoneOf(Symbols) \in [Symbols -> TopicStates \cup {None}]
      /\ NoneOf(Symbols) \in [Symbols -> Prices \cup {None}]
  BY DEF NoneOf
<1>3. /\ <<>> \in Seq(Requests) /\ <<>> \in Seq(Messages) /\ <<>> \in Seq(Events)
  OBVIOUS
<1> QED BY <1>1, <1>2, <1>3 DEF FeedTypes

(* A step fails.                                                           *)
LEMMA FailsStep == ASSUME FeedInv, Fails PROVE FeedInv'
<1>1. /\ Drop /\ phase' = "waiting" /\ todo' = <<>>
      /\ UNCHANGED <<broker, market, open, server, rows, csv>>
      /\ \E message \in Errors[broker], recent \in BOOLEAN : NotifyFailure(message, recent)
  BY DEF Fails, environment, files
<1>2. alert' = [active |-> alert'.active, message |-> alert'.message] /\ alert'.active \in BOOLEAN
      /\ AlertOK'
  <2>1. PICK message, recent : NotifyFailure(message, recent)
    BY <1>1
  <2>2. FeedTypes /\ AlertOK /\ Muted' = Muted
    BY <1>1 DEF FeedInv, Muted
  <2>3. CASE Muted
    <3>1. alert' = alert /\ told' = told /\ lost' = lost
      BY <2>1, <2>3 DEF NotifyFailure, news
    <3> QED BY <3>1, <2>2, <2>3, <1>1 DEF FeedTypes, AlertOK
  <2>4. CASE ~Muted /\ alert.active /\ alert' = alert /\ told' = told /\ lost' = lost
    BY <2>2, <2>4, <1>1 DEF FeedTypes, AlertOK
  <2>5. CASE ~Muted /\ alert' = [active |-> TRUE, message |-> message] /\ Sent("down")
    <3>1. alert'.active = TRUE /\ (lost' \/ told' = "down")
      BY <2>5 DEF Sent
    <3> QED BY <3>1, <2>2, <2>5, <1>1 DEF AlertOK
  <2> QED BY <2>1, <2>3, <2>4, <2>5 DEF NotifyFailure, news
<1>3. FeedTypes' /\ Fresh' /\ active' = {} /\ requests' = <<>>
  <2>1. alert' = [active |-> alert'.active, message |-> alert'.message] /\ alert'.active \in BOOLEAN
    BY <1>2
  <2> QED BY <2>1, <1>1, DropIs DEF FeedInv
<1>4. Resting'
  BY <1>1, <1>3 DEF Resting
<1>5. RowsOK' /\ ListedOK' /\ CsvOK'
  BY <1>1 DEF RowsOK, ListedOK, CsvOK
<1>6. ServerOK'
  BY <1>1, <1>3 DEF ServerOK, ServerAgrees, Connected
<1> QED BY <1>2, <1>3, <1>4, <1>5, <1>6, StartKeeps

(* A run starts.                                                           *)
LEMMA StartIs ==
    ASSUME FeedTypes', Fresh', active' = {}, requests' = <<>>, broker' = broker,
           broker \in Brokers, phase' = "starting", todo' = StartSteps, AlertOK'
    PROVE  FeedInv'
<1>1. broker \in {"DELTA", "FYERS", "DB", "ANGEL"}
  BY FeedAssumption
<1>2. /\ todo' \in StartTodo /\ Before("connect")' /\ Before("file")'
      /\ Before("spots")' \/ broker = "ANGEL"
  <2>1. CASE broker = "DELTA"
    <3>1. todo' = <<"connect", "file", "spots", "recovered">>
      BY <2>1 DEF StartSteps, DeltaStart
    <3>2. ToSet(todo') = {"connect", "file", "spots", "recovered"}
      <4>1. DOMAIN todo' = {1, 2, 3, 4}
        BY <3>1
      <4> QED BY <3>1, <4>1 DEF ToSet
    <3> QED BY <3>1, <3>2, <2>1 DEF StartTodo, Ends, Before
  <2>2. CASE broker = "FYERS"
    <3>1. todo' = <<"session", "connect", "file", "spots", "recovered">>
      BY <2>2 DEF StartSteps, FyersStart
    <3>2. ToSet(todo') = {"session", "connect", "file", "spots", "recovered"}
      <4>1. DOMAIN todo' = {1, 2, 3, 4, 5}
        BY <3>1
      <4> QED BY <3>1, <4>1 DEF ToSet
    <3> QED BY <3>1, <3>2, <2>2 DEF StartTodo, Before
  <2>3. CASE broker = "DB"
    <3>1. todo' = <<"file", "connect", "spots", "recovered">>
      BY <2>3 DEF StartSteps, DbStart
    <3>2. ToSet(todo') = {"file", "connect", "spots", "recovered"}
      <4>1. DOMAIN todo' = {1, 2, 3, 4}
        BY <3>1
      <4> QED BY <3>1, <4>1 DEF ToSet
    <3> QED BY <3>1, <3>2, <2>3 DEF StartTodo, Ends, Before
  <2>4. CASE broker = "ANGEL"
    <3>1. todo' = <<"file", "empty_csv", "connect", "recovered">>
      BY <2>4 DEF StartSteps, AngelStart
    <3>2. ToSet(todo') = {"file", "empty_csv", "connect", "recovered"}
      <4>1. DOMAIN todo' = {1, 2, 3, 4}
        BY <3>1
      <4> QED BY <3>1, <4>1 DEF ToSet
    <3> QED BY <3>1, <3>2, <2>4 DEF StartTodo, Ends, Before
  <2> QED BY <1>1, <2>1, <2>2, <2>3, <2>4
<1>3. StartTodo' = StartTodo
  BY DEF StartTodo
<1>4. Starting'
  BY <1>2, <1>3 DEF Starting
<1>5. RowsOK' /\ ListedOK' /\ CsvOK'
  <2>1. RowsOK'
    BY <1>2 DEF RowsOK
  <2>2. ListedOK'
    BY <1>2 DEF ListedOK
  <2>3. CsvOK'
    BY <1>2 DEF CsvOK
  <2> QED BY <2>1, <2>2, <2>3
<1>6. ServerOK'
  BY <1>2 DEF ServerOK, ServerAgrees, Connected, Before
<1> QED BY <1>4, <1>5, <1>6, StartKeeps

(* DB International starts over when its login is rejected.                *)
LEMMA SessionRejectedStep == ASSUME FeedInv, SessionRejected PROVE FeedInv'
<1>1. /\ Drop /\ phase' = "starting" /\ todo' = StartSteps /\ phase # "waiting"
      /\ UNCHANGED <<broker, market, open, server, rows, csv, alert, told, lost>>
  BY DEF SessionRejected, environment, files, news, Connected
<1>2. FeedTypes /\ AlertOK
  BY DEF FeedInv
<1>3. FeedTypes' /\ Fresh' /\ active' = {} /\ requests' = <<>>
  BY <1>1, <1>2, DropIs DEF FeedTypes
<1>4. AlertOK'
  BY <1>1, <1>2 DEF AlertOK, Muted
<1>5. broker \in Brokers
  BY <1>2 DEF FeedTypes
<1> QED BY <1>1, <1>3, <1>4, <1>5, StartIs

(* The supervisor tries again.                                             *)
LEMMA RetryStep == ASSUME FeedInv, Retry PROVE FeedInv'
<1>1. /\ phase = "waiting" /\ phase' = "starting" /\ todo' = StartSteps
      /\ UNCHANGED <<broker, market, open, server, rows, csv, alert, told, lost, faults, hand, change, anchor, wanted,
                     summaries, current, active, topics, requests, net, pending, last>>
  BY DEF Retry, environment, universe, wire, files, news
<1>2. FeedTypes /\ AlertOK /\ Resting
  BY <1>1 DEF FeedInv, PhaseOK, Starting, Reading, Handling, Refreshing
<1>3. FeedTypes' /\ Fresh' /\ active' = {} /\ requests' = <<>>
  BY <1>1, <1>2 DEF FeedTypes, Resting, Fresh
<1>4. AlertOK'
  BY <1>1, <1>2 DEF AlertOK, Muted
<1>5. broker \in Brokers
  BY <1>2 DEF FeedTypes
<1> QED BY <1>1, <1>3, <1>4, <1>5, StartIs

-----------------------------------------------------------------------------
(* The invariant.                                                          *)

(* The first connection is about to be made.                               *)
LEMMA FeedInit == ASSUME Init PROVE FeedInv
<1>1. (CHOOSE p \in Prices : \A x \in Prices : p <= x) \in Prices
  <2>1. Prices \subseteq Nat /\ Prices # {}
    BY FeedAssumption
  <2>2. PICK n \in Prices : \A m \in Prices : ~(<<m, n>> \in OpToRel(<, Nat))
    BY <2>1, NatLessThanWellFounded, WFMin
  <2>3. ASSUME NEW m \in Prices PROVE n <= m
    <3>1. m \in Nat /\ n \in Nat
      BY <2>1
    <3>2. ~(m < n)
      BY <3>1, <2>2 DEF OpToRel
    <3> QED BY <3>1, <3>2
  <2> QED BY <2>3
<1>2. Fresh
  BY DEF Init, Fresh
<1>3. FeedTypes
  <2>1. market \in [Unders -> Prices]
    BY <1>1 DEF Init
  <2>2. /\ NoneOf(Unders) \in [Unders -> Prices \cup {None}]
        /\ NoneOf(Symbols) \in [Symbols -> TopicStates \cup {None}]
        /\ NoneOf(Symbols) \in [Symbols -> Prices \cup {None}]
    BY DEF NoneOf
  <2>3. rows = <<>> /\ alert = [active |-> FALSE, message |-> None]
    BY DEF Init
  <2>4. /\ rows = [x \in DOMAIN rows |-> [symbol |-> rows[x].symbol, price |-> rows[x].price]]
        /\ \A x \in DOMAIN rows : rows[x].symbol \in Symbols
        /\ alert = [active |-> alert.active, message |-> alert.message] /\ alert.active \in BOOLEAN
    BY <2>3
  <2> QED BY <2>1, <2>2, <2>4 DEF Init, FeedTypes
<1>4. Resting
  BY <1>2 DEF Init, Resting
<1>5. ASSUME NEW u \in Unders PROVE UniverseOK(u)
  <2>1. anchor[u] = None /\ summaries[u] = None /\ wanted[u] = {} /\ change = None /\ active = {}
    BY DEF Init, NoneOf
  <2> QED BY <2>1 DEF UniverseOK, Changing
<1>6. SpotsOK /\ RowsOK /\ ListedOK /\ CsvOK
  BY DEF Init, SpotsOK, RowsOK, ListedOK, CsvOK
<1>7. ServerOK
  BY DEF Init, ServerOK, ServerAgrees, Connected
<1>8. AlertOK
  <2>1. alert.active = FALSE /\ told = None /\ phase = "waiting" /\ faults = 0
    BY DEF Init
  <2> QED BY <2>1, NoneAssumption DEF AlertOK
<1> QED BY <1>3, <1>4, <1>5, <1>6, <1>7, <1>8 DEF FeedInv, PhaseOK

(* Every step keeps it.                                                    *)
LEMMA FeedNext == ASSUME FeedInv, [Next]_vars PROVE FeedInv'
<1>1. CASE UNCHANGED vars
  <2>1. /\ UNCHANGED <<broker, phase, todo, hand, change, anchor, wanted, summaries, current, active,
                       rows, csv, alert, told, lost, faults, last, topics, requests, server, net, pending, market, open>>
    BY <1>1 DEF vars, environment, universe, wire, files, status, news
  <2>2. FeedTypes'
    BY <2>1 DEF FeedInv, FeedTypes
  <2>3. ServerOK'
    BY <2>1, ServerStays DEF Connected
  <2> QED BY <2>1, <2>2, <2>3, QuietStep
<1>2. CASE Steps
  BY <1>2, AwaitSessionStep, ConnectStep, StartFileStep, StartCsvStep, SubscribeSpotsStep,
     RecoveredStep, RunStrategyStep, UpdatePricesStep, HandleSpotTickStep, RefreshSubscribeStep,
     RefreshUnsubscribeStep, UpdateTargetsStep, WriteCsvStep DEF Steps
<1>3. CASE Next /\ ~Steps
  BY <1>3, MoveStep, HandleRequestStep, SendTickStep, ReceiveStep, TakeStep, SessionStep,
     FailsStep, SessionRejectedStep, RetryStep DEF Next
<1> QED BY <1>1, <1>2, <1>3

(* The invariant of a broker's feed: what is left of a call says how far   *)
(* the universe, the rows and the files have got, and the state of the     *)
(* failure goes with the last notification that was not lost.              *)
THEOREM FeedInvariant == Spec => []FeedInv
<1>1. Init => FeedInv
  BY FeedInit
<1>2. FeedInv /\ [Next]_vars => FeedInv'
  BY FeedNext
<1> QED BY <1>1, <1>2, PTL DEF Spec

(* Whatever fails, and however often: unless the last notification was     *)
(* lost, nobody who reads them believes a live feed down, and where the    *)
(* severity is not muted a failed one is known to be down.                 *)
THEOREM OperatorAlwaysKnows == Spec => []OperatorKnows
<1>1. FeedInv => OperatorKnows
  BY DEF FeedInv, AlertOK, OperatorKnows
<1> QED BY <1>1, FeedInvariant, PTL

(* Between two ticks the derivatives of an underlying are subscribed       *)
(* around its anchor, and its last spot tick is not a refresh away.        *)
THEOREM UniverseAlwaysFollows == Spec => []UniverseFollowsSpot
<1>1. FeedInv => UniverseFollowsSpot
  <2> SUFFICES ASSUME FeedInv, Idle, NEW u \in Unders, anchor[u] # None
               PROVE  /\ active \cap Derivatives(u) = Selected(u, anchor[u])
                      /\ ~Moved(anchor[u], last[Spot(u)])
    BY DEF UniverseFollowsSpot
  <2>1. hand = None /\ change = None
    BY IdleIs DEF Idle, FeedInv, Reading
  <2> QED BY <2>1 DEF FeedInv, UniverseOK, Changing, InHand
<1> QED BY <1>1, FeedInvariant, PTL

(* Once it has handled the requests on their way, the server sends what    *)
(* the feeder believes it has subscribed.                                  *)
THEOREM ServerAlwaysAgrees == Spec => []ServerAgrees
<1>1. FeedInv => ServerAgrees
  BY DEF FeedInv, ServerOK
<1> QED BY <1>1, FeedInvariant, PTL

(* A price in the latest-price file is the last one handled of the symbol  *)
(* of its row.                                                             *)
THEOREM RowsAlwaysCurrent == Spec => []RowsAreCurrent
<1>1. FeedInv => RowsAreCurrent
  <2> SUFFICES ASSUME FeedInv, Idle PROVE RowsAreCurrent
    BY DEF RowsAreCurrent
  <2>1. hand = None /\ phase = "live"
    BY IdleIs DEF Idle, FeedInv, Reading
  <2> QED BY <2>1 DEF FeedInv, RowsOK, InHand, RowsAreCurrent
<1> QED BY <1>1, FeedInvariant, PTL

(* Between two ticks the derivatives file holds what is subscribed, once   *)
(* every subscribed underlying has its universe.                           *)
THEOREM CsvAlwaysSubscribed == Spec => []CsvIsSubscribed
<1>1. FeedInv => CsvIsSubscribed
  <2> SUFFICES ASSUME FeedInv, Idle, \A u \in Unders : Spot(u) \in active => summaries[u] # None
               PROVE  csv = active \ Spots
    BY DEF CsvIsSubscribed
  <2>1. hand = None /\ change = None /\ phase = "live" /\ FeedTypes
    BY IdleIs DEF Idle, FeedInv, Reading
  <2>2. csv = AllSelected(summaries)
    <3>1. CASE broker = "ANGEL"
      BY <3>1, <2>1 DEF FeedInv, CsvOK
    <3>2. CASE broker # "ANGEL"
      <4>1. FileUnder \in Unders /\ Spot(FileUnder) \in active
        BY <3>2, <2>1, FeedAssumption, SymbolsAre DEF FeedInv, SpotsOK
      <4> QED BY <4>1, <2>1 DEF FeedInv, CsvOK
    <3> QED BY <3>1, <3>2
  <2>3. \A u \in Unders :
           active \cap Derivatives(u) = IF summaries[u] = None THEN {} ELSE Selected(u, summaries[u])
    BY <2>1 DEF FeedInv, UniverseOK, Changing
  <2>4. ASSUME NEW s \in csv PROVE s \in active \ Spots
    <3>1. PICK u \in Unders : summaries[u] # None /\ s \in Selected(u, summaries[u])
      BY <2>2 DEF AllSelected
    <3>2. s \in active /\ s \in Derivatives(u)
      BY <3>1, <2>3
    <3> QED BY <3>2, SymbolsAre
  <2>5. ASSUME NEW s \in active \ Spots PROVE s \in csv
    <3>1. PICK u \in Unders : s \in Derivatives(u)
      BY <2>1, SymbolsAre DEF FeedTypes
    <3>2. summaries[u] # None /\ s \in Selected(u, summaries[u])
      BY <3>1, <2>3
    <3> QED BY <3>2, <2>2 DEF AllSelected
  <2> QED BY <2>4, <2>5
<1> QED BY <1>1, FeedInvariant, PTL

(* Whatever universe is refreshed, the latest-price file of DB             *)
(* International keeps its spots, each with the last price handled.        *)
THEOREM SpotsAlwaysListed == Spec => []SpotsAreListed
<1>1. FeedInv => SpotsAreListed
  <2> SUFFICES ASSUME FeedInv, Idle PROVE SpotsAreListed
    BY DEF SpotsAreListed
  <2>1. hand = None /\ phase = "live"
    BY IdleIs DEF Idle, FeedInv, Reading
  <2> QED BY <2>1 DEF FeedInv, ListedOK, Listed, InHand, SpotsAreListed
<1> QED BY <1>1, FeedInvariant, PTL

(* The latest-price file and the derivatives file say what the feed knows. *)
THEOREM FilesAlwaysAgree == Spec => []FilesAgree
<1>1. RowsAreCurrent /\ SpotsAreListed /\ CsvIsSubscribed => FilesAgree
  BY DEF FilesAgree
<1> QED BY <1>1, RowsAlwaysCurrent, SpotsAlwaysListed, CsvAlwaysSubscribed, PTL
=============================================================================
