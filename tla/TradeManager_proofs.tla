------------------------- MODULE TradeManager_proofs -------------------------
(***************************************************************************)
(* What TradeManager guarantees for every distance of stop and targets,    *)
(* every length of bars and every sequence of ticks, failures and kills.   *)
(***************************************************************************)
EXTENDS TradeManager, FiniteSetTheorems, TLAPS

-----------------------------------------------------------------------------
(* The inductive invariant.                                                *)

(* Statements are left in the order they are written in, and never an      *)
(* update together with an exit.                                           *)
Exits == Closing \cap run.todo
TodoOK ==
    /\ run.pc = "write" <=> run.todo # {}
    /\ run.pc = "write" => run.ctx # None
    /\ run.pc = "bar" => run.closed # None
    /\ "save" \in run.todo => run.todo \subseteq Opening /\ run.ctx = NewContext
    /\ "entry" \in run.todo => "insert" \in run.todo
    /\ "insert" \in run.todo => "save" \in run.todo
    /\ Exits \in {{}, {"delete"}, {"row", "delete"}, {"exit", "row", "delete"}, Closing}
    /\ "update" \in run.todo => Exits = {}
    /\ run.todo \cap Partials # {} => "update" \in run.todo \/ "mark" \in run.todo

(* A context is stored over an older one that it only improves on, and     *)
(* partial_book leaves the stop where it was.                              *)
ContextOK ==
    /\ "save" \in run.todo => ctx = None
    /\ mode = "partial_book" /\ ctx # None => ctx.stop = StopPrice
    /\ mode = "partial_book" /\ "update" \in run.todo => run.ctx.stop = StopPrice
    /\ "update" \in run.todo =>
         /\ ctx # None
         /\ PriceReached(run.ctx.stop, ctx.stop)
         /\ ctx.hit \subseteq run.ctx.hit

(* partial_book: a target that is flagged was booked, or its booking is    *)
(* still to be written before the flag is.                                 *)
BookingOK ==
    mode = "partial_book" =>
        /\ ctx # None =>
             "tp3" \notin ctx.hit /\ \A l \in ctx.hit : Booked(l) # {}
        /\ "update" \in run.todo =>
             /\ "tp3" \notin run.ctx.hit
             /\ \A l \in run.ctx.hit : l \in run.todo \/ Booked(l) # {}
        /\ "exit" \in run.todo /\ run.reason = "tp3" =>
             \A l \in Partials : l \in run.todo \/ Booked(l) # {}
        /\ (\E g \in Booked("exit") : g.reason = "tp3") =>
             \A l \in Partials : Booked(l) # {}

(* While nothing has failed, position and context come and go together.    *)
PairingOK ==
    faults = 0 =>
        /\ run.pc # "write" => (memory = "open" <=> ctx # None)
        /\ "entry" \in run.todo => journal = {}
        /\ "insert" \in run.todo => memory = "none"
        /\ "save" \in run.todo /\ "insert" \notin run.todo => memory = "open"
        /\ "update" \in run.todo \/ "mark" \in run.todo => memory = "open"
        /\ "delete" \in run.todo => ctx # None
        /\ "delete" \in run.todo /\ "mark" \notin run.todo => memory = "closed"
        /\ "exit" \in run.todo => Booked("exit") = {}
        /\ Booked("exit") # {} => memory = "closed"

TradeInv == TypeOK /\ TodoOK /\ ContextOK /\ BookingOK /\ PairingOK

-----------------------------------------------------------------------------
(* Prices.                                                                 *)
LEMMA Constants ==
    /\ Risk \in Nat \ {0} /\ Trail \in Nat
    /\ \A l \in Tps : Target[l] \in Nat /\ At(Target[l]) \in Int
    /\ 0 < Target["tp1"] /\ Target["tp1"] <= Target["tp2"]
    /\ Target["tp2"] <= Target["tp3"]
    /\ StopPrice \in Int /\ EntryPrice \in Int
    /\ \A p \in Prices : p \in Int
    /\ BarLength \in Nat \ {0} /\ Timeout \in Nat \ {0}
    /\ MaxTime \in Nat /\ MaxFaults \in Nat
BY ConstantsAssumption DEF Tps, At, Prices, StopPrice, EntryPrice

(* The first target is passed before the next ones.                        *)
LEMMA TargetsInOrder ==
    ASSUME NEW p \in Int, PriceReached(p, TpPrice("tp3")), NEW l \in Tps
    PROVE  PriceReached(p, TpPrice(l))
BY ConstantsAssumption DEF PriceReached, TpPrice, At, Tps

LEMMA StopOrder ==
    ASSUME NEW a \in Int, NEW b \in Int, NEW c \in Int
    PROVE  /\ PriceReached(a, a)
           /\ PriceReached(a, b) /\ PriceReached(b, c) => PriceReached(a, c)
           /\ FavorableStop(a, b) \in Int
           /\ PriceReached(FavorableStop(a, b), a)
BY DEF PriceReached, FavorableStop

(* RaisedStop never loosens a stop.                                        *)
LEMMA RaisedStopFacts ==
    ASSUME NEW stop \in Int, NEW new \in SUBSET Tps
    PROVE  /\ RaisedStop(stop, new) \in Int
           /\ PriceReached(RaisedStop(stop, new), stop)
<1> DEFINE s1 == IF "tp1" \in new THEN FavorableStop(stop, EntryPrice) ELSE stop
           s2 == IF "tp2" \in new THEN FavorableStop(s1, TpPrice("tp1")) ELSE s1
           s3 == IF "tp3" \in new /\ mode \in {"trail_supertrend", "trail_chandelier"}
                   THEN FavorableStop(s2, TpPrice("tp2")) ELSE s2
<1>1. EntryPrice \in Int /\ TpPrice("tp1") \in Int /\ TpPrice("tp2") \in Int
  BY Constants DEF TpPrice, Tps
<1>2. s1 \in Int /\ PriceReached(s1, stop)
  BY <1>1, StopOrder
<1> HIDE DEF s1
<1>3. s2 \in Int /\ PriceReached(s2, s1)
  BY <1>1, <1>2, StopOrder
<1> HIDE DEF s2
<1>4. s3 \in Int /\ PriceReached(s3, s2)
  BY <1>1, <1>3, StopOrder
<1> HIDE DEF s3
<1>5. PriceReached(s3, stop)
  BY <1>2, <1>3, <1>4, StopOrder
<1> QED
  BY <1>4, <1>5 DEF RaisedStop, s1, s2, s3

(* Bars: the bucket of a time is not after it.                             *)
LEMMA BucketType ==
    ASSUME NEW t \in 0..MaxTime
    PROVE  Bucket(t) \in 0..MaxTime
BY Constants DEF Bucket

(* A record that is planned keeps the order of its statements and improves *)
(* on the context c it was decided from.                                   *)
Ordered(todo) ==
    /\ todo \subseteq Partials \cup Closing \cup {"update"}
    /\ Closing \cap todo \in {{}, Closing}
    /\ "update" \in todo => Closing \cap todo = {}
    /\ todo \cap Partials # {} => "update" \in todo \/ "mark" \in todo

Improves(plan, c) ==
    /\ plan.ctx \in Contexts /\ plan.reason \in Reasons \cup {None}
    /\ PriceReached(plan.ctx.stop, c.stop)
    /\ c.hit \subseteq plan.ctx.hit

Books(plan, c) ==
    /\ "update" \in plan.todo =>
         /\ "tp3" \notin plan.ctx.hit
         /\ \A l \in plan.ctx.hit : l \in plan.todo \/ l \in c.hit
    /\ plan.reason = "tp3" => \A l \in Partials : l \in plan.todo \/ l \in c.hit

LEMMA ExitingOrder ==
    ASSUME NEW reason, NEW partials \in SUBSET Partials,
           NEW otherwise \in SUBSET {"update"},
           partials # {} => otherwise # {} \/ reason # None
    PROVE  /\ Ordered(Exiting(reason, partials, otherwise))
           /\ "update" \in Exiting(reason, partials, otherwise) => reason = None
           /\ partials \subseteq Exiting(reason, partials, otherwise)
<1>1. CASE reason = None
  BY <1>1 DEF Exiting, Ordered, Partials, Closing
<1>2. CASE reason # None
  BY <1>2 DEF Exiting, Ordered, Partials, Closing
<1> QED
  BY <1>1, <1>2

LEMMA PlanFields ==
    ASSUME NEW todo, NEW hit, NEW stop, NEW peak, NEW reason
    PROVE  /\ Plan(todo, hit, stop, peak, reason).todo = todo
           /\ Plan(todo, hit, stop, peak, reason).reason = reason
           /\ Plan(todo, hit, stop, peak, reason).ctx.hit = hit
           /\ Plan(todo, hit, stop, peak, reason).ctx.stop = stop
           /\ Plan(todo, hit, stop, peak, reason).ctx =
                [hit |-> hit, stop |-> stop, peak |-> peak]
BY DEF Plan

LEMMA PlanImproves ==
    ASSUME NEW c \in Contexts, NEW todo, NEW hit \in SUBSET Tps, NEW stop \in Int,
           NEW peak \in Int \cup {None}, NEW reason \in Reasons \cup {None},
           PriceReached(stop, c.stop), c.hit \subseteq hit
    PROVE  Improves(Plan(todo, hit, stop, peak, reason), c)
<1>1. [hit |-> hit, stop |-> stop, peak |-> peak] \in Contexts
  BY DEF Contexts
<1> QED
  BY <1>1, PlanFields DEF Improves

LEMMA ContextType ==
    ASSUME NEW c \in Contexts
    PROVE  /\ c.hit \in SUBSET Tps /\ c.stop \in Int /\ c.peak \in Int \cup {None}
           /\ PriceReached(c.stop, c.stop)
<1>1. c.hit \in SUBSET Tps /\ c.stop \in Int /\ c.peak \in Int \cup {None}
  BY DEF Contexts
<1> QED
  BY <1>1, StopOrder

(* What a tick decides.                                                    *)
LEMMA TickPlanFacts ==
    ASSUME NEW c \in Contexts, NEW p \in Int
    PROVE  /\ Ordered(TickPlan(c, p).todo)
           /\ Improves(TickPlan(c, p), c)
           /\ mode = "partial_book" /\ "tp3" \notin c.hit => Books(TickPlan(c, p), c)
<1> DEFINE reached == {l \in Tps : PriceReached(p, TpPrice(l))}
           new == reached \ c.hit
           hit == c.hit \cup new
           update == IF hit = {} THEN {} ELSE {"update"}
           r2 == IF "tp3" \in reached THEN "tp3" ELSE None
           r3 == IF mode = "trail_then_exit" /\ "tp3" \in new THEN "tp3" ELSE None
           p1 == Plan(Closing, c.hit, c.stop, c.peak, "stop")
           p2 == Plan(Exiting(r2, new \cap Partials, update), hit, c.stop, c.peak, r2)
           p3 == Plan(Exiting(r3, {}, update), hit, RaisedStop(c.stop, new), c.peak, r3)
           out == PriceStopped(p, IF mode = "partial_book" THEN StopPrice ELSE c.stop)
<1>1. /\ new \in SUBSET Tps /\ hit \in SUBSET Tps /\ update \in SUBSET {"update"}
      /\ c.hit \subseteq hit /\ c.hit \in SUBSET Tps
  BY ContextType
<1>2. /\ r2 \in Reasons \cup {None} /\ r3 \in Reasons \cup {None}
      /\ "stop" \in Reasons
  BY DEF Reasons
<1>3. new \cap Partials \in SUBSET Partials /\ (new \cap Partials # {} => update # {})
  OBVIOUS
<1>4. "tp3" \in reached => \A l \in Partials : l \in new \/ l \in c.hit
  BY TargetsInOrder DEF Partials, Tps
<1>5. "tp3" \notin reached /\ "tp3" \notin c.hit => "tp3" \notin hit
  OBVIOUS
<1>6. \A l \in hit : l \in c.hit \/ l \in new
  OBVIOUS
<1>7. \/ TickPlan(c, p) = p1
      \/ mode = "partial_book" /\ TickPlan(c, p) = p2
      \/ mode # "partial_book" /\ TickPlan(c, p) = p3
  BY Zenon DEF TickPlan
<1>8. \A l \in Tps : l = "tp3" \/ l \in Partials
  BY DEF Tps, Partials
<1>9. "tp3" # None
  BY NoneAssumption DEF Reasons
<1>10. r2 = None => "tp3" \notin reached
  BY <1>9
<1>11. r2 = "tp3" => "tp3" \in reached
  BY <1>9
<1> HIDE DEF new, hit, update, r2, r3, reached
<1>a. ASSUME TickPlan(c, p) = p1
      PROVE  /\ Ordered(p1.todo) /\ Improves(p1, c) /\ Books(p1, c)
  <2>1. p1.todo = Closing /\ p1.reason = "stop"
    BY DEF Plan
  <2>2. Ordered(Closing) /\ "update" \notin Closing
    BY DEF Ordered, Closing, Partials
  <2>3. Improves(p1, c)
    BY PlanImproves, ContextType, <1>2
  <2>4. Books(p1, c)
    BY <2>1, <2>2 DEF Books
  <2> QED
    BY <2>1, <2>2, <2>3, <2>4
<1>b. /\ Ordered(p2.todo) /\ Improves(p2, c)
      /\ "tp3" \notin c.hit => Books(p2, c)
  <2>1. /\ p2.todo = Exiting(r2, new \cap Partials, update)
        /\ p2.reason = r2 /\ p2.ctx.hit = hit
    BY DEF Plan
  <2>2. /\ Ordered(p2.todo)
        /\ "update" \in p2.todo => r2 = None
        /\ new \cap Partials \subseteq p2.todo
    <3>1. /\ Ordered(Exiting(r2, new \cap Partials, update))
          /\ "update" \in Exiting(r2, new \cap Partials, update) => r2 = None
          /\ new \cap Partials \subseteq Exiting(r2, new \cap Partials, update)
      BY <1>1, <1>3, ExitingOrder
    <3> QED
      BY <2>1, <3>1
  <2>3. Improves(p2, c)
    BY PlanImproves, ContextType, <1>1, <1>2
  <2>4. ASSUME "tp3" \notin c.hit PROVE Books(p2, c)
    <3>1. ASSUME "update" \in p2.todo
          PROVE  "tp3" \notin p2.ctx.hit /\ \A l \in p2.ctx.hit : l \in p2.todo \/ l \in c.hit
      BY <3>1, <2>1, <2>2, <2>4, <1>1, <1>5, <1>6, <1>8, <1>10
    <3>2. p2.reason = "tp3" => \A l \in Partials : l \in p2.todo \/ l \in c.hit
      BY <2>1, <2>2, <1>4, <1>11
    <3> QED
      BY <3>1, <3>2 DEF Books
  <2> QED
    BY <2>2, <2>3, <2>4
<1>c. Ordered(p3.todo) /\ Improves(p3, c)
  <2>1. p3.todo = Exiting(r3, {}, update)
    BY DEF Plan
  <2>2. Ordered(p3.todo)
    <3>1. {} \in SUBSET Partials
      OBVIOUS
    <3> QED
      BY <1>1, <2>1, <3>1, ExitingOrder
  <2>3. RaisedStop(c.stop, new) \in Int /\ PriceReached(RaisedStop(c.stop, new), c.stop)
    BY <1>1, ContextType, RaisedStopFacts
  <2> QED
    BY <2>2, <2>3, PlanImproves, ContextType, <1>1, <1>2
<1> HIDE DEF p1, p2, p3
<1> QED
  BY <1>7, <1>a, <1>b, <1>c

LEMMA FirstOfType ==
    ASSUME NEW stopped, NEW expired, NEW flip
    PROVE  /\ FirstOf(stopped, expired, flip) \in Reasons \cup {None}
           /\ FirstOf(stopped, expired, flip) # "tp3"
BY NoneAssumption DEF FirstOf, Reasons

LEMMA ReachedInOrder ==
    ASSUME NEW b \in Bars, Reached(b, TpPrice("tp3")), NEW l \in Tps
    PROVE  Reached(b, TpPrice(l))
<1>1. b.high \in Int /\ b.low \in Int
  BY DEF Bars
<1> QED
  BY <1>1, TargetsInOrder DEF Reached

(* What a closed bar decides in partial_book.                              *)
LEMMA PartialBookFacts ==
    ASSUME NEW c \in Contexts, NEW b \in Bars, NEW expired, NEW flip,
           "tp3" \notin c.hit
    PROVE  /\ Ordered(PartialBookPlan(c, b, expired, flip).todo)
           /\ Improves(PartialBookPlan(c, b, expired, flip), c)
           /\ Books(PartialBookPlan(c, b, expired, flip), c)
<1> DEFINE new == {l \in Tps : Reached(b, TpPrice(l))} \ c.hit
           hit == c.hit \cup new
           reason == IF "tp3" \in hit THEN "tp3"
                     ELSE FirstOf(Stopped(b, StopPrice), expired, flip)
           todo == Exiting(reason, new \cap Partials, {"update"})
           plan == Plan(todo, hit, c.stop, c.peak, reason)
<1>1. PartialBookPlan(c, b, expired, flip) = plan
  BY Zenon DEF PartialBookPlan
<1>2. /\ new \in SUBSET Tps /\ hit \in SUBSET Tps /\ c.hit \subseteq hit
      /\ new \cap Partials \in SUBSET Partials
  BY ContextType
<1>3. /\ reason \in Reasons \cup {None}
      /\ reason = "tp3" <=> "tp3" \in hit
  BY FirstOfType DEF Reasons
<1>4. "tp3" \in hit => \A l \in Partials : l \in new \/ l \in c.hit
  BY ReachedInOrder DEF Partials, Tps
<1>5. \A l \in hit : l \in c.hit \/ l \in new
  OBVIOUS
<1>6. \A l \in Tps : l = "tp3" \/ l \in Partials
  BY DEF Tps, Partials
<1>7. "tp3" # None
  BY NoneAssumption DEF Reasons
<1> HIDE DEF new, hit, reason
<1>8. /\ Ordered(todo)
      /\ "update" \in todo => reason = None
      /\ new \cap Partials \subseteq todo
  BY <1>2, ExitingOrder
<1> HIDE DEF todo
<1>9. plan.todo = todo /\ plan.reason = reason /\ plan.ctx.hit = hit
  BY DEF Plan
<1>10. Improves(plan, c)
  BY PlanImproves, ContextType, <1>2, <1>3
<1>11. Books(plan, c)
  <2>1. ASSUME "update" \in plan.todo
        PROVE  "tp3" \notin plan.ctx.hit /\ \A l \in plan.ctx.hit : l \in plan.todo \/ l \in c.hit
    BY <2>1, <1>2, <1>3, <1>5, <1>6, <1>7, <1>8, <1>9
  <2>2. plan.reason = "tp3" => \A l \in Partials : l \in plan.todo \/ l \in c.hit
    BY <1>3, <1>4, <1>8, <1>9
  <2> QED
    BY <2>1, <2>2 DEF Books
<1> HIDE DEF plan
<1> QED
  BY <1>1, <1>8, <1>9, <1>10, <1>11

LEMMA PeakType ==
    ASSUME NEW c \in Contexts, NEW b \in Bars
    PROVE  Peak(c, b) \in Int
<1>1. b.high \in Int /\ b.low \in Int /\ c.peak \in Int \cup {None}
  BY DEF Bars, Contexts
<1> QED
  BY <1>1 DEF Peak

(* What a closed bar decides in the trailing modes.                        *)
LEMMA TrailingFacts ==
    ASSUME NEW c \in Contexts, NEW b \in Bars, NEW expired, NEW flip,
           NEW line \in Int, NEW atr \in Int
    PROVE  /\ Ordered(TrailingPlan(c, b, expired, flip, line, atr).todo)
           /\ Improves(TrailingPlan(c, b, expired, flip, line, atr), c)
<1> DEFINE out == Stopped(b, c.stop)
           new == IF out THEN {} ELSE {l \in Tps : Reached(b, TpPrice(l))} \ c.hit
           hit == c.hit \cup new
           done == out \/ (mode = "trail_then_exit" /\ "tp3" \in new)
           trailing == ~done /\ "tp3" \in hit
           s1 == RaisedStop(c.stop, new)
           supertrend == trailing /\ mode = "trail_supertrend"
           chandelier == trailing /\ mode = "trail_chandelier" /\ atr > 0
           peak == IF chandelier THEN Peak(c, b) ELSE c.peak
           stop == CASE supertrend -> FavorableStop(s1, line)
                     [] chandelier -> FavorableStop(s1, peak - At(atr))
                     [] OTHER -> s1
           reason == CASE out -> "stop"
                       [] done /\ ~out -> "tp3"
                       [] supertrend /\ b.close # line /\ PriceStopped(b.close, line) ->
                            "supertrend_trail"
                       [] OTHER -> FirstOf(FALSE, expired, flip)
           todo == Exiting(reason, {}, {"update"})
           plan == Plan(todo, hit, stop, peak, reason)
<1>1. TrailingPlan(c, b, expired, flip, line, atr) = plan
  BY Zenon DEF TrailingPlan
<1>2. new \in SUBSET Tps /\ hit \in SUBSET Tps /\ c.hit \subseteq hit
  BY ContextType
<1>3. reason \in Reasons \cup {None}
  BY FirstOfType DEF Reasons
<1> HIDE DEF new, reason
<1>4. s1 \in Int /\ PriceReached(s1, c.stop)
  BY <1>2, ContextType, RaisedStopFacts
<1> HIDE DEF s1
<1>5. /\ peak \in Int \cup {None}
      /\ chandelier => peak - At(atr) \in Int
  BY PeakType, ContextType DEF At
<1> HIDE DEF supertrend, chandelier, peak
<1>6. /\ FavorableStop(s1, line) \in Int
      /\ PriceReached(FavorableStop(s1, line), s1)
  BY <1>4, StopOrder
<1>7. ASSUME chandelier
      PROVE  /\ FavorableStop(s1, peak - At(atr)) \in Int
             /\ PriceReached(FavorableStop(s1, peak - At(atr)), s1)
  BY <1>4, <1>5, <1>7, StopOrder
<1>8. PriceReached(s1, s1)
  BY <1>4, StopOrder
<1>9. stop \in Int /\ PriceReached(stop, s1)
  BY <1>4, <1>6, <1>7, <1>8
<1> HIDE DEF stop
<1>10. PriceReached(stop, c.stop)
  BY <1>4, <1>9, ContextType, StopOrder
<1>11. Improves(plan, c)
  BY <1>2, <1>3, <1>5, <1>9, <1>10, PlanImproves
<1>12. Ordered(todo)
  <2>1. {} \in SUBSET Partials
    OBVIOUS
  <2> QED
    BY <2>1, ExitingOrder
<1> HIDE DEF todo
<1>13. plan.todo = todo
  BY DEF Plan
<1> HIDE DEF plan
<1> QED
  BY <1>1, <1>11, <1>12, <1>13

-----------------------------------------------------------------------------
(* What else a plan for the context c promises: a partial exit is new, the *)
(* first target comes with the second, a stop exit is one of the prices    *)
(* that are judged (out), and partial_book leaves the stop where it is.    *)
Follows(plan, c, out) ==
    /\ \A l \in Partials : l \in plan.todo => l \notin c.hit /\ l \in plan.ctx.hit
    /\ \A l \in Partials : plan.todo \cap Partials # {} /\ l \in plan.ctx.hit
                             => l \in c.hit \/ l \in plan.todo
    /\ "tp2" \in plan.todo => "tp1" \in plan.ctx.hit
    /\ plan.reason = "stop" => out /\ "update" \notin plan.todo
    /\ mode = "partial_book" => plan.ctx.stop = c.stop

(* Since when the prices of a bar were traded.                             *)
From(b) == b.bucket * BarLength

LEMMA FirstWithSecond ==
    ASSUME NEW p \in Int, PriceReached(p, TpPrice("tp2"))
    PROVE  PriceReached(p, TpPrice("tp1"))
BY ConstantsAssumption DEF PriceReached, TpPrice, At, Tps

(* The shared shape of the plans: new targets are booked, or none is.      *)
LEMMA ExitingFollows ==
    ASSUME NEW c \in Contexts, NEW new \in SUBSET Tps, new \cap c.hit = {},
           "tp2" \in new => "tp1" \in new \/ "tp1" \in c.hit,
           NEW partials \in {{}, new \cap Partials},
           NEW otherwise \in SUBSET {"update"}, NEW stop, NEW peak, NEW reason, NEW out,
           reason = "stop" => out, mode = "partial_book" => stop = c.stop
    PROVE  Follows(Plan(Exiting(reason, partials, otherwise), c.hit \cup new, stop,
                        peak, reason), c, out)
<1> DEFINE todo == Exiting(reason, partials, otherwise)
           plan == Plan(todo, c.hit \cup new, stop, peak, reason)
<1>1. todo \cap Partials = partials
  <2>1. Closing \cap Partials = {} /\ otherwise \cap Partials = {}
        /\ partials \subseteq Partials
    BY DEF Closing, Partials
  <2> QED
    BY <2>1 DEF Exiting
<1>2. reason = "stop" => "update" \notin todo
  <2>1. "update" \notin Closing /\ "update" \notin partials
    BY DEF Closing, Partials
  <2>2. "stop" # None
    BY NoneAssumption DEF Reasons
  <2> QED
    BY <2>1, <2>2 DEF Exiting
<1> HIDE DEF todo
<1>3. /\ plan.todo = todo /\ plan.reason = reason
      /\ plan.ctx.hit = c.hit \cup new /\ plan.ctx.stop = stop
  BY DEF Plan
<1> HIDE DEF plan
<1>4. \A l \in Partials : l \in todo => l \in new
  BY <1>1
<1>5. todo \cap Partials # {} => partials = new \cap Partials
  BY <1>1
<1>6. \A l \in Partials : todo \cap Partials # {} /\ l \in new => l \in todo
  BY <1>1, <1>5
<1>7. "tp2" \in Partials
  BY DEF Partials
<1>8. Follows(plan, c, out)
  BY <1>2, <1>3, <1>4, <1>6, <1>7 DEF Follows
<1> QED
  BY <1>8 DEF plan, todo

LEMMA TickFollows ==
    ASSUME NEW c \in Contexts, NEW p \in Int, mode = "partial_book" => c.stop = StopPrice
    PROVE  Follows(TickPlan(c, p), c, PriceStopped(p, c.stop))
<1> DEFINE reached == {l \in Tps : PriceReached(p, TpPrice(l))}
           new == reached \ c.hit
           hit == c.hit \cup new
           update == IF hit = {} THEN {} ELSE {"update"}
           r2 == IF "tp3" \in reached THEN "tp3" ELSE None
           r3 == IF mode = "trail_then_exit" /\ "tp3" \in new THEN "tp3" ELSE None
           p1 == Plan(Closing, c.hit, c.stop, c.peak, "stop")
           p2 == Plan(Exiting(r2, new \cap Partials, update), hit, c.stop, c.peak, r2)
           p3 == Plan(Exiting(r3, {}, update), hit, RaisedStop(c.stop, new), c.peak, r3)
           out == PriceStopped(p, IF mode = "partial_book" THEN StopPrice ELSE c.stop)
<1>1. \/ out /\ TickPlan(c, p) = p1
      \/ mode = "partial_book" /\ TickPlan(c, p) = p2
      \/ mode # "partial_book" /\ TickPlan(c, p) = p3
  BY Zenon DEF TickPlan
<1>2. out <=> PriceStopped(p, c.stop)
  OBVIOUS
<1>3. new \in SUBSET Tps /\ new \cap c.hit = {} /\ update \in SUBSET {"update"}
  OBVIOUS
<1>4. "tp2" \in new => "tp1" \in new \/ "tp1" \in c.hit
  BY FirstWithSecond DEF Tps
<1>5. r2 # "stop" /\ r3 # "stop"
  BY NoneAssumption DEF Reasons
<1> HIDE DEF reached, new, update, r2, r3, out
<1>6. ASSUME out PROVE Follows(p1, c, PriceStopped(p, c.stop))
  <2>1. p1.todo = Closing /\ p1.ctx.stop = c.stop /\ p1.ctx.hit = c.hit
    BY DEF Plan
  <2>2. "update" \notin Closing /\ Closing \cap Partials = {} /\ "tp2" \notin Closing
    BY DEF Closing, Partials
  <2> HIDE DEF p1
  <2> QED
    BY <1>2, <1>6, <2>1, <2>2 DEF Follows
<1>7. Follows(p2, c, PriceStopped(p, c.stop))
  BY <1>3, <1>4, <1>5, ExitingFollows
<1>8. ASSUME mode # "partial_book" PROVE Follows(p3, c, PriceStopped(p, c.stop))
  <2>1. {} \in {{}, new \cap Partials}
    OBVIOUS
  <2> QED
    BY <1>3, <1>4, <1>5, <1>8, <2>1, ExitingFollows
<1> HIDE DEF p1, p2, p3
<1> QED
  BY <1>1, <1>6, <1>7, <1>8

LEMMA FirstOfStop ==
    ASSUME NEW stopped, NEW expired, NEW flip, FirstOf(stopped, expired, flip) = "stop"
    PROVE  stopped
BY NoneAssumption DEF FirstOf, Reasons

LEMMA PartialBookFollows ==
    ASSUME NEW c \in Contexts, NEW b \in Bars, NEW expired, NEW flip, c.stop = StopPrice
    PROVE  Follows(PartialBookPlan(c, b, expired, flip), c, Stopped(b, c.stop))
<1> DEFINE new == {l \in Tps : Reached(b, TpPrice(l))} \ c.hit
           hit == c.hit \cup new
           reason == IF "tp3" \in hit THEN "tp3"
                     ELSE FirstOf(Stopped(b, StopPrice), expired, flip)
           plan == Plan(Exiting(reason, new \cap Partials, {"update"}), hit, c.stop,
                        c.peak, reason)
<1>1. PartialBookPlan(c, b, expired, flip) = plan
  BY Zenon DEF PartialBookPlan
<1>2. new \in SUBSET Tps /\ new \cap c.hit = {}
  OBVIOUS
<1>3. "tp2" \in new => "tp1" \in new \/ "tp1" \in c.hit
  <2>1. b.high \in Int /\ b.low \in Int
    BY DEF Bars
  <2>2. Reached(b, TpPrice("tp2")) => Reached(b, TpPrice("tp1"))
    BY <2>1, FirstWithSecond DEF Reached
  <2> QED
    BY <2>2 DEF Tps
<1>4. reason = "stop" => Stopped(b, c.stop)
  BY FirstOfStop
<1> HIDE DEF new, reason
<1>5. Follows(plan, c, Stopped(b, c.stop))
  <2>1. {"update"} \in SUBSET {"update"}
    OBVIOUS
  <2> QED
    BY <1>2, <1>3, <1>4, <2>1, ExitingFollows
<1> HIDE DEF plan
<1> QED
  BY <1>1, <1>5

LEMMA TrailingFollows ==
    ASSUME NEW c \in Contexts, NEW b \in Bars, NEW expired, NEW flip,
           NEW line \in Int, NEW atr \in Int, mode # "partial_book"
    PROVE  Follows(TrailingPlan(c, b, expired, flip, line, atr), c, Stopped(b, c.stop))
<1> DEFINE out == Stopped(b, c.stop)
           new == IF out THEN {} ELSE {l \in Tps : Reached(b, TpPrice(l))} \ c.hit
           hit == c.hit \cup new
           done == out \/ (mode = "trail_then_exit" /\ "tp3" \in new)
           trailing == ~done /\ "tp3" \in hit
           s1 == RaisedStop(c.stop, new)
           supertrend == trailing /\ mode = "trail_supertrend"
           chandelier == trailing /\ mode = "trail_chandelier" /\ atr > 0
           peak == IF chandelier THEN Peak(c, b) ELSE c.peak
           stop == CASE supertrend -> FavorableStop(s1, line)
                     [] chandelier -> FavorableStop(s1, peak - At(atr))
                     [] OTHER -> s1
           reason == CASE out -> "stop"
                       [] done /\ ~out -> "tp3"
                       [] supertrend /\ b.close # line /\ PriceStopped(b.close, line) ->
                            "supertrend_trail"
                       [] OTHER -> FirstOf(FALSE, expired, flip)
           plan == Plan(Exiting(reason, {}, {"update"}), hit, stop, peak, reason)
<1>1. TrailingPlan(c, b, expired, flip, line, atr) = plan
  BY Zenon DEF TrailingPlan
<1>2. new \in SUBSET Tps /\ new \cap c.hit = {}
  OBVIOUS
<1>3. "tp2" \in new => "tp1" \in new \/ "tp1" \in c.hit
  <2>1. b.high \in Int /\ b.low \in Int
    BY DEF Bars
  <2>2. Reached(b, TpPrice("tp2")) => Reached(b, TpPrice("tp1"))
    BY <2>1, FirstWithSecond DEF Reached
  <2> QED
    BY <2>2 DEF Tps
<1>4. reason = "stop" => out
  BY FirstOfStop
<1> HIDE DEF out, new, stop, peak, reason
<1>5. Follows(plan, c, out)
  <2>1. {"update"} \in SUBSET {"update"} /\ {} \in {{}, new \cap Partials}
    OBVIOUS
  <2> QED
    BY <1>2, <1>3, <1>4, <2>1, ExitingFollows
<1> HIDE DEF plan
<1> QED
  BY <1>1, <1>5 DEF out

-----------------------------------------------------------------------------
(* The record of the tick that is handled.                                 *)
LEMMA IdleType ==
    /\ Idle \in Handlers /\ Idle.todo = {} /\ Idle.pc = "idle"
    /\ Idle.closed = None
BY DEF Idle, Handlers

LEMMA SettledFacts ==
    ASSUME NEW r \in Handlers
    PROVE  /\ Settled(r) \in Handlers
           /\ Settled(r).todo = r.todo
           /\ Settled(r).pc = "write" <=> r.todo # {}
           /\ Settled(r).pc = "bar" => Settled(r).closed # None
           /\ Settled(r).closed \in {r.closed, None} /\ Settled(r).pc # "tick"
           /\ r.todo # {} =>
                /\ Settled(r).at = r.at /\ Settled(r).ctx = r.ctx
                /\ Settled(r).reason = r.reason /\ Settled(r).judged = r.judged
<1>1. CASE r.todo # {}
  <2>1. Settled(r) = [r EXCEPT !.pc = "write"]
    BY <1>1 DEF Settled
  <2>2. [r EXCEPT !.pc = "write"] \in Handlers
    BY DEF Handlers
  <2>3. /\ [r EXCEPT !.pc = "write"].todo = r.todo
        /\ [r EXCEPT !.pc = "write"].pc = "write"
        /\ [r EXCEPT !.pc = "write"].at = r.at
        /\ [r EXCEPT !.pc = "write"].ctx = r.ctx
        /\ [r EXCEPT !.pc = "write"].reason = r.reason
        /\ [r EXCEPT !.pc = "write"].judged = r.judged
        /\ [r EXCEPT !.pc = "write"].closed = r.closed
    BY DEF Handlers
  <2> QED
    BY <1>1, <2>1, <2>2, <2>3
<1>2. CASE r.todo = {} /\ r.closed # None
  <2> DEFINE i == [Idle EXCEPT !.pc = "bar", !.closed = r.closed]
  <2>1. Settled(r) = i
    BY <1>2 DEF Settled
  <2>2. r.closed \in Bars \cup {None}
    BY DEF Handlers
  <2>3. i \in Handlers
    BY <2>2, IdleType DEF Handlers
  <2>4. i.todo = {} /\ i.pc = "bar" /\ i.closed = r.closed
    BY DEF Idle
  <2> HIDE DEF i
  <2> QED
    BY <1>2, <2>1, <2>3, <2>4
<1>3. CASE r.todo = {} /\ r.closed = None
  <2>1. Settled(r) = Idle
    BY <1>3 DEF Settled
  <2> QED
    BY <1>3, <2>1, IdleType
<1> QED
  BY <1>1, <1>2, <1>3

(* What Done and Settled do to the record of a statement.                  *)
LEMMA DoneFacts ==
    ASSUME run \in Handlers, NEW op, Done(op)
    PROVE  /\ run' \in Handlers
           /\ run'.todo = run.todo \ {op}
           /\ run'.pc = "write" <=> run'.todo # {}
           /\ run'.pc = "bar" => run'.closed # None
           /\ run'.closed \in {run.closed, None} /\ run'.pc # "tick"
           /\ run'.todo # {} =>
                /\ run'.at = run.at /\ run'.ctx = run.ctx
                /\ run'.reason = run.reason /\ run'.judged = run.judged
<1> DEFINE r == [run EXCEPT !.todo = @ \ {op}]
<1>1. r \in Handlers
  <2>1. run.todo \ {op} \in SUBSET Ops
    BY DEF Handlers
  <2> QED
    BY <2>1 DEF Handlers
<1>2. /\ r.todo = run.todo \ {op} /\ r.at = run.at
      /\ r.ctx = run.ctx /\ r.reason = run.reason
      /\ r.judged = run.judged /\ r.closed = run.closed
  BY DEF Handlers
<1>3. run' = Settled(r)
  BY DEF Done
<1> HIDE DEF r
<1> QED
  BY <1>1, <1>2, <1>3, SettledFacts

(* What ManageTick and ManageBar have in common: nothing is left to write, *)
(* or a plan is taken over that was made for the stored context.           *)
Decides(plan, out, judged) ==
    /\ Managed /\ ctx \in Contexts
    /\ Ordered(plan.todo) /\ Improves(plan, ctx) /\ Follows(plan, ctx, out)
    /\ mode = "partial_book" => Books(plan, ctx)
    /\ run'.todo = plan.todo
    /\ run'.todo # {} =>
         /\ run'.ctx = plan.ctx /\ run'.reason = plan.reason
         /\ run'.judged = judged

Handled ==
    /\ run.todo = {}
    /\ run' \in Handlers /\ run'.pc # "tick"
    /\ run'.closed \in {run.closed, None}
    /\ run'.pc = "write" <=> run'.todo # {}
    /\ run'.pc = "bar" => run'.closed # None
    /\ UNCHANGED <<trade, market, book, ctx, journal, faults, history>>

LEMMA TakenOver ==
    ASSUME Managed, ctx \in Contexts, NEW plan, NEW out, NEW judged,
           Ordered(plan.todo), Improves(plan, ctx), Follows(plan, ctx, out),
           mode = "partial_book" => Books(plan, ctx),
           NEW r \in Handlers, r.todo = plan.todo, r.ctx = plan.ctx,
           r.reason = plan.reason, r.judged = judged, run' = Settled(r)
    PROVE  Decides(plan, out, judged)
BY SettledFacts DEF Decides

(* The tick judges its own price.                                          *)
LEMMA TickDecides ==
    ASSUME TradeInv, ManageTick
    PROVE  /\ Handled /\ run.pc = "tick"
           /\ \/ run'.todo = {}
              \/ \E plan : Decides(plan, PriceStopped(price, ctx.stop), run.at)
<1> DEFINE plan == TickPlan(ctx, price)
           r == [run EXCEPT !.todo = plan.todo, !.ctx = plan.ctx,
                            !.reason = plan.reason, !.judged = run.at]
           out == PriceStopped(price, ctx.stop)
<1>0. /\ run \in Handlers /\ run.todo = {} /\ price \in Int /\ run.pc = "tick"
      /\ UNCHANGED <<trade, market, book, ctx, journal, faults, history>>
  BY Constants DEF ManageTick, TradeInv, TypeOK, TodoOK
<1>1. CASE Managed /\ run.at > 0
  <2>1. ctx \in Contexts /\ ctx # None
    BY <1>1 DEF Managed, TradeInv, TypeOK
  <2>2. /\ mode = "partial_book" => ctx.stop = StopPrice
        /\ mode = "partial_book" => "tp3" \notin ctx.hit
    BY <2>1 DEF TradeInv, ContextOK, BookingOK
  <2>3. /\ Ordered(plan.todo) /\ Improves(plan, ctx) /\ Follows(plan, ctx, out)
        /\ mode = "partial_book" => Books(plan, ctx)
    BY <1>0, <2>1, <2>2, TickPlanFacts, TickFollows
  <2>4. run' = Settled(r)
    BY <1>1 DEF ManageTick
  <2> HIDE DEF plan, out
  <2>5. /\ plan.todo \in SUBSET Ops /\ run.at \in Int
        /\ plan.ctx \in Contexts /\ plan.reason \in Reasons \cup {None}
    BY <1>0, <2>3 DEF Ordered, Improves, Ops, Handlers
  <2>6. r \in Handlers
    BY <1>0, <2>5 DEF Handlers
  <2>7. /\ r.todo = plan.todo /\ r.ctx = plan.ctx /\ r.reason = plan.reason
        /\ r.closed = run.closed /\ r.judged = run.at
    BY <1>0 DEF Handlers
  <2> HIDE DEF r
  <2>8. Handled
    BY <1>0, <2>4, <2>6, <2>7, SettledFacts DEF Handled
  <2>9. Decides(plan, out, run.at)
    BY <1>1, <2>1, <2>3, <2>4, <2>6, <2>7, TakenOver
  <2>10. \E p : Decides(p, out, run.at)
    BY <2>9
  <2> QED
    BY <1>0, <2>8, <2>10 DEF out
<1>2. CASE ~(Managed /\ run.at > 0)
  <2>1. run' = Settled(run)
    BY <1>2 DEF ManageTick
  <2>2. Handled /\ run'.todo = {}
    BY <1>0, <2>1, SettledFacts DEF Handled
  <2> QED
    BY <1>0, <2>2
<1> QED
  BY <1>1, <1>2

(* A closed bar judges the prices since its start.                         *)
LEMMA BarDecides ==
    ASSUME TradeInv, ManageBar
    PROVE  /\ Handled /\ run.closed \in Bars /\ run.closed # None
           /\ \/ run'.todo = {}
              \/ \E plan : Decides(plan, Stopped(run.closed, ctx.stop), From(run.closed))
<1>0. /\ run \in Handlers /\ run.todo = {} /\ run.closed \in Bars /\ run.closed # None
      /\ UNCHANGED <<trade, market, book, ctx, journal, faults, history>>
  <2>1. run \in Handlers
    BY DEF TradeInv, TypeOK
  <2>2. run.closed \in Bars \cup {None}
    BY <2>1 DEF Handlers
  <2> QED
    BY <2>1, <2>2 DEF ManageBar, TradeInv, TodoOK
<1> DEFINE b == run.closed
           out == Stopped(b, ctx.stop)
           expired == EndAt(b) >= Timeout * BarLength
           plan(flip, line, atr) ==
             IF mode = "partial_book"
               THEN PartialBookPlan(ctx, b, expired, flip)
               ELSE TrailingPlan(ctx, b, expired, flip, line, atr)
           r(flip, line, atr) ==
             [run EXCEPT !.at = EndAt(b), !.closed = None,
                         !.todo = plan(flip, line, atr).todo,
                         !.ctx = plan(flip, line, atr).ctx,
                         !.reason = plan(flip, line, atr).reason,
                         !.judged = EndAt(b) - BarLength]
<1>1. PICK flip \in BOOLEAN, line \in Prices, atr \in {0, Trail} :
        run' = IF Managed /\ EndAt(b) > 0 THEN Settled(r(flip, line, atr)) ELSE Idle
  BY Zenon DEF ManageBar
<1>2. CASE Managed /\ EndAt(b) > 0
  <2> DEFINE q == plan(flip, line, atr)
             s == r(flip, line, atr)
  <2>1. ctx \in Contexts /\ ctx # None
    BY <1>2 DEF Managed, TradeInv, TypeOK
  <2>2. /\ mode = "partial_book" => ctx.stop = StopPrice
        /\ mode = "partial_book" => "tp3" \notin ctx.hit
    BY <2>1 DEF TradeInv, ContextOK, BookingOK
  <2>3. line \in Int /\ atr \in Int
    BY Constants
  <2>4. /\ Ordered(q.todo) /\ Improves(q, ctx) /\ Follows(q, ctx, out)
        /\ mode = "partial_book" => Books(q, ctx)
    <3>1. CASE mode = "partial_book"
      <4>1. q = PartialBookPlan(ctx, b, expired, flip)
        BY <3>1
      <4> HIDE DEF q, expired
      <4> QED
        BY <1>0, <2>1, <2>2, <3>1, <4>1, PartialBookFacts, PartialBookFollows
    <3>2. CASE mode # "partial_book"
      <4>1. q = TrailingPlan(ctx, b, expired, flip, line, atr)
        BY <3>2
      <4> HIDE DEF q, expired
      <4> QED
        BY <1>0, <2>1, <2>3, <3>2, <4>1, TrailingFacts, TrailingFollows
    <3> QED
      BY <3>1, <3>2
  <2>5. EndAt(b) \in Int /\ EndAt(b) - BarLength = From(b) /\ From(b) \in Int
    <3>1. b.bucket \in Int /\ BarLength \in Int
      BY <1>0, Constants DEF Bars
    <3>2. (b.bucket + 1) * BarLength = b.bucket * BarLength + BarLength
      BY <3>1
    <3>3. b.bucket * BarLength \in Int
      BY <3>1
    <3> QED
      BY <3>1, <3>2, <3>3 DEF EndAt, From
  <2>6. run' = Settled(s)
    BY <1>1, <1>2
  <2>7. s = [run EXCEPT !.at = EndAt(b), !.closed = None, !.todo = q.todo,
                        !.ctx = q.ctx, !.reason = q.reason,
                        !.judged = From(b)]
    BY <2>5
  <2> HIDE DEF q, s, out
  <2>8. /\ q.todo \in SUBSET Ops
        /\ q.ctx \in Contexts /\ q.reason \in Reasons \cup {None}
    BY <2>4 DEF Ordered, Improves, Ops
  <2>9. s \in Handlers
    BY <1>0, <2>5, <2>7, <2>8 DEF Handlers
  <2>10. /\ s.todo = q.todo /\ s.ctx = q.ctx /\ s.reason = q.reason
         /\ s.closed = None /\ s.judged = From(b)
    BY <1>0, <2>7 DEF Handlers
  <2>11. Handled
    BY <1>0, <2>6, <2>9, <2>10, SettledFacts DEF Handled
  <2>12. Decides(q, out, From(b))
    BY <1>2, <2>1, <2>4, <2>6, <2>9, <2>10, TakenOver
  <2>13. \E p : Decides(p, out, From(b))
    BY <2>12
  <2> QED
    BY <1>0, <2>11, <2>13 DEF out
<1>3. CASE ~(Managed /\ EndAt(b) > 0)
  <2>1. run' = Idle
    BY <1>1, <1>3
  <2>2. Handled /\ run'.todo = {}
    BY <1>0, <2>1, IdleType DEF Handled
  <2> QED
    BY <1>0, <2>2
<1> QED
  BY <1>2, <1>3

LEMMA PlannedStep ==
    ASSUME TradeInv, Handled, NEW plan, NEW out, NEW judged, Decides(plan, out, judged)
    PROVE  TradeInv'
<1> USE DEF TradeInv, trade, market, book, history
<1>0. /\ ctx # None /\ memory = "open" /\ ctx \in Contexts
      /\ plan.ctx \in Contexts /\ plan.ctx # None
      /\ UNCHANGED <<trade, market, book, ctx, journal, faults, history>>
  BY NoneAssumption DEF Managed, Improves, Decides, Handled
<1>1. /\ run' \in Handlers /\ run'.todo = plan.todo
      /\ run'.pc = "write" <=> run'.todo # {}
      /\ run'.pc = "bar" => run'.closed # None
      /\ run'.todo # {} => run'.ctx = plan.ctx /\ run'.reason = plan.reason
      /\ Ordered(plan.todo) /\ Improves(plan, ctx) /\ Follows(plan, ctx, out)
      /\ mode = "partial_book" => Books(plan, ctx)
  BY DEF Handled, Decides
<1>2. /\ "save" \notin run'.todo /\ "entry" \notin run'.todo
      /\ "insert" \notin run'.todo
  BY <1>1 DEF Ordered, Partials, Closing
<1>3. "delete" \in run'.todo \/ "exit" \in run'.todo \/ "mark" \in run'.todo
        => Closing \subseteq run'.todo
  BY <1>1 DEF Ordered, Closing
<1>4. TypeOK'
  BY <1>0, <1>1 DEF TypeOK, At, Prices
<1>5. TodoOK'
  <2>1. Exits' \in {{}, Closing} /\ ("update" \in run'.todo => Exits' = {})
    BY <1>1 DEF Ordered, Exits
  <2> QED
    BY <1>0, <1>1, <1>2, <2>1 DEF TodoOK, Ordered
<1>6. ContextOK'
  <2>1. mode = "partial_book" /\ "update" \in run'.todo => run'.ctx.stop = StopPrice
    BY <1>0, <1>1 DEF ContextOK, Follows
  <2>2. mode = "partial_book" => ctx.stop = StopPrice
    BY <1>0 DEF ContextOK
  <2> QED
    BY <1>0, <1>1, <1>2, <2>1, <2>2 DEF ContextOK, Improves, PriceReached, StopPrice, At
<1>7. BookingOK'
  <2>1. ASSUME mode = "partial_book", "update" \in run'.todo
        PROVE  /\ "tp3" \notin run'.ctx.hit
               /\ \A l \in run'.ctx.hit : l \in run'.todo \/ Booked(l)' # {}
    BY <1>0, <1>1, <2>1 DEF Books, BookingOK, Booked
  <2>2. ASSUME mode = "partial_book", "exit" \in run'.todo, run'.reason = "tp3"
        PROVE  \A l \in Partials : l \in run'.todo \/ Booked(l)' # {}
    BY <1>0, <1>1, <2>2 DEF Books, BookingOK, Booked
  <2> QED
    BY <1>0, <2>1, <2>2 DEF BookingOK, Booked
<1>8. PairingOK'
  <2>1. ASSUME faults = 0
        PROVE  Booked("exit") = {}
    BY <1>0, <2>1 DEF PairingOK
  <2> QED
    BY <1>0, <1>1, <1>2, <1>3, <2>1 DEF PairingOK, Booked, Closing
<1> QED
  BY <1>4, <1>5, <1>6, <1>7, <1>8

(* The handling of a tick ends, or has nothing to write.                   *)
LEMMA IdleStep ==
    ASSUME TradeInv, TypeOK', run'.todo = {}, run'.pc # "write",
           run'.pc = "bar" => run'.closed # None,
           faults' = 0 => faults = 0 /\ (memory = "open" <=> ctx # None)
                          /\ UNCHANGED memory,
           UNCHANGED <<trade, ctx, journal>>
    PROVE  TradeInv'
<1> USE DEF TradeInv, trade
<1>1. TodoOK'
  BY DEF TodoOK, Exits
<1>2. ContextOK'
  BY DEF ContextOK, StopPrice, At
<1>3. BookingOK'
  BY DEF BookingOK, Booked
<1>4. PairingOK'
  BY DEF PairingOK, Booked
<1> QED
  BY <1>1, <1>2, <1>3, <1>4

-----------------------------------------------------------------------------
(* Every step keeps the invariant.                                         *)
LEMMA BarType ==
    ASSUME NEW t \in 0..MaxTime, NEW p \in Int, NEW b \in Bars \cup {None}
    PROVE  /\ NewBar(t, p) \in Bars
           /\ Formed(b, t, p) \in Bars
           /\ Closed(b, t) \in Bars \cup {None}
<1>1. NewBar(t, p) \in Bars
  BY BucketType DEF NewBar, Bars
<1>2. ASSUME b # None, b.bucket = Bucket(t)
      PROVE  Formed(b, t, p) \in Bars
  <2>1. b \in Bars
    BY <1>2
  <2>2. /\ b.low \in Int /\ b.high \in Int /\ b.close \in Int
        /\ b.bucket \in 0..MaxTime
    BY <2>1 DEF Bars
  <2>3. Formed(b, t, p) = [b EXCEPT !.low = IF p < @ THEN p ELSE @,
                                    !.high = IF p > @ THEN p ELSE @, !.close = p]
    BY <1>2 DEF Formed
  <2> QED
    BY <2>1, <2>2, <2>3 DEF Bars
<1>3. ASSUME ~(b # None /\ b.bucket = Bucket(t))
      PROVE  Formed(b, t, p) = NewBar(t, p)
  BY <1>3 DEF Formed
<1> QED
  BY <1>1, <1>2, <1>3 DEF Closed

LEMMA TickStep ==
    ASSUME TradeInv, Tick
    PROVE  TradeInv'
<1>1. PICK t \in now..MaxTime, p \in Prices :
        /\ now' = t /\ price' = p /\ bar' = Formed(bar, t, p)
        /\ run' = [Idle EXCEPT !.pc = "tick", !.at = t, !.closed = Closed(bar, t)]
  BY DEF Tick
<1>2. t \in 0..MaxTime /\ t \in Int /\ p \in Int /\ bar \in Bars \cup {None}
  BY Constants DEF TradeInv, TypeOK
<1>3. bar' \in Bars /\ Closed(bar, t) \in Bars \cup {None}
  BY <1>1, <1>2, BarType
<1>4. /\ run' \in Handlers /\ run'.todo = {} /\ run'.pc = "tick"
  <2> DEFINE i == [Idle EXCEPT !.pc = "tick", !.at = t, !.closed = Closed(bar, t)]
  <2>1. i \in Handlers
    BY <1>2, <1>3, IdleType DEF Handlers
  <2>2. i.todo = {} /\ i.pc = "tick"
    BY DEF Idle
  <2>3. run' = i
    BY <1>1
  <2> HIDE DEF i
  <2> QED
    BY <2>1, <2>2, <2>3
<1>5. (touched \/ (ctx # None /\ PriceStopped(p, ctx.stop))) \in BOOLEAN
  OBVIOUS
<1>6. touched' \in BOOLEAN
  BY DEF Tick
<1>7. TypeOK'
  BY <1>1, <1>2, <1>3, <1>4, <1>6
     DEF Tick, TradeInv, TypeOK, trade, book, Prices, At
<1>8. faults = 0 => (memory = "open" <=> ctx # None)
  BY DEF Tick, TradeInv, PairingOK
<1>9. UNCHANGED <<trade, book, ctx, journal, faults>>
  BY DEF Tick
<1> QED
  BY <1>4, <1>7, <1>8, <1>9, IdleStep DEF book, trade

LEMMA ManageStep ==
    ASSUME TradeInv, ManageTick \/ ManageBar
    PROVE  TradeInv'
<1>1. Handled /\ (run'.todo = {} \/ \E plan, out, judged : Decides(plan, out, judged))
  BY TickDecides, BarDecides
<1>2. CASE run'.todo = {}
  <2>1. TypeOK'
    BY <1>1 DEF Handled, TradeInv, TypeOK, trade, market, book, history, Prices, At
  <2>2. faults = 0 => (memory = "open" <=> ctx # None)
    BY DEF ManageTick, ManageBar, TradeInv, PairingOK
  <2> QED
    BY <1>1, <1>2, <2>1, <2>2, IdleStep DEF Handled, book, trade
<1>3. CASE \E plan, out, judged : Decides(plan, out, judged)
  BY <1>1, <1>3, PlannedStep
<1> QED
  BY <1>1, <1>2, <1>3

(* A statement that is written leaves the others in their order.           *)
LEMMA StatementTodo ==
    ASSUME TradeInv, NEW op \in Ops, Ready(op), run'.todo = run.todo \ {op},
           run'.pc = "write" <=> run'.todo # {},
           run'.pc = "bar" => run'.closed # None,
           run'.todo # {} => run'.ctx = run.ctx,
           UNCHANGED trade
    PROVE  TodoOK'
<1> USE DEF TradeInv
<1>1. /\ op \in run.todo /\ run.pc = "write" /\ run.todo \cap Before[op] = {}
  BY DEF Ready
<1>2. run'.pc = "write" => run'.ctx # None
  BY <1>1 DEF TodoOK
<1>3. "save" \in run'.todo => run'.todo \subseteq Opening /\ run'.ctx = NewContext'
  BY DEF TodoOK, NewContext, StopPrice, At, trade
<1>4. /\ "entry" \in run'.todo => "insert" \in run'.todo
      /\ "insert" \in run'.todo => "save" \in run'.todo
  BY <1>1 DEF TodoOK, Before
<1>5. /\ Exits' \in {{}, {"delete"}, {"row", "delete"}, {"exit", "row", "delete"}, Closing}
      /\ "update" \in run'.todo => Exits' = {}
  <2>1. Exits' = Exits \ {op}
    BY DEF Exits
  <2>2. op \in Closing => Exits \cap Before[op] = {} /\ op \in Exits
    BY <1>1 DEF Exits
  <2>3. CASE op \notin Closing
    BY <2>1, <2>3 DEF TodoOK, Exits
  <2>4. CASE op = "mark"
    BY <2>1, <2>2, <2>4 DEF TodoOK, Closing, Before
  <2>5. CASE op = "exit"
    BY <2>1, <2>2, <2>5 DEF TodoOK, Closing, Before
  <2>6. CASE op = "row"
    BY <2>1, <2>2, <2>6 DEF TodoOK, Closing, Before
  <2>7. CASE op = "delete"
    BY <2>1, <2>2, <2>7 DEF TodoOK, Closing, Before
  <2> QED
    BY <2>3, <2>4, <2>5, <2>6, <2>7 DEF Closing
<1>6. run'.todo \cap Partials # {} => "update" \in run'.todo \/ "mark" \in run'.todo
  BY <1>1 DEF TodoOK, Before
<1> QED
  BY <1>2, <1>3, <1>4, <1>5, <1>6 DEF TodoOK

(* What is known of a statement that can be written, and once it is.       *)
LEMMA ReadyFacts ==
    ASSUME TradeInv, NEW op \in Ops, Ready(op)
    PROVE  /\ op \in run.todo /\ run \in Handlers /\ run.ctx \in Contexts
           /\ op \in Opening => run.todo \subseteq Opening
           /\ op \notin Opening => run.todo \cap Opening = {}
           /\ op = "save" => run.todo = {"save"} /\ run.ctx = NewContext
           /\ op = "update" => run.todo = {"update"} /\ ctx \in Contexts
           /\ op = "delete" => run.todo = {"delete"}
           /\ op = "exit" => run.todo = {"exit", "row", "delete"}
           /\ op = "row" => run.todo = {"row", "delete"}
           /\ op = "mark" => run.todo = Closing
           /\ op \in Partials => "update" \in run.todo \/ "mark" \in run.todo
<1> USE DEF TradeInv
<1>1. /\ op \in run.todo /\ run.pc = "write" /\ run.todo \cap Before[op] = {}
      /\ run \in Handlers /\ TodoOK
  BY DEF Ready, TypeOK
<1>2. run.todo \in SUBSET Ops /\ run.ctx \in Contexts
  BY <1>1 DEF Handlers, TodoOK
<1>3. /\ op \in Opening => run.todo \subseteq Opening
      /\ op \notin Opening => run.todo \cap Opening = {}
  BY <1>1 DEF TodoOK, Opening
<1>4. op = "save" => run.todo = {"save"} /\ run.ctx = NewContext
  BY <1>1 DEF TodoOK, Opening, Before
<1>5. op = "update" => run.todo = {"update"} /\ ctx \in Contexts
  <2>1. ASSUME op = "update" PROVE ctx \in Contexts
    BY <1>1, <2>1 DEF ContextOK, TypeOK
  <2>2. ASSUME op = "update" PROVE run.todo = {"update"}
    <3>1. run.todo \cap Opening = {} /\ run.todo \cap Closing = {}
      BY <1>1, <1>3, <2>2 DEF TodoOK, Exits, Opening
    <3>2. run.todo \cap Partials = {}
      BY <1>1, <2>2 DEF Before
    <3> QED
      BY <1>1, <1>2, <2>2, <3>1, <3>2 DEF Ops
  <2> QED
    BY <2>1, <2>2
<1>6. ASSUME op \in Closing
      PROVE  run.todo = Exits
  <2>1. run.todo \cap Opening = {}
    BY <1>3, <1>6 DEF Closing, Opening
  <2>2. "update" \notin run.todo
    BY <1>1, <1>6 DEF TodoOK, Exits
  <2>3. run.todo \cap Partials = {}
    BY <1>1, <1>6, <2>2 DEF TodoOK, Closing, Before, Exits, Partials
  <2> QED
    BY <1>2, <2>1, <2>2, <2>3 DEF Ops, Exits
<1>7. CASE op = "mark"
  BY <1>1, <1>2, <1>3, <1>6, <1>7 DEF TodoOK, Before, Closing, Opening, Partials
<1>8. CASE op = "exit"
  BY <1>1, <1>2, <1>3, <1>6, <1>8 DEF TodoOK, Before, Closing, Opening, Partials
<1>9. CASE op = "row"
  BY <1>1, <1>2, <1>3, <1>6, <1>9 DEF TodoOK, Before, Closing, Opening, Partials
<1>10. CASE op = "delete"
  BY <1>1, <1>2, <1>3, <1>6, <1>10 DEF TodoOK, Before, Closing, Opening, Partials
<1>11. CASE op \notin Closing
  BY <1>1, <1>2, <1>3, <1>4, <1>5, <1>11 DEF TodoOK, Closing
<1> QED
  BY <1>7, <1>8, <1>9, <1>10, <1>11 DEF Closing

LEMMA StatementFacts ==
    ASSUME TradeInv, NEW op \in Ops, Ready(op), Done(op), UNCHANGED trade
    PROVE  /\ TodoOK' /\ run' \in Handlers
           /\ run'.todo = run.todo \ {op}
           /\ run'.pc = "write" <=> run'.todo # {}
           /\ run'.closed \in {run.closed, None} /\ run'.pc # "tick"
           /\ run'.todo # {} =>
                /\ run'.at = run.at /\ run'.ctx = run.ctx
                /\ run'.reason = run.reason /\ run'.judged = run.judged
<1>1. run \in Handlers
  BY DEF TradeInv, TypeOK
<1>2. /\ run' \in Handlers
      /\ run'.todo = run.todo \ {op}
      /\ run'.pc = "write" <=> run'.todo # {}
      /\ run'.pc = "bar" => run'.closed # None
      /\ run'.closed \in {run.closed, None} /\ run'.pc # "tick"
      /\ run'.todo # {} =>
           /\ run'.at = run.at /\ run'.ctx = run.ctx
           /\ run'.reason = run.reason /\ run'.judged = run.judged
  BY <1>1, DoneFacts
<1> QED
  BY <1>2, StatementTodo

LEMMA PersistSignalStep ==
    ASSUME TradeInv, NEW op \in {"entry", "exit"} \cup Partials, PersistSignal(op)
    PROVE  TradeInv'
<1> DEFINE g == [type |-> op, at |-> run.at, reason |-> run.reason]
<1>0. /\ op \in Ops /\ Ready(op) /\ Done(op) /\ journal' = journal \cup {g}
      /\ UNCHANGED <<trade, market, book, ctx, faults, history>>
  BY DEF PersistSignal, Ops, Opening, Closing
<1>1. /\ TodoOK' /\ run' \in Handlers /\ run'.todo = run.todo \ {op}
      /\ run'.pc = "write" <=> run'.todo # {}
      /\ run'.todo # {} => run'.ctx = run.ctx /\ run'.reason = run.reason
  BY <1>0, StatementFacts
<1>2. /\ op \in run.todo /\ run \in Handlers
      /\ op = "entry" => run.todo \subseteq Opening
      /\ op # "entry" => run.todo \cap Opening = {}
      /\ op = "exit" => run.todo = {"exit", "row", "delete"}
      /\ op \in Partials => "update" \in run.todo \/ "mark" \in run.todo
  BY <1>0, ReadyFacts DEF Opening, Partials
<1> USE DEF TradeInv, trade, market, book, history
<1>3. g \in Signals
  BY <1>2 DEF Handlers, Signals
<1>4. TypeOK'
  BY <1>0, <1>1, <1>3 DEF TypeOK, Prices, At
<1>5. ContextOK'
  BY <1>0, <1>1, <1>2 DEF ContextOK, PriceReached, StopPrice, At
<1>6. /\ \A l : Booked(l) \subseteq Booked(l)'
      /\ \A l : l # op => Booked(l)' = Booked(l)
      /\ Booked(op)' = Booked(op) \cup {g} /\ Booked(op)' # {}
  <2>1. g.type = op
    OBVIOUS
  <2> HIDE DEF g
  <2>2. ASSUME NEW l
        PROVE  /\ Booked(l) \subseteq Booked(l)'
               /\ l # op => Booked(l)' = Booked(l)
    BY <1>0, <2>1 DEF Booked
  <2>3. Booked(op)' = Booked(op) \cup {g} /\ g \in Booked(op)'
    BY <1>0, <2>1 DEF Booked
  <2> QED
    BY <2>2, <2>3
<1>7. BookingOK'
  <2> SUFFICES ASSUME mode = "partial_book"
               PROVE  BookingOK'
    BY <1>0 DEF BookingOK
  <2>1. ctx' # None => "tp3" \notin ctx'.hit /\ \A l \in ctx'.hit : Booked(l)' # {}
    BY <1>0, <1>6 DEF BookingOK
  <2>2. ASSUME "update" \in run'.todo
        PROVE  /\ "tp3" \notin run'.ctx.hit
               /\ \A l \in run'.ctx.hit : l \in run'.todo \/ Booked(l)' # {}
    BY <1>1, <1>6, <2>2 DEF BookingOK
  <2>3. ASSUME "exit" \in run'.todo, run'.reason = "tp3"
        PROVE  \A l \in Partials : l \in run'.todo \/ Booked(l)' # {}
    BY <1>1, <1>6, <2>3 DEF BookingOK
  <2>4. ASSUME NEW h \in Booked("exit")', h.reason = "tp3"
        PROVE  \A l \in Partials : Booked(l)' # {}
    <3>1. CASE h \in Booked("exit")
      BY <1>6, <2>4, <3>1 DEF BookingOK
    <3>2. CASE h \notin Booked("exit")
      <4>1. op = "exit" /\ run.reason = "tp3"
        BY <1>6, <2>4, <3>2
      <4>2. \A l \in Partials : l \notin run.todo
        BY <1>2, <4>1 DEF Partials
      <4> QED
        BY <1>2, <1>6, <4>1, <4>2 DEF BookingOK
    <3> QED
      BY <3>1, <3>2
  <2> QED
    BY <2>1, <2>2, <2>3, <2>4 DEF BookingOK
<1>8. PairingOK'
  <2> SUFFICES ASSUME faults = 0
               PROVE  PairingOK'
    BY <1>0 DEF PairingOK
  <2>1. CASE op = "entry"
    <3>1. "insert" \in run.todo /\ "save" \in run.todo
      BY <1>2, <2>1 DEF TodoOK
    <3> QED
      BY <1>0, <1>1, <1>2, <1>6, <2>1, <3>1 DEF PairingOK, Opening
  <2>2. CASE op = "exit"
    <3>1. /\ run'.todo = {"row", "delete"} /\ run'.pc = "write"
          /\ "delete" \in run.todo /\ "mark" \notin run.todo
      BY <1>1, <1>2, <2>2
    <3> QED
      BY <1>0, <3>1 DEF PairingOK
  <2>3. CASE op \in Partials
    <3>1. /\ run'.todo # {} /\ op # "exit" /\ "entry" \notin run'.todo
          /\ "insert" \notin run'.todo /\ "save" \notin run'.todo
      BY <1>1, <1>2, <2>3 DEF Partials, Opening
    <3>2. Booked("exit")' = Booked("exit") /\ run'.todo \subseteq run.todo
      BY <1>1, <1>6, <3>1
    <3>3. /\ "update" \in run'.todo \/ "mark" \in run'.todo => memory = "open"
          /\ "delete" \in run'.todo => ctx # None
          /\ "delete" \in run'.todo /\ "mark" \notin run'.todo => memory = "closed"
          /\ "exit" \in run'.todo => Booked("exit") = {}
          /\ Booked("exit") # {} => memory = "closed"
      BY <1>1, <2>3, <3>2 DEF PairingOK, Partials
    <3> QED
      BY <1>0, <1>1, <3>1, <3>2, <3>3 DEF PairingOK
  <2> QED
    BY <2>1, <2>2, <2>3
<1> QED
  BY <1>1, <1>4, <1>5, <1>7, <1>8

LEMMA InsertStep ==
    ASSUME TradeInv, InsertPosition
    PROVE  TradeInv'
<1>0. /\ "insert" \in Ops /\ Ready("insert") /\ Done("insert")
      /\ row' = "open" /\ memory' = "open"
      /\ UNCHANGED <<trade, market, ctx, journal, faults, history>>
  BY DEF InsertPosition, Ops, Opening
<1>1. /\ TodoOK' /\ run' \in Handlers /\ run'.todo = run.todo \ {"insert"}
      /\ run'.pc = "write" <=> run'.todo # {}
      /\ run'.todo # {} => run'.ctx = run.ctx /\ run'.reason = run.reason
  BY <1>0, StatementFacts
<1>2. /\ "insert" \in run.todo /\ run.todo \subseteq Opening
      /\ "save" \in run.todo
  BY <1>0, ReadyFacts DEF Opening, TradeInv, TodoOK
<1>3. /\ "save" \in run'.todo /\ "insert" \notin run'.todo
      /\ "entry" \notin run'.todo /\ "update" \notin run'.todo
      /\ "mark" \notin run'.todo /\ "delete" \notin run'.todo
      /\ "exit" \notin run'.todo
  BY <1>1, <1>2 DEF Opening, TradeInv, TodoOK
<1> USE DEF TradeInv, trade, market, history
<1>4. TypeOK'
  BY <1>0, <1>1 DEF TypeOK, Prices, At
<1>5. ContextOK'
  BY <1>0, <1>2, <1>3 DEF ContextOK, StopPrice, At
<1>6. BookingOK'
  BY <1>0, <1>3 DEF BookingOK, Booked
<1>7. PairingOK'
  BY <1>0, <1>1, <1>2, <1>3 DEF PairingOK, Booked
<1> QED
  BY <1>1, <1>4, <1>5, <1>6, <1>7

LEMMA WriteContextStep ==
    ASSUME TradeInv, NEW op \in {"save", "update"}, WriteContext(op)
    PROVE  TradeInv'
<1>0. /\ op \in Ops /\ Ready(op) /\ Done(op) /\ ctx' = run.ctx
      /\ UNCHANGED <<trade, market, book, journal, faults>>
  BY DEF WriteContext, Ops, Opening
<1>1. /\ TodoOK' /\ run' \in Handlers /\ run'.todo = run.todo \ {op}
      /\ run'.pc = "write" <=> run'.todo # {}
  BY <1>0, StatementFacts
<1>2. /\ run.todo = {op} /\ run.ctx \in Contexts
      /\ op = "save" => run.ctx = NewContext
  BY <1>0, ReadyFacts
<1>3. run'.todo = {} /\ run'.pc # "write" /\ ctx' \in Contexts /\ ctx' # None
  BY <1>0, <1>1, <1>2, NoneAssumption
<1> USE DEF TradeInv, trade, market, book, history
<1>4. raised' \in 0..MaxTime /\ touched' \in BOOLEAN
  <2>1. PriceStopped(price, run.ctx.stop) \in BOOLEAN
    <3>1. price \in Int /\ run.ctx.stop \in Int
      BY <1>2, Constants DEF TypeOK, Contexts
    <3>2. CASE side = "Long"
      BY <3>1, <3>2 DEF PriceStopped
    <3>3. CASE side # "Long"
      BY <3>1, <3>3 DEF PriceStopped
    <3> QED
      BY <3>2, <3>3
  <2>2. now \in 0..MaxTime /\ raised \in 0..MaxTime /\ touched \in BOOLEAN
    BY DEF TypeOK
  <2>3. \/ raised' = now /\ touched' = PriceStopped(price, run.ctx.stop)
        \/ raised' = raised /\ touched' = touched
    BY DEF WriteContext
  <2> HIDE DEF TradeInv
  <2> QED
    BY <2>1, <2>2, <2>3
<1>5. TypeOK'
  BY <1>0, <1>1, <1>3, <1>4 DEF TypeOK, Prices, At
<1>6. ContextOK'
  <2>1. mode = "partial_book" => run.ctx.stop = StopPrice
    BY <1>2 DEF ContextOK, NewContext
  <2> QED
    BY <1>0, <1>3, <2>1 DEF ContextOK, StopPrice, At
<1>7. BookingOK'
  <2> SUFFICES ASSUME mode = "partial_book"
               PROVE  "tp3" \notin ctx'.hit /\ \A l \in ctx'.hit : Booked(l) # {}
    BY <1>0, <1>3 DEF BookingOK, Booked
  <2>1. CASE op = "save"
    <3>1. ctx'.hit = {}
      BY <1>0, <1>2, <2>1 DEF NewContext
    <3> QED
      BY <3>1
  <2>2. CASE op = "update"
    <3>1. /\ "tp3" \notin run.ctx.hit
          /\ \A l \in run.ctx.hit : l \in run.todo \/ Booked(l) # {}
      BY <1>2, <2>2 DEF BookingOK
    <3>2. run.ctx.hit \subseteq Tps
      BY <1>2 DEF Contexts
    <3> QED
      BY <1>0, <1>2, <2>2, <3>1, <3>2 DEF Tps
  <2> QED
    BY <2>1, <2>2
<1>8. PairingOK'
  BY <1>0, <1>2, <1>3 DEF PairingOK, Booked
<1> QED
  BY <1>1, <1>5, <1>6, <1>7, <1>8

LEMMA MarkClosedStep ==
    ASSUME TradeInv, MarkClosed
    PROVE  TradeInv'
<1>0. /\ "mark" \in Ops /\ Ready("mark") /\ Done("mark") /\ memory' = "closed"
      /\ UNCHANGED <<trade, market, row, ctx, journal, faults, history>>
  BY DEF MarkClosed, Ops, Closing
<1>1. /\ TodoOK' /\ run' \in Handlers /\ run'.todo = run.todo \ {"mark"}
      /\ run'.pc = "write" <=> run'.todo # {}
      /\ run'.todo # {} => run'.ctx = run.ctx /\ run'.reason = run.reason
  BY <1>0, StatementFacts
<1>2. run.todo = Closing /\ run'.todo = {"exit", "row", "delete"}
  BY <1>0, <1>1, ReadyFacts DEF Closing
<1> USE DEF TradeInv, trade, market, history
<1>3. TypeOK'
  BY <1>0, <1>1 DEF TypeOK, Prices, At
<1>4. ContextOK'
  BY <1>0, <1>2 DEF ContextOK, StopPrice, At, Closing
<1>5. BookingOK'
  BY <1>0, <1>1, <1>2 DEF BookingOK, Booked, Closing, Partials
<1>6. PairingOK'
  BY <1>0, <1>1, <1>2 DEF PairingOK, Booked, Closing
<1> QED
  BY <1>1, <1>3, <1>4, <1>5, <1>6

LEMMA WriteClosedStep ==
    ASSUME TradeInv, WriteClosed
    PROVE  TradeInv'
<1>0. /\ "row" \in Ops /\ Ready("row") /\ Done("row") /\ row' = "closed"
      /\ UNCHANGED <<trade, market, memory, ctx, journal, faults, history>>
  BY DEF WriteClosed, Ops, Closing
<1>1. /\ TodoOK' /\ run' \in Handlers /\ run'.todo = run.todo \ {"row"}
      /\ run'.pc = "write" <=> run'.todo # {}
  BY <1>0, StatementFacts
<1>2. run.todo = {"row", "delete"} /\ run'.todo = {"delete"}
  BY <1>0, <1>1, ReadyFacts
<1> USE DEF TradeInv, trade, market, history
<1>3. TypeOK'
  BY <1>0, <1>1 DEF TypeOK, Prices, At
<1>4. ContextOK'
  BY <1>0, <1>2 DEF ContextOK, StopPrice, At, Closing
<1>5. BookingOK'
  BY <1>0, <1>2 DEF BookingOK, Booked
<1>6. PairingOK'
  BY <1>0, <1>1, <1>2 DEF PairingOK, Booked
<1> QED
  BY <1>1, <1>3, <1>4, <1>5, <1>6

LEMMA DeleteContextStep ==
    ASSUME TradeInv, DeleteContext
    PROVE  TradeInv'
<1>0. /\ "delete" \in Ops /\ Ready("delete") /\ Done("delete") /\ ctx' = None
      /\ UNCHANGED <<trade, market, book, journal, faults, history>>
  BY DEF DeleteContext, Ops, Closing
<1>1. /\ TodoOK' /\ run' \in Handlers /\ run'.todo = run.todo \ {"delete"}
      /\ run'.pc = "write" <=> run'.todo # {}
  BY <1>0, StatementFacts
<1>2. run.todo = {"delete"} /\ run'.todo = {} /\ run'.pc # "write"
  BY <1>0, <1>1, ReadyFacts
<1> USE DEF TradeInv, trade, market, book, history
<1>3. TypeOK'
  BY <1>0, <1>1 DEF TypeOK, Prices, At
<1>4. ContextOK'
  BY <1>0, <1>2 DEF ContextOK, StopPrice, At, Closing
<1>5. BookingOK'
  BY <1>0, <1>2 DEF BookingOK, Booked
<1>6. PairingOK'
  BY <1>0, <1>2 DEF PairingOK, Booked
<1> QED
  BY <1>1, <1>3, <1>4, <1>5, <1>6

LEMMA IdTakenStep ==
    ASSUME TradeInv, NEW op \in {"entry", "exit"} \cup Partials, IdTaken(op)
    PROVE  TradeInv'
<1>0. /\ op \in Ops /\ Ready(op) /\ ~IdFree(op) /\ run' = Idle
      /\ UNCHANGED <<trade, market, book, ctx, journal, faults, history>>
  BY DEF IdTaken, Ops, Opening, Closing
<1>1. TypeOK'
  BY <1>0, IdleType
     DEF TradeInv, TypeOK, trade, market, book, history, Prices, At
<1>2. ASSUME faults = 0
      PROVE  memory = "open" <=> ctx # None
  <2>1. op \in run.todo /\ (op \in Partials => "update" \in run.todo \/ "mark" \in run.todo)
    BY <1>0, ReadyFacts
  <2>2. op # "entry"
    BY <1>0, <1>2, <2>1 DEF TradeInv, PairingOK, IdFree
  <2>3. op # "exit"
    <3>1. Booked(op) # {}
      BY <1>0 DEF IdFree, Booked
    <3> QED
      BY <1>2, <2>1, <3>1 DEF TradeInv, PairingOK
  <2>4. "update" \in run.todo \/ "mark" \in run.todo
    BY <2>1, <2>2, <2>3
  <2>5. memory = "open"
    BY <1>2, <2>4 DEF TradeInv, PairingOK
  <2>6. "mark" \in run.todo => "delete" \in run.todo
    BY DEF TradeInv, TodoOK, Exits, Closing
  <2>7. ctx # None
    BY <1>2, <2>4, <2>6 DEF TradeInv, PairingOK, ContextOK
  <2> QED
    BY <2>5, <2>7
<1> QED
  BY <1>0, <1>1, <1>2, IdleType, IdleStep DEF book, trade

LEMMA SqlFailsStep ==
    ASSUME TradeInv, SqlFails
    PROVE  TradeInv'
<1>1. /\ run' = Idle /\ faults' = faults + 1 /\ faults < MaxFaults
      /\ UNCHANGED <<trade, market, book, ctx, journal, history>>
  BY DEF SqlFails
<1>2. faults \in Nat /\ faults' \in 0..MaxFaults /\ faults' # 0
  BY <1>1, Constants DEF TradeInv, TypeOK
<1>3. TypeOK'
  BY <1>1, <1>2, IdleType
     DEF TradeInv, TypeOK, trade, market, book, history, Prices, At
<1> QED
  BY <1>1, <1>2, <1>3, IdleType, IdleStep

LEMMA RestartStep ==
    ASSUME TradeInv, Restart
    PROVE  TradeInv'
<1>1. /\ run' = Idle /\ faults' = faults + 1 /\ faults < MaxFaults
      /\ memory' = row /\ bar' = None
      /\ UNCHANGED <<trade, now, price, row, ctx, journal, history>>
  BY DEF Restart
<1>2. faults \in Nat /\ faults' \in 0..MaxFaults /\ faults' # 0
  BY <1>1, Constants DEF TradeInv, TypeOK
<1>3. TypeOK'
  BY <1>1, <1>2, IdleType DEF TradeInv, TypeOK, trade, history, Prices, At
<1> QED
  BY <1>1, <1>2, <1>3, IdleType, IdleStep

LEMMA InitInv == Init => TradeInv
<1> SUFFICES ASSUME Init PROVE TradeInv
  OBVIOUS
<1>1. NewContext \in Contexts /\ NewContext # None
  BY Constants, NoneAssumption DEF NewContext, Contexts
<1>2. /\ run \in Handlers /\ run.pc = "write" /\ run.todo = Opening
      /\ run.ctx = NewContext
  <2> DEFINE i == [Idle EXCEPT !.pc = "write", !.todo = Opening, !.ctx = NewContext]
  <2>1. Opening \in SUBSET Ops
    BY DEF Ops
  <2>2. i \in Handlers
    BY <1>1, <2>1, IdleType DEF Handlers
  <2>3. i.pc = "write" /\ i.todo = Opening /\ i.ctx = NewContext
    BY DEF Idle
  <2>4. run = i
    BY DEF Init
  <2> HIDE DEF i
  <2> QED
    BY <2>2, <2>3, <2>4
<1>3. bar \in Bars
  <2>1. 0 \in 0..MaxTime /\ price \in Int
    BY Constants DEF Init
  <2> QED
    BY <2>1, BarType DEF Init
<1>4. TypeOK
  <2>1. 0 \in 0..MaxTime /\ 0 \in 0..MaxFaults
    BY Constants
  <2> QED
    BY <1>2, <1>3, <2>1 DEF Init, TypeOK
<1>5. TodoOK
  <2>1. Exits = {}
    BY <1>2 DEF Exits, Opening, Closing
  <2> QED
    BY <1>1, <1>2, <2>1 DEF TodoOK, Opening, Partials
<1>6. ContextOK
  BY <1>2 DEF Init, ContextOK, Opening
<1>7. Booked("exit") = {}
  BY DEF Init, Booked
<1>8. BookingOK
  BY <1>2, <1>7 DEF Init, BookingOK, Opening
<1>9. PairingOK
  BY <1>2, <1>7 DEF Init, PairingOK, Opening
<1> QED
  BY <1>4, <1>5, <1>6, <1>8, <1>9 DEF TradeInv

LEMMA NextInv == TradeInv /\ [Next]_vars => TradeInv'
<1> SUFFICES ASSUME TradeInv, [Next]_vars PROVE TradeInv'
  OBVIOUS
<1>1. CASE Tick
  BY <1>1, TickStep
<1>2. CASE ManageTick \/ ManageBar
  BY <1>2, ManageStep
<1>4. ASSUME NEW op \in {"entry", "exit"} \cup Partials, PersistSignal(op)
      PROVE  TradeInv'
  BY <1>4, PersistSignalStep
<1>5. ASSUME NEW op \in {"entry", "exit"} \cup Partials, IdTaken(op)
      PROVE  TradeInv'
  BY <1>5, IdTakenStep
<1>6. CASE InsertPosition
  BY <1>6, InsertStep
<1>7. ASSUME NEW op \in {"save", "update"}, WriteContext(op)
      PROVE  TradeInv'
  BY <1>7, WriteContextStep
<1>8. CASE MarkClosed
  BY <1>8, MarkClosedStep
<1>9. CASE WriteClosed
  BY <1>9, WriteClosedStep
<1>10. CASE DeleteContext
  BY <1>10, DeleteContextStep
<1>11. CASE SqlFails
  BY <1>11, SqlFailsStep
<1>12. CASE Restart
  BY <1>12, RestartStep
<1>13. CASE UNCHANGED vars
  BY <1>13 DEF vars, trade, market, book, history, TradeInv, TypeOK, TodoOK, Exits,
               ContextOK, BookingOK, PairingOK, Booked, NewContext, StopPrice, At,
               Prices, PriceReached
<1> QED
  BY <1>1, <1>2, <1>4, <1>5, <1>6, <1>7, <1>8, <1>9, <1>10, <1>11, <1>12,
     <1>13 DEF Next, Handle

-----------------------------------------------------------------------------
(* The invariant holds for every distance, every bar length, every timeout *)
(* and any number of failures and kills.                                   *)
THEOREM TradeInvariant == Spec => []TradeInv
<1>1. Init => TradeInv
  BY InitInv
<1>2. TradeInv /\ [Next]_vars => TradeInv'
  BY NextInv
<1> QED
  BY <1>1, <1>2, PTL DEF Spec

(* Every variable keeps its type.                                          *)
THEOREM TypeCorrect == Spec => []TypeOK
<1>1. TradeInv => TypeOK
  BY DEF TradeInv
<1> QED
  BY <1>1, TradeInvariant, PTL

(* A flag of partial_book is stored only after its signal.                 *)
THEOREM StoredHits == Spec => []StoredHitsAreBooked
<1>1. TradeInv => StoredHitsAreBooked
  BY DEF TradeInv, BookingOK, StoredHitsAreBooked
<1> QED
  BY <1>1, TradeInvariant, PTL

(* A trade of partial_book that ends at tp3 has booked tp1 and tp2.        *)
THEOREM Tp3Books == Spec => []Tp3BooksTheRest
<1>1. TradeInv => Tp3BooksTheRest
  BY DEF TradeInv, BookingOK, Tp3BooksTheRest
<1> QED
  BY <1>1, TradeInvariant, PTL

(* Without faults, a position has a context exactly as long as it is open. *)
THEOREM OpenManaged == Spec => []OpenIsManaged
<1>1. TradeInv => OpenIsManaged
  BY DEF TradeInv, PairingOK, OpenIsManaged
<1> QED
  BY <1>1, TradeInvariant, PTL

(* The stored stop and flags only move toward profit: what an update       *)
(* stores improves on the context that is there, whatever was handled,     *)
(* lost or restarted between the decision and the update.                  *)
LEMMA StopStep ==
    ASSUME TradeInv, [Next]_vars, ctx # None, ctx' # None
    PROVE  PriceReached(ctx'.stop, ctx.stop) /\ ctx.hit \subseteq ctx'.hit
<1>1. ASSUME UNCHANGED ctx
      PROVE  PriceReached(ctx'.stop, ctx.stop) /\ ctx.hit \subseteq ctx'.hit
  <2>1. ctx \in Contexts
    BY DEF TradeInv, TypeOK
  <2> QED
    BY <1>1, <2>1, ContextType
<1>2. ASSUME NEW op \in {"save", "update"}, WriteContext(op)
      PROVE  PriceReached(ctx'.stop, ctx.stop) /\ ctx.hit \subseteq ctx'.hit
  <2>1. op \in run.todo /\ ctx' = run.ctx
    BY <1>2 DEF WriteContext, Ready
  <2>2. op = "update"
    BY <2>1 DEF TradeInv, ContextOK
  <2> QED
    BY <2>1, <2>2 DEF TradeInv, ContextOK
<1>3. ~DeleteContext
  BY DEF DeleteContext
<1>4. CASE Tick
  BY <1>1, <1>4 DEF Tick
<1>5. CASE ManageTick \/ ManageBar
  BY <1>1, <1>5 DEF ManageTick, ManageBar
<1>6. ASSUME NEW op \in {"entry", "exit"} \cup Partials,
             PersistSignal(op) \/ IdTaken(op)
      PROVE  UNCHANGED ctx
  BY <1>6 DEF PersistSignal, IdTaken
<1>7. CASE InsertPosition \/ MarkClosed \/ WriteClosed
  BY <1>1, <1>7 DEF InsertPosition, MarkClosed, WriteClosed
<1>8. CASE SqlFails \/ Restart
  BY <1>1, <1>8 DEF SqlFails, Restart
<1>9. CASE UNCHANGED vars
  BY <1>1, <1>9 DEF vars
<1> QED
  BY <1>1, <1>2, <1>3, <1>4, <1>5, <1>6, <1>7, <1>8, <1>9 DEF Next, Handle

THEOREM StopHolds == Spec => StopNeverLoosens
<1>1. TradeInv /\ [Next]_vars =>
        [ctx # None /\ ctx' # None =>
            /\ PriceReached(ctx'.stop, ctx.stop)
            /\ ctx.hit \subseteq ctx'.hit]_vars
  BY StopStep
<1> QED
  BY <1>1, TradeInvariant, PTL DEF Spec, StopNeverLoosens

-----------------------------------------------------------------------------
(* Why a stop exit has been touched: each bar that is being formed or is   *)
(* still to be judged holds only prices that the ticks have compared with  *)
(* the stored stop, or that are older than it.                             *)
BarOK(b) ==
    b # None =>
        /\ From(b) <= now
        /\ ctx # None /\ Stopped(b, ctx.stop) => touched \/ raised >= From(b)

TouchOK ==
    /\ BarOK(bar) /\ BarOK(run.closed)
    /\ "save" \in run.todo => now = 0 /\ raised = 0
    /\ run.pc = "tick" /\ ctx # None /\ PriceStopped(price, ctx.stop) => touched
    /\ run.pc = "write" /\ run.reason = "stop" =>
         "update" \notin run.todo /\ (touched \/ raised >= run.judged)

LEMMA BucketStart ==
    ASSUME NEW t \in 0..MaxTime
    PROVE  Bucket(t) * BarLength <= t /\ Bucket(t) * BarLength \in Int
<1>1. t \in Int /\ BarLength \in Int /\ BarLength > 0
  BY Constants
<1>2. t \div BarLength \in Int
  BY <1>1
<1>3. t = BarLength * (t \div BarLength) + (t % BarLength) /\ 0 <= t % BarLength
  BY <1>1
<1>4. (t \div BarLength) * BarLength = BarLength * (t \div BarLength)
  BY <1>1, <1>2
<1>5. BarLength * (t \div BarLength) \in Int /\ t % BarLength \in Int
  BY <1>1, <1>2
<1> QED
  BY <1>1, <1>2, <1>3, <1>4, <1>5 DEF Bucket

(* Steps that leave the market and the context alone.                      *)
LEMMA TouchKept ==
    ASSUME TouchOK, UNCHANGED <<trade, now, price, ctx, history>>,
           bar' \in {bar, None}, run'.closed \in {run.closed, None}, run'.pc # "tick",
           "save" \in run'.todo => "save" \in run.todo,
           run'.pc = "write" /\ run'.reason = "stop" =>
             "update" \notin run'.todo /\ (touched \/ raised >= run'.judged)
    PROVE  TouchOK'
<1> USE DEF trade, history
<1>1. BarOK(bar)' /\ BarOK(run.closed)'
  BY DEF TouchOK, BarOK, Stopped, PriceStopped, From
<1> QED
  BY <1>1 DEF TouchOK

LEMMA TouchInit == Init => TouchOK
<1> SUFFICES ASSUME Init PROVE TouchOK
  OBVIOUS
<1>1. run.closed = None /\ run.todo = Opening /\ run.reason = None /\ run.pc = "write"
  BY DEF Init, Idle
<1>2. From(bar) <= now
  BY Constants, BucketStart DEF Init, NewBar, From
<1>3. "stop" # None
  BY NoneAssumption DEF Reasons
<1> QED
  BY <1>1, <1>2, <1>3 DEF Init, TouchOK, BarOK, Opening

(* A tick is compared with the stop before it goes into a bar.             *)
LEMMA TouchTick ==
    ASSUME TradeInv, TouchOK, Tick
    PROVE  TouchOK'
<1>1. PICK t \in now..MaxTime, p \in Prices :
        /\ now' = t /\ price' = p /\ bar' = Formed(bar, t, p)
        /\ run' = [Idle EXCEPT !.pc = "tick", !.at = t, !.closed = Closed(bar, t)]
        /\ touched' = (touched \/ (ctx # None /\ PriceStopped(p, ctx.stop)))
  BY DEF Tick
<1>2. /\ t \in 0..MaxTime /\ t \in Int /\ p \in Int /\ bar \in Bars \cup {None}
      /\ now \in Int /\ now <= t /\ raised \in Int /\ ctx \in Contexts \cup {None}
  BY Constants DEF TradeInv, TypeOK
<1>3. UNCHANGED <<trade, ctx, raised>>
  BY DEF Tick
<1>4. run'.closed \in {bar, None} /\ run'.todo = {} /\ run'.pc = "tick"
  <2>1. Closed(bar, t) \in {bar, None}
    BY DEF Closed
  <2> QED
    BY <1>1, <2>1 DEF Idle
<1>5. ctx # None => ctx.stop \in Int
  BY <1>2, ContextType
<1>6. bar # None => bar.low \in Int /\ bar.high \in Int /\ From(bar) \in Int
  <2>1. ASSUME bar # None
        PROVE  bar.low \in Int /\ bar.high \in Int /\ bar.bucket \in Int
    BY <1>2, <2>1 DEF Bars
  <2> QED
    BY <2>1, Constants DEF From
<1>7. BarOK(run.closed)'
  <2>1. CASE run'.closed = None
    BY <2>1 DEF BarOK
  <2>2. CASE run'.closed = bar /\ bar # None
    <3>1. From(bar) <= t
      BY <1>2, <1>6, <2>2 DEF TouchOK, BarOK
    <3>2. ASSUME ctx # None, Stopped(bar, ctx.stop)
          PROVE  touched' \/ raised >= From(bar)
      BY <1>1, <2>2, <3>2 DEF TouchOK, BarOK
    <3>3. Stopped(run.closed, ctx.stop)' <=> Stopped(bar, ctx.stop)
      BY <1>3, <2>2 DEF Stopped, PriceStopped, trade
    <3>4. run'.closed.bucket * BarLength = From(bar)
      BY <2>2 DEF From
    <3> QED
      BY <1>1, <1>3, <3>1, <3>2, <3>3, <3>4 DEF BarOK, From
  <2> QED
    BY <1>4, <2>1, <2>2
<1>8. BarOK(bar)'
  <2>1. CASE bar # None /\ bar.bucket = Bucket(t)
    <3>1. /\ bar'.bucket = bar.bucket
          /\ bar'.low = (IF p < bar.low THEN p ELSE bar.low)
          /\ bar'.high = (IF p > bar.high THEN p ELSE bar.high)
      <4>1. bar \in Bars
        BY <1>2, <2>1
      <4> QED
        BY <1>1, <2>1, <4>1 DEF Formed, Bars
    <3>2. bar'.bucket * BarLength = From(bar) /\ From(bar) <= t
      BY <1>2, <1>6, <2>1, <3>1 DEF From, TouchOK, BarOK
    <3>3. ASSUME ctx # None, Stopped(bar, ctx.stop)'
          PROVE  Stopped(bar, ctx.stop) \/ PriceStopped(p, ctx.stop)
      BY <1>2, <1>3, <1>5, <1>6, <2>1, <3>1, <3>3 DEF Stopped, PriceStopped, trade
    <3>4. ctx # None /\ Stopped(bar, ctx.stop)' => touched' \/ raised >= From(bar)
      BY <1>1, <2>1, <3>3 DEF TouchOK, BarOK
    <3> QED
      BY <1>1, <1>3, <3>2, <3>4 DEF BarOK, From
  <2>2. CASE ~(bar # None /\ bar.bucket = Bucket(t))
    <3>1. bar' = NewBar(t, p)
      BY <1>1, <2>2 DEF Formed
    <3>2. bar'.low = p /\ bar'.high = p /\ bar'.bucket = Bucket(t)
      BY <3>1 DEF NewBar
    <3>3. ASSUME ctx # None, Stopped(bar, ctx.stop)'
          PROVE  PriceStopped(p, ctx.stop)
      BY <1>3, <3>2, <3>3 DEF Stopped, PriceStopped, trade
    <3> QED
      BY <1>1, <1>2, <1>3, <3>2, <3>3, BucketStart DEF BarOK, From
  <2> QED
    BY <2>1, <2>2
<1>9. ctx' # None /\ PriceStopped(price, ctx.stop)' => touched'
  BY <1>1, <1>3 DEF PriceStopped, trade
<1> QED
  BY <1>3, <1>4, <1>7, <1>8, <1>9 DEF TouchOK, StopPrice, At, trade

(* A stop exit is decided on what is judged.                               *)
LEMMA TouchManage ==
    ASSUME TradeInv, TouchOK, ManageTick \/ ManageBar
    PROVE  TouchOK'
<1>1. Handled /\ "save" \notin run.todo
  BY TickDecides, BarDecides DEF Handled
<1>2. \/ run'.todo = {}
      \/ \E plan, out, judged :
           Decides(plan, out, judged) /\ (out => touched \/ raised >= judged)
  <2>1. CASE ManageTick
    <3>1. ctx # None /\ PriceStopped(price, ctx.stop) => touched
      BY <2>1, TickDecides DEF TouchOK
    <3>2. ASSUME NEW plan, Decides(plan, PriceStopped(price, ctx.stop), run.at)
          PROVE  ctx # None
      BY <3>2 DEF Decides, Managed
    <3> QED
      BY <2>1, <3>1, <3>2, TickDecides
  <2>2. CASE ManageBar
    <3>1. ctx # None /\ Stopped(run.closed, ctx.stop) =>
            touched \/ raised >= From(run.closed)
      BY <2>2, BarDecides DEF TouchOK, BarOK
    <3>2. ASSUME NEW plan,
                 Decides(plan, Stopped(run.closed, ctx.stop), From(run.closed))
          PROVE  ctx # None
      BY <3>2 DEF Decides, Managed
    <3> QED
      BY <2>2, <3>1, <3>2, BarDecides
  <2> QED
    BY <2>1, <2>2
<1>3. CASE run'.todo = {}
  BY <1>1, <1>3, TouchKept DEF Handled, market
<1>4. ASSUME NEW plan, NEW out, NEW judged, Decides(plan, out, judged),
             out => touched \/ raised >= judged
      PROVE  TouchOK'
  <2>1. "save" \notin run'.todo
    BY <1>4 DEF Decides, Ordered, Partials, Closing
  <2>2. run'.pc = "write" /\ run'.reason = "stop" =>
          "update" \notin run'.todo /\ (touched \/ raised >= run'.judged)
    BY <1>1, <1>4 DEF Handled, Decides, Follows
  <2> QED
    BY <1>1, <2>1, <2>2, TouchKept DEF Handled, market
<1> QED
  BY <1>2, <1>3, <1>4

(* A statement that leaves the context alone.                              *)
LEMMA TouchStatement ==
    ASSUME TradeInv, TouchOK, NEW op \in Ops, Ready(op), Done(op),
           UNCHANGED <<trade, market, ctx, history>>
    PROVE  TouchOK'
<1>1. /\ run'.todo = run.todo \ {op}
      /\ run'.pc = "write" <=> run'.todo # {}
      /\ run'.closed \in {run.closed, None} /\ run'.pc # "tick"
      /\ run'.todo # {} =>
           /\ run'.ctx = run.ctx /\ run'.reason = run.reason
           /\ run'.judged = run.judged
  BY StatementFacts
<1>2. run.pc = "write"
  BY DEF Ready
<1>3. /\ "save" \in run'.todo => "save" \in run.todo
      /\ run'.pc = "write" /\ run'.reason = "stop" =>
           "update" \notin run'.todo /\ (touched \/ raised >= run'.judged)
  BY <1>1, <1>2 DEF TouchOK
<1> QED
  BY <1>1, <1>3, TouchKept DEF market

(* A stop that moves forgets what was touched before, and the time it was  *)
(* moved at is not before the bars at hand.                                *)
LEMMA TouchWriteContext ==
    ASSUME TradeInv, TouchOK, NEW op \in {"save", "update"}, WriteContext(op)
    PROVE  TouchOK'
<1>0. /\ op \in Ops /\ Ready(op) /\ Done(op) /\ ctx' = run.ctx
      /\ UNCHANGED <<trade, market, book, journal, faults>>
  BY DEF WriteContext, Ops, Opening
<1>1. /\ run'.todo = run.todo \ {op} /\ (run'.pc = "write" <=> run'.todo # {})
      /\ run'.closed \in {run.closed, None} /\ run'.pc # "tick"
  BY <1>0, StatementFacts
<1>2. /\ run.todo = {op} /\ run.ctx \in Contexts
      /\ op = "save" => run.ctx = NewContext
      /\ op = "update" => ctx \in Contexts
  BY <1>0, ReadyFacts
<1>3. run'.todo = {} /\ run'.pc # "write"
  BY <1>1, <1>2
<1>4. now \in Int /\ raised \in Int
  BY DEF TradeInv, TypeOK
<1>5. \/ op = "update" /\ ctx.stop # run.ctx.stop /\ raised' = now
      \/ op = "update" /\ ctx.stop = run.ctx.stop /\ UNCHANGED history
      \/ op = "save" /\ UNCHANGED history
  BY DEF WriteContext
<1>6. op = "save" => now = 0 /\ raised = 0
  BY <1>2 DEF TouchOK
<1>7. ASSUME NEW b, BarOK(b), b # None, Stopped(b, run.ctx.stop)
      PROVE  touched' \/ raised' >= From(b)
  <2>1. From(b) <= now
    BY <1>7 DEF BarOK
  <2>2. CASE op = "update" /\ ctx.stop # run.ctx.stop /\ raised' = now
    BY <1>4, <2>1, <2>2
  <2>3. CASE op = "update" /\ ctx.stop = run.ctx.stop /\ UNCHANGED history
    <3>1. ctx # None
      BY <1>2, <2>3, NoneAssumption
    <3> QED
      BY <1>7, <2>3, <3>1 DEF BarOK, history
  <2>4. CASE op = "save" /\ UNCHANGED history
    BY <1>6, <2>1, <2>4 DEF history
  <2> QED
    BY <1>5, <2>2, <2>3, <2>4
<1>8. BarOK(bar)'
  <2>1. BarOK(bar) /\ UNCHANGED <<bar, now>>
    BY <1>0 DEF TouchOK, market
  <2>2. bar # None => From(bar) <= now
    BY <2>1 DEF BarOK
  <2>3. Stopped(bar, ctx.stop)' <=> Stopped(bar, run.ctx.stop)
    BY <1>0, <2>1 DEF Stopped, PriceStopped, trade
  <2>4. bar'.bucket * BarLength = From(bar)
    BY <2>1 DEF From
  <2> QED
    BY <1>7, <2>1, <2>2, <2>3, <2>4 DEF BarOK, From
<1>9. BarOK(run.closed)'
  <2>1. CASE run'.closed = None
    BY <2>1 DEF BarOK
  <2>2. CASE run'.closed = run.closed /\ run.closed # None
    <3>1. BarOK(run.closed) /\ UNCHANGED now
      BY <1>0 DEF TouchOK, market
    <3>2. From(run.closed) <= now
      BY <2>2, <3>1 DEF BarOK
    <3>3. Stopped(run.closed, ctx.stop)' <=> Stopped(run.closed, run.ctx.stop)
      BY <1>0, <2>2 DEF Stopped, PriceStopped, trade
    <3>4. run'.closed.bucket * BarLength = From(run.closed)
      BY <2>2 DEF From
    <3> QED
      BY <1>7, <2>2, <3>1, <3>2, <3>3, <3>4 DEF BarOK, From
  <2> QED
    BY <1>1, <2>1, <2>2
<1> QED
  BY <1>0, <1>1, <1>3, <1>8, <1>9 DEF TouchOK, trade

LEMMA TouchNext == TradeInv /\ TouchOK /\ [Next]_vars => TouchOK'
<1> SUFFICES ASSUME TradeInv, TouchOK, [Next]_vars PROVE TouchOK'
  OBVIOUS
<1>1. CASE Tick
  BY <1>1, TouchTick
<1>2. CASE ManageTick \/ ManageBar
  BY <1>2, TouchManage
<1>4. ASSUME NEW op \in {"entry", "exit"} \cup Partials, PersistSignal(op)
      PROVE  TouchOK'
  <2>1. op \in Ops
    BY DEF Ops, Opening, Closing
  <2> QED
    BY <1>4, <2>1, TouchStatement DEF PersistSignal
<1>5. ASSUME NEW op \in {"entry", "exit"} \cup Partials, IdTaken(op)
      PROVE  TouchOK'
  BY <1>5, IdleType, TouchKept DEF IdTaken, market
<1>6. ASSUME NEW op \in {"save", "update"}, WriteContext(op)
      PROVE  TouchOK'
  BY <1>6, TouchWriteContext
<1>7. CASE InsertPosition \/ MarkClosed \/ WriteClosed
  <2>1. "insert" \in Ops /\ "mark" \in Ops /\ "row" \in Ops
    BY DEF Ops, Opening, Closing
  <2> QED
    BY <1>7, <2>1, TouchStatement DEF InsertPosition, MarkClosed, WriteClosed
<1>8. CASE DeleteContext
  <2>1. "delete" \in Ops /\ Ready("delete") /\ Done("delete") /\ ctx' = None
        /\ UNCHANGED <<trade, market, book, journal, faults, history>>
    BY <1>8 DEF DeleteContext, Ops, Closing
  <2>2. run.todo = {"delete"} /\ run'.todo = {} /\ run'.pc # "write" /\ run'.pc # "tick"
        /\ run'.closed \in {run.closed, None}
    BY <2>1, ReadyFacts, StatementFacts
  <2>3. /\ BarOK(bar)'
        /\ run.closed # None => From(run.closed) <= now
    BY <2>1 DEF TouchOK, BarOK, From, market
  <2>4. run'.closed # None => From(run.closed)' <= now'
    BY <2>1, <2>2, <2>3 DEF From, market
  <2>5. BarOK(run.closed)'
    BY <2>1, <2>4 DEF BarOK
  <2> QED
    BY <2>1, <2>2, <2>3, <2>5 DEF TouchOK
<1>9. CASE SqlFails
  BY <1>9, IdleType, TouchKept DEF SqlFails, market
<1>10. CASE Restart
  BY <1>10, IdleType, TouchKept DEF Restart
<1>11. CASE UNCHANGED vars
  BY <1>11 DEF vars, trade, market, history, TouchOK, BarOK, From, Stopped,
               PriceStopped, StopPrice, At
<1> QED
  BY <1>1, <1>2, <1>4, <1>5, <1>6, <1>7, <1>8, <1>9, <1>10, <1>11
     DEF Next, Handle

(* A stop exit means that the market was at the stop since it was moved    *)
(* there, or in the bar it was moved in.                                   *)
THEOREM StopTouched == Spec => []StopExitIsTouched
<1>1. Init => TouchOK
  BY TouchInit
<1>2. TradeInv /\ TouchOK /\ [Next]_vars => TouchOK'
  BY TouchNext
<1>3. TouchOK => StopExitIsTouched
  BY DEF TouchOK, StopExitIsTouched
<1> QED
  BY <1>1, <1>2, <1>3, TradeInvariant, PTL DEF Spec

-----------------------------------------------------------------------------
(* Why a target is booked once per fault: once it is booked, only a fault  *)
(* can leave its context managed and without the flag.  A tick that finds  *)
(* the signal of its own time taken stops before it books anything else.   *)
Settles == "update" \in run.todo \/ "mark" \in run.todo
Credit(l) ==
    \/ ~Managed
    \/ l \in ctx.hit
    \/ Settles /\ l \in run.ctx.hit /\ l \notin run.todo
BookedAt(l, t) == \E g \in Booked(l) : g.at = t

CountOK ==
    /\ IsFiniteSet(journal)
    /\ \A l \in Partials :
         /\ Cardinality(Booked(l)) <= faults + 1
         /\ Credit(l) \/ Cardinality(Booked(l)) <= faults

FreshOK ==
    /\ \A l \in Partials :
         l \in run.todo => Managed /\ l \notin ctx.hit /\ l \in run.ctx.hit
    /\ "tp1" \in run.todo /\ "tp2" \in run.ctx.hit =>
         "tp2" \in ctx.hit \/ "tp2" \in run.todo
    /\ "tp2" \in run.todo =>
         "tp1" \in ctx.hit \/ "tp1" \in run.todo \/ BookedAt("tp1", run.at)
    /\ "tp2" \in run.todo /\ "tp1" \notin run.todo /\ "tp1" \in run.ctx.hit =>
         "tp1" \in ctx.hit \/ ~BookedAt("tp2", run.at)
    /\ "exit" \in run.todo /\ "mark" \notin run.todo => memory = "closed"
    /\ "save" \in run.todo => \A l \in Partials : Booked(l) = {}

SameTimeOK ==
    ctx # None /\ "tp1" \notin ctx.hit =>
        \A g \in Booked("tp2") : BookedAt("tp1", g.at)

LimitOK == CountOK /\ FreshOK /\ SameTimeOK

LEMMA BookedFinite ==
    ASSUME IsFiniteSet(journal), NEW l
    PROVE  IsFiniteSet(Booked(l)) /\ Cardinality(Booked(l)) \in Nat
<1>1. Booked(l) \subseteq journal
  BY DEF Booked
<1>2. IsFiniteSet(Booked(l))
  BY <1>1, FS_Subset
<1> QED
  BY <1>2, FS_CardinalityType

LEMMA CountKept ==
    ASSUME CountOK, UNCHANGED <<journal, faults>>,
           \A l \in Partials : Credit(l) => Credit(l)'
    PROVE  CountOK'
<1>1. \A l \in Partials : Booked(l)' = Booked(l)
  BY DEF Booked
<1> QED
  BY <1>1 DEF CountOK

(* The handling of a tick ends and no booking of it is left unflagged.     *)
LEMMA LimitIdle ==
    ASSUME LimitOK, UNCHANGED <<memory, ctx, journal, faults>>, run'.todo = {},
           \A l \in Partials : Credit(l) => ~Managed \/ l \in ctx.hit
    PROVE  LimitOK'
<1>1. \A l \in Partials : Credit(l) => Credit(l)'
  BY DEF Credit, Managed
<1>2. CountOK'
  BY <1>1, CountKept DEF LimitOK
<1>3. FreshOK'
  BY DEF FreshOK
<1>4. SameTimeOK'
  BY DEF LimitOK, SameTimeOK, Booked, BookedAt
<1> QED
  BY <1>2, <1>3, <1>4 DEF LimitOK

(* Nothing was being written.                                              *)
LEMMA LimitQuiet ==
    ASSUME LimitOK, UNCHANGED <<memory, ctx, journal, faults>>, run'.todo = {},
           run.todo = {}
    PROVE  LimitOK'
<1>1. \A l \in Partials : Credit(l) => ~Managed \/ l \in ctx.hit
  BY DEF Credit, Settles
<1> QED
  BY <1>1, LimitIdle

LEMMA LimitFault ==
    ASSUME TradeInv, LimitOK, UNCHANGED <<ctx, journal>>, run'.todo = {},
           faults' = faults + 1
    PROVE  LimitOK'
<1>1. faults \in Int
  BY Constants DEF TradeInv, TypeOK
<1>2. \A l \in Partials : Cardinality(Booked(l)) \in Nat
  BY BookedFinite DEF LimitOK, CountOK
<1>3. \A l \in Partials : Booked(l)' = Booked(l)
  BY DEF Booked
<1>4. CountOK'
  BY <1>1, <1>2, <1>3 DEF LimitOK, CountOK
<1>5. FreshOK'
  BY DEF FreshOK
<1>6. SameTimeOK'
  BY DEF LimitOK, SameTimeOK, Booked, BookedAt
<1> QED
  BY <1>4, <1>5, <1>6 DEF LimitOK

LEMMA LimitPlanned ==
    ASSUME LimitOK, Handled, NEW plan, NEW out, NEW judged, Decides(plan, out, judged)
    PROVE  LimitOK'
<1>0. /\ Managed /\ run.todo = {}
      /\ Ordered(plan.todo) /\ Follows(plan, ctx, out)
      /\ run'.todo = plan.todo /\ (run'.todo # {} => run'.ctx = plan.ctx)
      /\ UNCHANGED <<memory, ctx, journal, faults>>
  BY DEF Handled, Decides, book
<1>1. \A l \in Partials : Credit(l) => Credit(l)'
  BY <1>0 DEF Credit, Settles, Managed
<1>2. CountOK'
  BY <1>0, <1>1, CountKept DEF LimitOK
<1>3. FreshOK'
  <2>1. Managed'
    BY <1>0 DEF Managed
  <2>2. "tp1" \in Partials /\ "tp2" \in Partials
    BY DEF Partials
  <2>3. \A l \in Partials :
          l \in run'.todo => Managed' /\ l \notin ctx'.hit /\ l \in run'.ctx.hit
    BY <1>0, <2>1 DEF Follows
  <2>4. \A l \in Partials : run'.todo \cap Partials # {} /\ l \in run'.ctx.hit
                              => l \in ctx'.hit \/ l \in run'.todo
    BY <1>0 DEF Follows
  <2>5. "tp2" \in run'.todo => "tp1" \in run'.ctx.hit
    BY <1>0 DEF Follows
  <2>6. "exit" \in run'.todo => "mark" \in run'.todo
    BY <1>0 DEF Ordered, Closing
  <2>7. "save" \notin run'.todo
    BY <1>0 DEF Ordered, Closing, Partials
  <2> QED
    BY <2>2, <2>3, <2>4, <2>5, <2>6, <2>7 DEF FreshOK
<1>4. SameTimeOK'
  BY <1>0 DEF LimitOK, SameTimeOK, Booked, BookedAt
<1> QED
  BY <1>2, <1>3, <1>4 DEF LimitOK

(* A signal is booked.                                                     *)
LEMMA LimitPersist ==
    ASSUME TradeInv, LimitOK, NEW op \in {"entry", "exit"} \cup Partials,
           PersistSignal(op)
    PROVE  LimitOK'
<1> DEFINE g == [type |-> op, at |-> run.at, reason |-> run.reason]
<1>0. /\ op \in Ops /\ Ready(op) /\ Done(op) /\ journal' = journal \cup {g}
      /\ run.todo \cap Before[op] = {} /\ IdFree(op)
      /\ UNCHANGED <<trade, market, book, ctx, faults, history>>
  BY DEF PersistSignal, Ops, Opening, Closing, Ready
<1>1. /\ run'.todo = run.todo \ {op}
      /\ run'.todo # {} => run'.at = run.at /\ run'.ctx = run.ctx
  BY <1>0, StatementFacts
<1>2. /\ op \in run.todo
      /\ op = "entry" => run.todo \subseteq Opening
      /\ op \in Partials => Settles
  BY <1>0, ReadyFacts DEF Opening, Partials, Settles
<1>3. /\ \A l \in Partials : l # op => Booked(l)' = Booked(l)
      /\ Booked(op)' = Booked(op) \cup {g} /\ g \in Booked(op)' /\ g.at = run.at
  <2>1. g.type = op /\ g.at = run.at
    OBVIOUS
  <2> HIDE DEF g
  <2>2. ASSUME NEW l, l # op
        PROVE  Booked(l)' = Booked(l)
    BY <1>0, <2>1, <2>2 DEF Booked
  <2>3. Booked(op)' = Booked(op) \cup {g} /\ g \in Booked(op)'
    BY <1>0, <2>1 DEF Booked
  <2> QED
    BY <2>1, <2>2, <2>3
<1> HIDE DEF g
<1>4. op \notin {"update", "mark"} /\ UNCHANGED <<memory, ctx>>
  BY <1>0 DEF Partials, book
<1>5. Settles => Settles' /\ run'.todo # {}
  BY <1>1, <1>4 DEF Settles
<1>6. \A l \in Partials : Credit(l) => Credit(l)'
  BY <1>1, <1>4, <1>5 DEF Credit, Managed
<1>7. op \in Partials => ~Credit(op) /\ Credit(op)'
  <2> SUFFICES ASSUME op \in Partials PROVE ~Credit(op) /\ Credit(op)'
    OBVIOUS
  <2>1. Managed /\ op \notin ctx.hit /\ op \in run.ctx.hit
    BY <1>2 DEF LimitOK, FreshOK
  <2>2. run'.ctx = run.ctx /\ Settles'
    BY <1>1, <1>2, <1>5
  <2> QED
    BY <1>1, <1>2, <2>1, <2>2 DEF Credit
<1>8. CountOK'
  <2>1. IsFiniteSet(journal')
    BY <1>0, FS_AddElement DEF LimitOK, CountOK
  <2>2. ASSUME NEW l \in Partials
        PROVE  /\ Cardinality(Booked(l)') <= faults' + 1
               /\ Credit(l)' \/ Cardinality(Booked(l)') <= faults'
    <3>1. CASE l # op
      BY <1>0, <1>3, <1>6, <3>1 DEF LimitOK, CountOK
    <3>2. CASE l = op
      <4>1. Cardinality(Booked(op)) <= faults
        BY <1>7, <3>2 DEF LimitOK, CountOK
      <4>2. /\ IsFiniteSet(Booked(op)) /\ Cardinality(Booked(op)) \in Nat
            /\ faults \in Int
        BY BookedFinite, Constants DEF LimitOK, CountOK, TradeInv, TypeOK
      <4>3. \/ Cardinality(Booked(op) \cup {g}) = Cardinality(Booked(op))
            \/ Cardinality(Booked(op) \cup {g}) = Cardinality(Booked(op)) + 1
        BY <4>2, FS_AddElement
      <4>4. Booked(l)' = Booked(op) \cup {g}
        <5>1. Booked(l)' = Booked(op)'
          BY <3>2 DEF Booked
        <5> QED
          BY <1>3, <5>1
      <4>5. Cardinality(Booked(l)') <= faults + 1
        BY <4>1, <4>2, <4>3, <4>4
      <4> QED
        BY <1>0, <1>7, <3>2, <4>5
    <3> QED
      BY <3>1, <3>2
  <2> QED
    BY <2>1, <2>2 DEF CountOK
<1>9. FreshOK'
  <2>0. /\ "tp1" \in Partials /\ "tp2" \in Partials
        /\ Before["tp2"] = {"tp1"}
    BY DEF Partials, Before
  <2>1. \A l \in Partials :
          l \in run'.todo => Managed' /\ l \notin ctx'.hit /\ l \in run'.ctx.hit
    BY <1>1, <1>4 DEF LimitOK, FreshOK, Managed
  <2>2. "tp1" \in run'.todo /\ "tp2" \in run'.ctx.hit =>
          "tp2" \in ctx'.hit \/ "tp2" \in run'.todo
    BY <1>0, <1>1, <1>4, <2>0 DEF LimitOK, FreshOK
  <2>3. ASSUME "tp2" \in run'.todo
        PROVE  "tp1" \in ctx'.hit \/ "tp1" \in run'.todo \/ BookedAt("tp1", run.at)'
    <3>1. "tp2" \in run.todo /\ run'.at = run.at
      BY <1>1, <2>3
    <3>2. CASE op = "tp1"
      BY <1>3, <3>1, <3>2 DEF BookedAt
    <3>3. CASE op # "tp1"
      <4>1. "tp1" \in ctx.hit \/ "tp1" \in run.todo \/ BookedAt("tp1", run.at)
        BY <3>1 DEF LimitOK, FreshOK
      <4>2. BookedAt("tp1", run.at) => BookedAt("tp1", run.at)'
        BY <1>3, <2>0, <3>1, <3>3 DEF BookedAt
      <4> QED
        BY <1>1, <1>4, <3>3, <4>1, <4>2
    <3> QED
      BY <3>2, <3>3
  <2>4. ASSUME "tp2" \in run'.todo, "tp1" \notin run'.todo, "tp1" \in run'.ctx.hit,
               "tp1" \notin ctx'.hit
        PROVE  ~BookedAt("tp2", run.at)'
    <3>1. /\ "tp2" \in run.todo /\ op # "tp2" /\ run'.at = run.at
          /\ run'.ctx = run.ctx /\ "tp1" \notin ctx.hit
      BY <1>1, <1>4, <2>4
    <3>2. Booked("tp2")' = Booked("tp2")
      BY <1>3, <2>0, <3>1
    <3>3. ~BookedAt("tp2", run.at)
      <4>1. CASE op = "tp1"
        <5>1. ctx # None
          BY <1>2, <2>0, <4>1 DEF LimitOK, FreshOK, Managed
        <5>2. \A h \in Booked("tp1") : h.at # run.at
          BY <1>0, <4>1 DEF IdFree, Booked
        <5> QED
          BY <3>1, <5>1, <5>2 DEF LimitOK, SameTimeOK, BookedAt
      <4>2. CASE op # "tp1"
        BY <1>1, <2>4, <3>1, <4>2 DEF LimitOK, FreshOK
      <4> QED
        BY <4>1, <4>2
    <3> QED
      BY <3>1, <3>2, <3>3 DEF BookedAt
  <2>5. "exit" \in run'.todo /\ "mark" \notin run'.todo => memory' = "closed"
    BY <1>1, <1>4 DEF LimitOK, FreshOK
  <2>6. ASSUME "save" \in run'.todo
        PROVE  \A l \in Partials : Booked(l)' = {}
    <3>1. "save" \in run.todo
      BY <1>1, <2>6
    <3>2. op \in Opening
      BY <1>2, <3>1 DEF TradeInv, TodoOK
    <3>3. op \notin Partials
      BY <3>2 DEF Opening, Partials
    <3> QED
      BY <1>3, <3>1, <3>3 DEF LimitOK, FreshOK
  <2> QED
    BY <2>1, <2>2, <2>3, <2>4, <2>5, <2>6 DEF FreshOK
<1>10. SameTimeOK'
  <2> SUFFICES ASSUME ctx # None, "tp1" \notin ctx.hit, NEW h \in Booked("tp2")'
               PROVE  \E k \in Booked("tp1")' : k.at = h.at
    BY <1>4 DEF SameTimeOK, BookedAt
  <2>0. "tp1" \in Partials /\ "tp2" \in Partials /\ Before["tp2"] = {"tp1"}
    BY DEF Partials, Before
  <2>1. Booked("tp1") \subseteq Booked("tp1")'
    BY <1>3, <2>0
  <2>2. CASE h \in Booked("tp2")
    BY <2>1, <2>2 DEF LimitOK, SameTimeOK, BookedAt
  <2>3. CASE h \notin Booked("tp2")
    <3>1. op = "tp2" /\ h.at = run.at
      BY <1>3, <2>0, <2>3
    <3>2. BookedAt("tp1", run.at)
      BY <1>0, <1>2, <2>0, <3>1 DEF LimitOK, FreshOK
    <3> QED
      BY <2>1, <3>1, <3>2 DEF BookedAt
  <2> QED
    BY <2>2, <2>3
<1> QED
  BY <1>8, <1>9, <1>10 DEF LimitOK

(* The context is stored: what was credited to the tick is now flagged.    *)
LEMMA LimitWriteContext ==
    ASSUME TradeInv, LimitOK, NEW op \in {"save", "update"}, WriteContext(op)
    PROVE  LimitOK'
<1>0. /\ op \in Ops /\ Ready(op) /\ Done(op) /\ ctx' = run.ctx
      /\ UNCHANGED <<trade, market, book, journal, faults>>
  BY DEF WriteContext, Ops, Opening
<1>1. run'.todo = {} /\ run.todo = {op} /\ op \in run.todo
  BY <1>0, ReadyFacts, StatementFacts
<1>2. FreshOK'
  BY <1>1 DEF FreshOK
<1>3. faults \in Nat
  BY Constants DEF TradeInv, TypeOK
<1>4. CASE op = "save"
  <2>1. \A l \in Partials : Booked(l) = {}
    BY <1>1, <1>4 DEF LimitOK, FreshOK
  <2>2. \A l \in Partials : Booked(l)' = {}
    BY <1>0, <2>1 DEF Booked
  <2>3. Cardinality({}) = 0
    BY FS_EmptySet
  <2>4. CountOK'
    BY <1>0, <1>3, <2>2, <2>3 DEF LimitOK, CountOK
  <2>5. SameTimeOK'
    BY <2>2 DEF SameTimeOK, Partials
  <2> QED
    BY <1>2, <2>4, <2>5 DEF LimitOK
<1>5. CASE op = "update"
  <2>1. ctx # None /\ ctx.hit \subseteq ctx'.hit /\ memory' = memory
    BY <1>0, <1>1, <1>5 DEF TradeInv, ContextOK, book
  <2>2. \A l \in Partials : Credit(l) => Credit(l)'
    BY <1>0, <1>1, <1>5, <2>1 DEF Credit, Managed
  <2>3. CountOK'
    BY <1>0, <2>2, CountKept DEF LimitOK
  <2>4. SameTimeOK'
    BY <1>0, <2>1 DEF LimitOK, SameTimeOK, Booked, BookedAt
  <2> QED
    BY <1>2, <2>3, <2>4 DEF LimitOK
<1> QED
  BY <1>4, <1>5

(* The position is not managed once it is closed or its context is gone.   *)
LEMMA LimitUnmanaged ==
    ASSUME TradeInv, LimitOK, NEW op \in {"insert", "mark", "row", "delete"},
           Ready(op), Done(op), UNCHANGED <<trade, journal, faults>>,
           op = "insert" => UNCHANGED ctx,
           op = "mark" => memory' = "closed" /\ UNCHANGED ctx,
           op = "row" => UNCHANGED <<memory, ctx>>,
           op = "delete" => ctx' = None /\ UNCHANGED memory
    PROVE  LimitOK'
<1>0. op \in Ops
  BY DEF Ops, Opening, Closing
<1>1. /\ op \in run.todo /\ run'.todo = run.todo \ {op}
      /\ op = "insert" => run.todo \subseteq Opening
      /\ op = "delete" => run.todo = {"delete"}
      /\ op = "row" => run.todo = {"row", "delete"}
      /\ op = "mark" => run.todo = Closing
  BY <1>0, ReadyFacts, StatementFacts DEF Opening
<1>2. run'.todo \cap Partials = {}
  BY <1>1 DEF Opening, Closing, Partials
<1>3. op = "insert" => ctx = None
  BY <1>1 DEF TradeInv, TodoOK, ContextOK
<1>4. \A l \in Partials : Credit(l) => Credit(l)'
  <2>1. CASE op \in {"insert", "mark", "delete"}
    BY <1>3, <2>1 DEF Credit, Managed
  <2>2. CASE op = "row"
    BY <1>1, <2>2 DEF Credit, Managed, Settles
  <2> QED
    BY <2>1, <2>2
<1>5. CountOK'
  BY <1>4, CountKept DEF LimitOK
<1>6. FreshOK'
  <2>1. "tp1" \notin run'.todo /\ "tp2" \notin run'.todo
    BY <1>2 DEF Partials
  <2>2. "exit" \in run'.todo /\ "mark" \notin run'.todo => memory' = "closed"
    BY <1>1 DEF Opening, Closing
  <2>3. "save" \in run'.todo => \A l \in Partials : Booked(l)' = {}
    BY <1>1 DEF LimitOK, FreshOK, Booked
  <2> QED
    BY <1>2, <2>1, <2>2, <2>3 DEF FreshOK
<1>7. SameTimeOK'
  <2>1. CASE op = "delete"
    BY <2>1 DEF SameTimeOK
  <2>2. CASE op # "delete"
    BY <2>2 DEF LimitOK, SameTimeOK, Booked, BookedAt
  <2> QED
    BY <2>1, <2>2
<1> QED
  BY <1>5, <1>6, <1>7 DEF LimitOK

(* A signal whose id is taken is of the time that is being handled: the    *)
(* other target was not booked by this tick alone.                         *)
LEMMA LimitIdTaken ==
    ASSUME TradeInv, LimitOK, NEW op \in {"entry", "exit"} \cup Partials, IdTaken(op)
    PROVE  LimitOK'
<1>0. /\ op \in Ops /\ Ready(op) /\ ~IdFree(op) /\ run' = Idle
      /\ run.todo \cap Before[op] = {}
      /\ UNCHANGED <<trade, market, book, ctx, journal, faults, history>>
  BY DEF IdTaken, Ops, Opening, Closing, Ready
<1>1. /\ op \in run.todo
      /\ op = "entry" => run.todo \subseteq Opening
      /\ op = "exit" => run.todo = {"exit", "row", "delete"}
  BY <1>0, ReadyFacts DEF Opening
<1>2. BookedAt(op, run.at)
  BY <1>0 DEF IdFree, Booked, BookedAt
<1>3. ASSUME NEW l \in Partials, Credit(l)
      PROVE  ~Managed \/ l \in ctx.hit
  <2> SUFFICES ASSUME Settles, l \in run.ctx.hit, l \notin run.todo, l \notin ctx.hit
               PROVE  ~Managed
    BY <1>3 DEF Credit
  <2>1. CASE op = "entry"
    BY <1>1, <2>1 DEF Settles, Opening
  <2>2. CASE op = "exit"
    BY <1>1, <2>2 DEF LimitOK, FreshOK, Managed
  <2>3. CASE op = "tp1"
    <3>1. l = "tp2"
      BY <1>1, <2>3 DEF Partials
    <3> QED
      BY <1>1, <2>3, <3>1 DEF LimitOK, FreshOK
  <2>4. CASE op = "tp2"
    <3>1. l = "tp1"
      BY <1>1, <2>4 DEF Partials
    <3> QED
      BY <1>1, <1>2, <2>4, <3>1 DEF LimitOK, FreshOK
  <2> QED
    BY <2>1, <2>2, <2>3, <2>4 DEF Partials
<1> QED
  BY <1>0, <1>3, IdleType, LimitIdle DEF book

LEMMA LimitManage ==
    ASSUME TradeInv, LimitOK, ManageTick \/ ManageBar
    PROVE  LimitOK'
<1>1. Handled /\ (run'.todo = {} \/ \E plan, out, judged : Decides(plan, out, judged))
  BY TickDecides, BarDecides
<1>2. CASE run'.todo = {}
  BY <1>1, <1>2, LimitQuiet DEF Handled, book
<1>3. CASE \E plan, out, judged : Decides(plan, out, judged)
  BY <1>1, <1>3, LimitPlanned
<1> QED
  BY <1>1, <1>2, <1>3

LEMMA LimitInit == Init => LimitOK
<1> SUFFICES ASSUME Init PROVE LimitOK
  OBVIOUS
<1>1. run.todo = Opening /\ journal = {} /\ ctx = None /\ faults = 0
  BY DEF Init, Idle
<1>2. \A l : Booked(l) = {}
  BY <1>1 DEF Booked
<1>3. IsFiniteSet({}) /\ Cardinality({}) = 0
  BY FS_EmptySet
<1>4. CountOK
  BY <1>1, <1>2, <1>3 DEF CountOK
<1>5. FreshOK
  BY <1>1, <1>2 DEF FreshOK, Opening, Partials
<1>6. SameTimeOK
  BY <1>1 DEF SameTimeOK
<1> QED
  BY <1>4, <1>5, <1>6 DEF LimitOK

LEMMA LimitNext == TradeInv /\ LimitOK /\ [Next]_vars => LimitOK'
<1> SUFFICES ASSUME TradeInv, LimitOK, [Next]_vars PROVE LimitOK'
  OBVIOUS
<1>1. CASE Tick
  <2>1. run.todo = {}
    BY <1>1 DEF Tick, TradeInv, TodoOK
  <2>2. run'.todo = {}
    BY <1>1 DEF Tick, Idle
  <2> QED
    BY <1>1, <2>1, <2>2, LimitQuiet DEF Tick, book
<1>2. CASE ManageTick \/ ManageBar
  BY <1>2, LimitManage
<1>3. ASSUME NEW op \in {"entry", "exit"} \cup Partials, PersistSignal(op)
      PROVE  LimitOK'
  BY <1>3, LimitPersist
<1>4. ASSUME NEW op \in {"entry", "exit"} \cup Partials, IdTaken(op)
      PROVE  LimitOK'
  BY <1>4, LimitIdTaken
<1>5. ASSUME NEW op \in {"save", "update"}, WriteContext(op)
      PROVE  LimitOK'
  BY <1>5, LimitWriteContext
<1>6. CASE InsertPosition
  BY <1>6, LimitUnmanaged DEF InsertPosition
<1>7. CASE MarkClosed
  BY <1>7, LimitUnmanaged DEF MarkClosed
<1>8. CASE WriteClosed
  BY <1>8, LimitUnmanaged DEF WriteClosed
<1>9. CASE DeleteContext
  BY <1>9, LimitUnmanaged DEF DeleteContext, book
<1>10. CASE SqlFails
  BY <1>10, IdleType, LimitFault DEF SqlFails
<1>11. CASE Restart
  BY <1>11, IdleType, LimitFault DEF Restart
<1>12. CASE UNCHANGED vars
  BY <1>12 DEF vars, LimitOK, CountOK, FreshOK, SameTimeOK, Booked, BookedAt, Credit,
               Settles, Managed
<1> QED
  BY <1>1, <1>2, <1>3, <1>4, <1>5, <1>6, <1>7, <1>8, <1>9, <1>10, <1>11, <1>12
     DEF Next, Handle

(* A target is booked once, and once more for each failure or kill.        *)
THEOREM OncePerFault == Spec => []BookedOncePerFault
<1>1. Init => LimitOK
  BY LimitInit
<1>2. TradeInv /\ LimitOK /\ [Next]_vars => LimitOK'
  BY LimitNext
<1>3. TradeInv /\ LimitOK => BookedOncePerFault
  <2>1. TradeInv => faults \in Int
    BY Constants DEF TradeInv, TypeOK
  <2> SUFFICES ASSUME TradeInv, LimitOK, NEW l \in Partials
               PROVE  Cardinality(Booked(l)) <= 1 + faults
    BY DEF BookedOncePerFault
  <2>2. Cardinality(Booked(l)) \in Nat /\ Cardinality(Booked(l)) <= faults + 1
    BY BookedFinite DEF LimitOK, CountOK
  <2> QED
    BY <2>1, <2>2
<1> QED
  BY <1>1, <1>2, <1>3, TradeInvariant, PTL DEF Spec

(* What partial_book believes to have booked it has booked, whatever       *)
(* failed between signal and flag.                                         *)
THEOREM TargetsBooked == Spec => []TargetsAreBooked
<1>1. StoredHitsAreBooked /\ Tp3BooksTheRest => TargetsAreBooked
  BY DEF TargetsAreBooked
<1> QED BY <1>1, StoredHits, Tp3Books, PTL
=============================================================================
