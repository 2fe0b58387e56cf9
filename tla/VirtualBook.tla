---------------------------- MODULE VirtualBook ----------------------------
(***************************************************************************)
(* What a StrategyPositionBook promises the strategies, whatever it keeps  *)
(* to fulfil it: an entry is one atomic step, admitted only by the limits  *)
(* of its SSU over all trades there have been, and a trade is closed once. *)
(*                                                                         *)
(* PositionBook (SQLite, threads, failures) and BacktestBook (indexes in   *)
(* memory) implement it.  A book that is not durable may, at a restart,    *)
(* forget that trades were closed.                                         *)
(***************************************************************************)
EXTENDS Naturals, FiniteSets

CONSTANTS
    Ssus, Instruments, Sides,
    MaxTime,       \* bound: entries and exits happen at 1..MaxTime
    DayLength,     \* length of an IST day
    TradeGap,      \* limits of each SSU; 0 switches one off
    MaxOverlap,
    MaxPerDay,
    Durable        \* whether a trade that was closed stays closed

VARIABLE trades    \* what there is to say of each position

PosIds == [ssu : Ssus, instrument : Instruments, at : 1..MaxTime]

NoRow == [side |-> "none", status |-> "none", exit_at |-> 0]

Entered(s) == {p \in PosIds : p.ssu = s /\ trades[p] # NoRow}
OpenOf(s) == {p \in PosIds : p.ssu = s /\ trades[p].status = "OPEN"}
SameDay(at, p) == p.at \div DayLength = at \div DayLength

(* The rules an entry of s at a time has to pass.                          *)
Admits(s, at) ==
    /\ TradeGap[s] > 0 => \A p \in Entered(s) : at >= p.at + TradeGap[s]
    /\ MaxOverlap[s] > 0 => Cardinality(OpenOf(s)) < MaxOverlap[s]
    /\ MaxPerDay[s] > 0 => Cardinality({p \in Entered(s) : SameDay(at, p)}) < MaxPerDay[s]

Init == trades = [p \in PosIds |-> NoRow]

Enter(p, side) ==
    /\ trades[p] = NoRow
    /\ Admits(p.ssu, p.at)
    /\ trades' = [trades EXCEPT ![p] = [side |-> side, status |-> "OPEN", exit_at |-> 0]]

Exit(p, at) ==
    /\ trades[p].status = "OPEN" /\ p.at < at
    /\ trades' = [trades EXCEPT ![p] = [@ EXCEPT !.status = "CLOSED", !.exit_at = at]]

Reopened(row) == [row EXCEPT !.status = "OPEN", !.exit_at = 0]

Forget ==
    /\ ~Durable
    /\ DOMAIN trades' = DOMAIN trades
    /\ \A p \in PosIds :
          \/ trades'[p] = trades[p]
          \/ trades[p].status = "CLOSED" /\ trades'[p] = Reopened(trades[p])

Changed == {p \in PosIds : trades'[p] # trades[p]}

Next ==
    \/ \E p \in Changed, side \in Sides : Enter(p, side)
    \/ \E p \in Changed, at \in 1..MaxTime : Exit(p, at)
    \/ Forget

Spec == Init /\ [][Next]_trades
=============================================================================
