---------------------------- MODULE PositionBook ----------------------------
(***************************************************************************)
(* SqliteStrategyPositionBook: the virtual positions of every SSU, held    *)
(* in memory behind one mutex and mirrored in SQLite.                      *)
(*                                                                         *)
(* The callers are the threads that run a strategy for one instrument (an  *)
(* instrument lock admits one at a time), so a thread is named by its      *)
(* instrument.  Each SQL statement opens its own connection and commits    *)
(* on its own: between two of them the process can be killed, and each     *)
(* one can fail (disk, SQLITE_BUSY past busy_timeout).                     *)
(*                                                                         *)
(* Prices, reasons and metadata are left out: nothing in the book branches *)
(* on them.  A time is a number of ticks of an abstract clock.             *)
(***************************************************************************)
EXTENDS Naturals, FiniteSets

CONSTANTS
    Ssus,          \* strategy units
    Instruments,   \* trigger instruments, each one also the thread that runs it
    Sides,         \* SignalSide
    Levels,        \* labels of a partial exit ("tp1", "tp2")
    NoLeg,         \* the leg id of a signal that names no stored position
    NoThread,      \* the mutex is free
    MaxTime,       \* bound: bars and ticks end at 1..MaxTime
    DayLength,     \* length of an IST day
    TradeGap,      \* SsuConfig.trade_gap_secs, per SSU; 0 switches the rule off
    MaxOverlap,    \* SsuConfig.max_overlap, per SSU; 0 switches the rule off
    MaxPerDay      \* SsuConfig.max_positions_per_day, per SSU; 0 switches it off

Times == 1..MaxTime

(* position_id is CMP-{ssu}-{instrument}-{entry_at}-L1. *)
PosIds == [ssu : Ssus, instrument : Instruments, at : Times]

(* signal_id is SIG-{ssu}-{at}-{type}; the manager of open positions adds  *)
(* the level and the position id to an exit's, nothing is added to an      *)
(* entry's.                                                                *)
SignalTypes == {"ENTRY", "EXIT"} \cup Levels
SignalIds == [type : SignalTypes, ssu : Ssus, at : Times, side : Sides,
              leg : PosIds \cup {NoLeg}]

NoRow == [side |-> "none", status |-> "none", exit_at |-> 0]
Rows == [side : Sides, status : {"OPEN", "CLOSED"}, exit_at : 0..MaxTime]

(* A thread inside the book: "call" before the mutex is taken, "signal"    *)
(* before persist_signal, "row" before the write of virtual_position.      *)
Idle == [pc |-> "idle", pos |-> NoLeg]
Calls == [pc : {"call", "signal", "row"}, pos : PosIds \cup {NoLeg},
          signal : SignalIds]

ASSUME ConstantsAssumption ==
    /\ MaxTime \in Nat /\ DayLength \in Nat \ {0}
    /\ TradeGap \in [Ssus -> Nat]
    /\ MaxOverlap \in [Ssus -> Nat]
    /\ MaxPerDay \in [Ssus -> Nat]
    /\ "none" \notin Sides
    /\ Levels \cap {"ENTRY", "EXIT"} = {}
    /\ NoLeg \notin PosIds
    /\ NoThread \notin Instruments

VARIABLES
    positions,         \* the book in memory: StrategyPositionState.positions
    virtual_position,  \* the SQLite table it mirrors
    strategy_signal,   \* SQLite: the ids of the persisted signals (PRIMARY KEY)
    mutex,             \* the thread inside state.lock(), or NoThread
    op,                \* what each thread is doing in the book
    lastBar,           \* last_processed_closed_end of each SSU and instrument
    failed,            \* history: some SQL statement has failed
    crashed            \* history: the process has been restarted

vars == <<positions, virtual_position, strategy_signal, mutex, op, lastBar,
          failed, crashed>>
store == <<virtual_position, strategy_signal>>
faults == <<failed, crashed>>

TypeOK ==
    /\ positions \in [PosIds -> Rows \cup {NoRow}]
    /\ virtual_position \in [PosIds -> Rows \cup {NoRow}]
    /\ strategy_signal \subseteq SignalIds
    /\ mutex \in Instruments \cup {NoThread}
    /\ op \in [Instruments -> {Idle} \cup Calls]
    /\ lastBar \in [Ssus -> [Instruments -> 0..MaxTime]]
    /\ failed \in BOOLEAN
    /\ crashed \in BOOLEAN

-----------------------------------------------------------------------------
(* Queries of the book, over the map in memory or over the table.          *)

Entered(book, s) == {p \in PosIds : p.ssu = s /\ book[p] # NoRow}
(* Bug_Name: Name with a mistake a change of the code could make; the runs *)
(* show that the property named in PROJECT.json would catch it.           *)
Bug_OpenOf(book, s) == Entered(book, s)   \* the status is not looked at
OpenOf(book, s) == {p \in PosIds : p.ssu = s /\ book[p].status = "OPEN"}
Day(at) == at \div DayLength
EnteredOn(book, s, day) == {p \in Entered(book, s) : Day(p.at) = day}

(* The three limits open_position checks under the mutex. *)
GapPassed(s, at) ==
    TradeGap[s] > 0 =>
        \A p \in Entered(positions, s) : at >= p.at + TradeGap[s]
OverlapFree(s) ==
    MaxOverlap[s] > 0 =>
        Cardinality(OpenOf(positions, s)) < MaxOverlap[s]
DayFree(s, at) ==
    MaxPerDay[s] > 0 =>
        Cardinality(EnteredOn(positions, s, Day(at))) < MaxPerDay[s]
Admissible(s, at) == GapPassed(s, at) /\ OverlapFree(s) /\ DayFree(s, at)

(* The open positions an exit signal of thread t may mean, and the one it  *)
(* gets: the one its leg names, or else the latest entry (the strategy     *)
(* always names one).                                                      *)
Matching(t, signal) ==
    {p \in OpenOf(positions, signal.ssu) :
        p.instrument = t /\ positions[p].side = signal.side}
IsTarget(p, t, signal) ==
    /\ p \in Matching(t, signal)
    /\ IF signal.leg \in Matching(t, signal)
         THEN p = signal.leg
         ELSE \A q \in Matching(t, signal) : q.at <= p.at

-----------------------------------------------------------------------------
Init ==
    /\ positions = [p \in PosIds |-> NoRow]
    /\ virtual_position = [p \in PosIds |-> NoRow]
    /\ strategy_signal = {}
    /\ mutex = NoThread
    /\ op = [t \in Instruments |-> Idle]
    /\ lastBar = [s \in Ssus |-> [t \in Instruments |-> 0]]
    /\ failed = FALSE
    /\ crashed = FALSE

At(t, types, pc) ==
    /\ op[t].pc = pc
    /\ op[t].signal.type \in types

Return(t) == op' = [op EXCEPT ![t] = Idle]
Unlock(t) == mutex' = IF mutex = t THEN NoThread ELSE mutex

(* A strategy decides to enter at the close of a bar that its indicator    *)
(* state has not processed before.                                         *)
CallEntry(t) ==
    \E s \in Ssus, at \in Times, side \in Sides :
        /\ op[t].pc = "idle"
        /\ at > lastBar[s][t]
        /\ lastBar' = [lastBar EXCEPT ![s][t] = at]
        /\ op' = [op EXCEPT ![t] =
                    [pc |-> "call",
                     pos |-> [ssu |-> s, instrument |-> t, at |-> at],
                     signal |-> [type |-> "ENTRY", ssu |-> s, at |-> at,
                                 side |-> side, leg |-> NoLeg]]]
        /\ UNCHANGED <<positions, store, mutex, faults>>

(* A strategy lists its open positions under the mutex and, later, sends   *)
(* an exit or a partial exit whose leg is one of them.                     *)
Bug_CallExit(t) ==        \* the instrument is not compared
    \E s \in Ssus, at \in Times, type \in SignalTypes \ {"ENTRY"} :
    \E p \in OpenOf(positions, s) :
        /\ op[t].pc = "idle" /\ mutex = NoThread /\ at > p.at
        /\ op' = [op EXCEPT ![t] =
                    [pc |-> "call", pos |-> NoLeg,
                     signal |-> [type |-> type, ssu |-> s, at |-> at,
                                 side |-> positions[p].side, leg |-> p]]]
        /\ UNCHANGED <<positions, store, mutex, lastBar, faults>>
CallExit(t) ==
    \E s \in Ssus, at \in Times, type \in SignalTypes \ {"ENTRY"} :
    \E p \in OpenOf(positions, s) :
        /\ op[t].pc = "idle"
        /\ mutex = NoThread
        /\ p.instrument = t
        /\ at > p.at
        /\ op' = [op EXCEPT ![t] =
                    [pc |-> "call", pos |-> NoLeg,
                     signal |-> [type |-> type, ssu |-> s, at |-> at,
                                 side |-> positions[p].side, leg |-> p]]]
        /\ UNCHANGED <<positions, store, mutex, lastBar, faults>>

(* open_position: the limits, checked under the mutex, which is then held  *)
(* until the row is in memory.                                             *)
Bug_OpenAccepted(t) ==    \* the mutex is dropped after the checks
    /\ At(t, {"ENTRY"}, "call")
    /\ mutex = NoThread
    /\ Admissible(op[t].signal.ssu, op[t].signal.at)
    /\ op' = [op EXCEPT ![t].pc = "signal"]
    /\ UNCHANGED <<positions, store, mutex, lastBar, faults>>
Bug2_OpenAccepted(t) ==   \* in memory before it is persisted
    /\ At(t, {"ENTRY"}, "call")
    /\ mutex = NoThread
    /\ Admissible(op[t].signal.ssu, op[t].signal.at)
    /\ positions' = [positions EXCEPT ![op[t].pos] =
            [side |-> op[t].signal.side, status |-> "OPEN", exit_at |-> 0]]
    /\ mutex' = t
    /\ op' = [op EXCEPT ![t].pc = "signal"]
    /\ UNCHANGED <<store, lastBar, faults>>
OpenAccepted(t) ==
    /\ At(t, {"ENTRY"}, "call")
    /\ mutex = NoThread
    /\ Admissible(op[t].signal.ssu, op[t].signal.at)
    /\ mutex' = t
    /\ op' = [op EXCEPT ![t].pc = "signal"]
    /\ UNCHANGED <<positions, store, lastBar, faults>>

(* StrategyError::Rule: a limit refuses the entry, or no open position     *)
(* matches the exit.                                                       *)
Refused(t) ==
    /\ op[t].pc = "call"
    /\ mutex = NoThread
    /\ IF op[t].signal.type = "ENTRY"
         THEN ~Admissible(op[t].signal.ssu, op[t].signal.at)
         ELSE Matching(t, op[t].signal) = {}
    /\ Return(t)
    /\ UNCHANGED <<positions, store, mutex, lastBar, faults>>

(* close_position marks the row CLOSED in memory before it writes.         *)
CloseMarked(t) ==
    /\ At(t, {"EXIT"}, "call")
    /\ mutex = NoThread
    /\ \E p \in PosIds :
        /\ IsTarget(p, t, op[t].signal)
        /\ positions' = [positions EXCEPT ![p] =
                            [@ EXCEPT !.status = "CLOSED",
                                      !.exit_at = op[t].signal.at]]
        /\ op' = [op EXCEPT ![t].pc = "signal", ![t].pos = p]
    /\ mutex' = t
    /\ UNCHANGED <<store, lastBar, faults>>

(* partial_close_position only looks the position up: the mutex is dropped *)
(* before the signal is written.                                           *)
PartialTargeted(t) ==
    /\ At(t, Levels, "call")
    /\ mutex = NoThread
    /\ \E p \in PosIds :
        /\ IsTarget(p, t, op[t].signal)
        /\ op' = [op EXCEPT ![t].pc = "signal", ![t].pos = p]
    /\ UNCHANGED <<positions, store, mutex, lastBar, faults>>

(* persist_signal: one transaction, refused when the id is taken. *)
Bug_PersistSignal(t) ==   \* an exit ends with its signal
    /\ op[t].pc = "signal"
    /\ op[t].signal \notin strategy_signal
    /\ strategy_signal' = strategy_signal \cup {op[t].signal}
    /\ IF op[t].signal.type # "ENTRY"
         THEN Return(t) /\ Unlock(t)
         ELSE op' = [op EXCEPT ![t].pc = "row"] /\ UNCHANGED mutex
    /\ UNCHANGED <<positions, virtual_position, lastBar, faults>>
PersistSignal(t) ==
    /\ op[t].pc = "signal"
    /\ op[t].signal \notin strategy_signal
    /\ strategy_signal' = strategy_signal \cup {op[t].signal}
    /\ IF op[t].signal.type \in Levels
         THEN Return(t)
         ELSE op' = [op EXCEPT ![t].pc = "row"]
    /\ UNCHANGED <<positions, virtual_position, mutex, lastBar, faults>>

(* persist_open_position, then the insert into memory. *)
InsertRow(t) ==
    /\ At(t, {"ENTRY"}, "row")
    /\ virtual_position[op[t].pos] = NoRow
    /\ LET row == [side |-> op[t].signal.side, status |-> "OPEN", exit_at |-> 0]
       IN  /\ virtual_position' = [virtual_position EXCEPT ![op[t].pos] = row]
           /\ positions' = [positions EXCEPT ![op[t].pos] = row]
    /\ Return(t)
    /\ Unlock(t)
    /\ UNCHANGED <<strategy_signal, lastBar, faults>>

(* persist_close_position writes the exit columns of the row in memory. *)
UpdateRow(t) ==
    /\ At(t, {"EXIT"}, "row")
    /\ virtual_position' =
            [virtual_position EXCEPT ![op[t].pos] =
                IF @ = NoRow THEN @
                ELSE [@ EXCEPT !.status = positions[op[t].pos].status,
                               !.exit_at = positions[op[t].pos].exit_at]]
    /\ Return(t)
    /\ Unlock(t)
    /\ UNCHANGED <<positions, strategy_signal, lastBar, faults>>

(* A statement fails, or its primary key is taken, and the error leaves    *)
(* the book with `?`: the mutex is released, memory and the earlier        *)
(* statements stay as they are.                                            *)
PersistFails(t) ==
    /\ op[t].pc \in {"signal", "row"}
    /\ failed' = TRUE
    /\ Return(t)
    /\ Unlock(t)
    /\ UNCHANGED <<positions, store, lastBar, crashed>>

(* The process dies and SqliteStrategyPositionBook::new loads the table.   *)
(* The indicator state is rebuilt from stored candles, which may end       *)
(* before the last bar that was processed.                                 *)
Restart ==
    /\ crashed' = TRUE
    /\ positions' = virtual_position
    /\ mutex' = NoThread
    /\ op' = [t \in Instruments |-> Idle]
    /\ \E h \in 0..MaxTime :
         lastBar' = [s \in Ssus |-> [t \in Instruments |->
                        IF lastBar[s][t] < h THEN lastBar[s][t] ELSE h]]
    /\ UNCHANGED <<store, failed>>

Step(t) ==
    \/ CallEntry(t) \/ CallExit(t)
    \/ OpenAccepted(t) \/ Refused(t)
    \/ CloseMarked(t) \/ PartialTargeted(t)
    \/ PersistSignal(t)
    \/ InsertRow(t) \/ UpdateRow(t) \/ PersistFails(t)

(* No bar closes and no tick arrives: the threads wait for the feed.  It   *)
(* keeps the end of the modelled time apart from a thread stuck in the     *)
(* book, which TLC reports as a deadlock.                                  *)
Quiet ==
    /\ \A t \in Instruments : op[t].pc = "idle"
    /\ UNCHANGED vars

Next == Restart \/ Quiet \/ \E t \in Instruments : Step(t)

Spec == Init /\ [][Next]_vars

-----------------------------------------------------------------------------
Books == {positions, virtual_position}

(* Two entries of one SSU are never closer than its trade gap, in memory   *)
(* and in the table, whatever threads raced for them, whatever statement   *)
(* failed and wherever the process was killed (open_position's first rule).*)
EntriesRespectGap ==
    \A book \in Books, s \in Ssus :
        TradeGap[s] > 0 =>
            \A p, q \in Entered(book, s) :
                p # q => \/ p.at >= q.at + TradeGap[s]
                         \/ q.at >= p.at + TradeGap[s]

(* No SSU has more entries in one IST day than max_positions_per_day, under*)
(* the same races and faults (open_position's third rule).                 *)
DailyCapKept ==
    \A book \in Books, s \in Ssus, p \in PosIds :
        MaxPerDay[s] > 0 =>
            Cardinality(EnteredOn(book, s, Day(p.at))) <= MaxPerDay[s]

(* While no SQL statement has failed, kills included, no SSU has more than *)
(* max_overlap open positions, in memory and in the table.                 *)
OverlapKept ==
    ~failed =>
        \A book \in Books, s \in Ssus :
            MaxOverlap[s] > 0 =>
                Cardinality(OpenOf(book, s)) <= MaxOverlap[s]

(* A position the strategies see as open is stored, open and identical:    *)
(* what memory would manage is what a restart would load.                  *)
OpenIsStored ==
    \A p \in PosIds :
        positions[p].status = "OPEN" => virtual_position[p] = positions[p]

(* Every stored position has its entry signal in the journal, and every    *)
(* closed one the exit signal that names it at the stored exit time        *)
(* (persist_signal is committed before the row it explains).               *)
RowsAreJournaled ==
    \A p \in PosIds :
        LET row == virtual_position[p] IN
        /\ row # NoRow =>
             [type |-> "ENTRY", ssu |-> p.ssu, at |-> p.at, side |-> row.side,
              leg |-> NoLeg] \in strategy_signal
        /\ row.status = "CLOSED" =>
             [type |-> "EXIT", ssu |-> p.ssu, at |-> row.exit_at,
              side |-> row.side, leg |-> p] \in strategy_signal

(* Without a fault the journal says no more than the table: an entry has   *)
(* its position and a position has one exit, unless a thread is about to   *)
(* write the row.                                                          *)
JournalMatchesTable ==
    ~failed /\ ~crashed =>
        \A g \in strategy_signal :
            \/ \E t \in Instruments : op[t].pc = "row" /\ op[t].signal = g
            \/ g.type \in Levels
            \/ /\ g.type = "ENTRY"
               /\ \E p \in PosIds : /\ p.ssu = g.ssu /\ p.at = g.at
                                    /\ virtual_position[p].side = g.side
            \/ /\ g.type = "EXIT"
               /\ virtual_position[g.leg].status = "CLOSED"
               /\ virtual_position[g.leg].exit_at = g.at

(* Journal and table agree, as far as two commits in turn can.             *)
JournalAgrees == RowsAreJournaled /\ JournalMatchesTable

(* An exit that is under way finds the position it was decided for still   *)
(* open: the snapshot of list_open_by_ssu is used after the mutex was      *)
(* dropped, and a partial exit writes its signal with the mutex dropped    *)
(* again.                                                                  *)
TargetStillOpen ==
    \A t \in Instruments :
        /\ At(t, SignalTypes \ {"ENTRY"}, "call") =>
             IsTarget(op[t].signal.leg, t, op[t].signal)
        /\ At(t, Levels, "signal") =>
             positions[op[t].pos].status = "OPEN"

(* A row is never deleted, a closed one is never reopened or closed again  *)
(* at another time, and an open one only changes by closing: across any    *)
(* crash and any failed statement.                                         *)
ClosedIsFinal ==
    [][\A p \in PosIds :
        /\ virtual_position[p].status = "CLOSED" =>
             virtual_position'[p] = virtual_position[p]
        /\ virtual_position[p].status = "OPEN" =>
             \/ virtual_position'[p] = virtual_position[p]
             \/ virtual_position'[p].status = "CLOSED"]_vars

(* What the strategies see of the book is an abstract book: every entry is *)
(* one step that its SSU's limits admit at that moment, over all trades,   *)
(* although three statements and a mutex make it; only a restart undoes an *)
(* exit, and it undoes nothing else.                                       *)
Book == INSTANCE VirtualBook WITH trades <- positions, Durable <- FALSE

ImplementsBook == Book!Spec

(* "Accepted ENTRY/EXIT virtual-position changes are persisted and notified*)
(* through Telegram" (docs/strategy_v1_contract.md): once no thread is     *)
(* changing the book, memory and table agree on every position.            *)
ChangesArePersisted == mutex = NoThread => positions = virtual_position
=============================================================================
