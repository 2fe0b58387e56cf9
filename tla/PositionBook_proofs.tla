------------------------- MODULE PositionBook_proofs -------------------------
(***************************************************************************)
(* What PositionBook guarantees for every set of SSUs and instruments,     *)
(* every limit and every interleaving of failures and restarts.            *)
(***************************************************************************)
EXTENDS PositionBook, FiniteSetTheorems, TLAPS

-----------------------------------------------------------------------------
(* The inductive invariant.  What a thread inside the book holds, and what *)
(* it relies on between two statements.                                    *)
Writing(t) == op[t].pc \in {"signal", "row"}

CallOK(t) ==
    LET o == op[t] IN
    /\ (mutex = t) <=> (Writing(t) /\ o.signal.type \in {"ENTRY", "EXIT"})
    /\ o.pc # "idle" =>
        /\ o.pc = "row" => /\ o.signal.type \in {"ENTRY", "EXIT"}
                          /\ o.signal \in strategy_signal
        /\ o.signal.type = "ENTRY" =>
             /\ o.signal.leg = NoLeg
             /\ o.pos = [ssu |-> o.signal.ssu, instrument |-> t,
                         at |-> o.signal.at]
             /\ Writing(t) => Admissible(o.signal.ssu, o.signal.at)
        /\ o.signal.type # "ENTRY" =>
             /\ o.signal.leg \in PosIds
             /\ o.signal.leg.instrument = t
             /\ o.signal.leg.ssu = o.signal.ssu
             /\ positions[o.signal.leg].side = o.signal.side
             /\ Writing(t) => o.pos = o.signal.leg
             /\ o.pc = "call" \/ o.signal.type \in Levels =>
                  positions[o.signal.leg].status = "OPEN"
             /\ Writing(t) /\ o.signal.type = "EXIT" =>
                  /\ positions[o.signal.leg].status = "CLOSED"
                  /\ positions[o.signal.leg].exit_at = o.signal.at
                  /\ virtual_position[o.signal.leg].status = "OPEN"

CallsOK == \A t \in Instruments : CallOK(t)

(* Memory and table differ only where a close has not reached the table. *)
CloseUnsaved(p) ==
    /\ positions[p].status = "CLOSED"
    /\ virtual_position[p].status = "OPEN"
    /\ positions[p].side = virtual_position[p].side
BooksAgree ==
    \A p \in PosIds : positions[p] = virtual_position[p] \/ CloseUnsaved(p)

BookInv == TypeOK /\ CallsOK /\ BooksAgree /\ RowsAreJournaled

-----------------------------------------------------------------------------
(* Every step keeps the types: a write of the table copies a row that is   *)
(* CLOSED in memory, never one that is missing there.                      *)
LEMMA TypeStep ==
    ASSUME TypeOK, CallsOK, [Next]_vars
    PROVE  TypeOK'
<1> USE ConstantsAssumption
<1>1. ASSUME NEW t \in Instruments, CallEntry(t)
      PROVE  TypeOK'
  BY <1>1 DEF TypeOK, CallEntry, store, faults, Calls, SignalIds,
              SignalTypes, PosIds, Times
<1>2. ASSUME NEW t \in Instruments, CallExit(t)
      PROVE  TypeOK'
  <2>1. PICK s \in Ssus, at \in Times, type \in SignalTypes \ {"ENTRY"} :
        \E p \in OpenOf(positions, s) :
          op' = [op EXCEPT ![t] =
                  [pc |-> "call", pos |-> NoLeg,
                   signal |-> [type |-> type, ssu |-> s, at |-> at,
                               side |-> positions[p].side, leg |-> p]]]
    BY <1>2 DEF CallExit
  <2>2. PICK p \in OpenOf(positions, s) :
          op' = [op EXCEPT ![t] =
                  [pc |-> "call", pos |-> NoLeg,
                   signal |-> [type |-> type, ssu |-> s, at |-> at,
                               side |-> positions[p].side, leg |-> p]]]
    BY <2>1
  <2>3. p \in PosIds /\ positions[p].status = "OPEN"
    BY DEF OpenOf
  <2>4. positions[p].side \in Sides
    BY <2>3 DEF TypeOK, Rows, NoRow
  <2> QED
    BY <1>2, <2>3, <2>4, <2>2
       DEF TypeOK, CallExit, store, faults, Calls, SignalIds
<1>3. ASSUME NEW t \in Instruments, OpenAccepted(t)
      PROVE  TypeOK'
  <2>1. op[t] \in Calls
    BY <1>3 DEF OpenAccepted, At, TypeOK, Idle
  <2>2. [op[t] EXCEPT !.pc = "signal"] \in Calls
    BY <2>1 DEF Calls
  <2> QED
    BY <1>3, <2>2 DEF TypeOK, OpenAccepted, store, faults
<1>4. ASSUME NEW t \in Instruments, Refused(t)
      PROVE  TypeOK'
  BY <1>4 DEF TypeOK, Refused, Return, store, faults
<1>5. ASSUME NEW t \in Instruments, CloseMarked(t)
      PROVE  TypeOK'
  <2>1. op[t] \in Calls
    BY <1>5 DEF CloseMarked, At, TypeOK, Idle
  <2>2. PICK p \in PosIds :
          /\ IsTarget(p, t, op[t].signal)
          /\ positions' = [positions EXCEPT ![p] =
                              [@ EXCEPT !.status = "CLOSED",
                                        !.exit_at = op[t].signal.at]]
          /\ op' = [op EXCEPT ![t].pc = "signal", ![t].pos = p]
    BY <1>5 DEF CloseMarked
  <2>3. positions[p].status = "OPEN"
    BY <2>2 DEF IsTarget, Matching, OpenOf
  <2>4. positions[p] \in Rows
    BY <2>3 DEF TypeOK, NoRow
  <2>5. op[t].signal.at \in 0..MaxTime
    BY <2>1 DEF Calls, SignalIds, Times
  <2>6. [positions[p] EXCEPT !.status = "CLOSED",
                             !.exit_at = op[t].signal.at] \in Rows
    BY <2>4, <2>5 DEF Rows
  <2>7. positions' \in [PosIds -> Rows \cup {NoRow}]
    BY <2>2, <2>6 DEF TypeOK
  <2>8. [op[t] EXCEPT !.pc = "signal", !.pos = p] \in Calls
    BY <2>1 DEF Calls
  <2>9. op' \in [Instruments -> {Idle} \cup Calls]
    BY <2>2, <2>8 DEF TypeOK
  <2> QED
    BY <1>5, <2>7, <2>9 DEF TypeOK, CloseMarked, store, faults
<1>6. ASSUME NEW t \in Instruments, PartialTargeted(t)
      PROVE  TypeOK'
  <2>1. op[t] \in Calls
    BY <1>6 DEF PartialTargeted, At, TypeOK, Idle
  <2>2. PICK p \in PosIds :
          op' = [op EXCEPT ![t].pc = "signal", ![t].pos = p]
    BY <1>6 DEF PartialTargeted
  <2>3. [op[t] EXCEPT !.pc = "signal", !.pos = p] \in Calls
    BY <2>1 DEF Calls
  <2> QED
    BY <1>6, <2>2, <2>3 DEF TypeOK, PartialTargeted, store, faults
<1>7. ASSUME NEW t \in Instruments, PersistSignal(t)
      PROVE  TypeOK'
  <2>1. op[t] \in Calls
    BY <1>7 DEF PersistSignal, TypeOK, Idle
  <2>2. [op[t] EXCEPT !.pc = "row"] \in Calls
    BY <2>1 DEF Calls
  <2>3. op[t].signal \in SignalIds
    BY <2>1 DEF Calls
  <2> QED
    BY <1>7, <2>2, <2>3 DEF TypeOK, PersistSignal, Return, faults
<1>8. ASSUME NEW t \in Instruments, InsertRow(t)
      PROVE  TypeOK'
  <2>1. op[t] \in Calls
    BY <1>8 DEF InsertRow, At, TypeOK, Idle
  <2>2. [side |-> op[t].signal.side, status |-> "OPEN", exit_at |-> 0] \in Rows
    BY <2>1 DEF Calls, SignalIds, Rows
  <2> QED
    BY <1>8, <2>2 DEF TypeOK, InsertRow, Return, Unlock, faults
<1>9. ASSUME NEW t \in Instruments, UpdateRow(t)
      PROVE  TypeOK'
  <2>1. op[t] \in Calls /\ op[t].signal.type = "EXIT"
    BY <1>9 DEF UpdateRow, At, TypeOK, Idle
  <2>2. op[t].pos \in PosIds
    BY <1>9, <2>1 DEF CallsOK, CallOK, Writing, UpdateRow, At
  <2>3. CallOK(t) /\ op[t].pc = "row"
    BY <1>9 DEF CallsOK, UpdateRow, At
  <2>4. Writing(t)
    BY <2>3 DEF Writing
  <2>5. /\ op[t].pos = op[t].signal.leg
        /\ positions[op[t].signal.leg].status = "CLOSED"
        /\ positions[op[t].signal.leg].exit_at = op[t].signal.at
    BY <2>1, <2>3, <2>4 DEF CallOK
  <2>6. /\ positions[op[t].pos].status = "CLOSED"
        /\ positions[op[t].pos].exit_at \in 0..MaxTime
    BY <2>1, <2>5 DEF Calls, SignalIds, Times
  <2>7. \A row \in Rows :
          [row EXCEPT !.status = positions[op[t].pos].status,
                      !.exit_at = positions[op[t].pos].exit_at] \in Rows
    BY <2>6 DEF Rows
  <2>8. virtual_position' \in [PosIds -> Rows \cup {NoRow}]
    BY <1>9, <2>2, <2>7 DEF TypeOK, UpdateRow
  <2> QED
    BY <1>9, <2>8 DEF TypeOK, UpdateRow, Return, Unlock, faults
<1>10. ASSUME NEW t \in Instruments, PersistFails(t)
       PROVE  TypeOK'
  BY <1>10 DEF TypeOK, PersistFails, Return, Unlock, store
<1>11. CASE Restart
  BY <1>11 DEF TypeOK, Restart, store
<1>12. CASE Quiet
  BY <1>12 DEF TypeOK, Quiet, vars
<1>13. CASE UNCHANGED vars
  BY <1>13 DEF TypeOK, vars
<1> QED
  BY <1>1, <1>2, <1>3, <1>4, <1>5, <1>6, <1>7, <1>8, <1>9, <1>10, <1>11,
     <1>12, <1>13 DEF Next, Step

-----------------------------------------------------------------------------
(* A signal that names its position gets that position. *)
LEMMA TargetIsLeg ==
    ASSUME NEW t \in Instruments, CallOK(t), op[t].pc = "call",
           op[t].signal.type # "ENTRY",
           NEW p \in PosIds, IsTarget(p, t, op[t].signal)
    PROVE  p = op[t].signal.leg /\ positions[p].status = "OPEN"
<1>1. /\ op[t].signal.leg \in PosIds
      /\ op[t].signal.leg.instrument = t
      /\ op[t].signal.leg.ssu = op[t].signal.ssu
      /\ positions[op[t].signal.leg].side = op[t].signal.side
      /\ positions[op[t].signal.leg].status = "OPEN"
  BY DEF CallOK
<1>2. op[t].signal.leg \in Matching(t, op[t].signal)
  BY <1>1 DEF Matching, OpenOf
<1> QED
  BY <1>1, <1>2 DEF IsTarget

(* What another thread does leaves CallOK(u) alone as long as it keeps off *)
(* the position u is closing and, while u holds the mutex, off the book.   *)
LEMMA OtherThreads ==
    ASSUME NEW u \in Instruments, CallOK(u), op'[u] = op[u],
           (mutex' = u) <=> (mutex = u),
           strategy_signal \subseteq strategy_signal',
           mutex = u => positions' = positions,
           op[u].pc # "idle" /\ op[u].signal.type # "ENTRY" =>
              /\ positions'[op[u].signal.leg] = positions[op[u].signal.leg]
              /\ virtual_position'[op[u].signal.leg] =
                    virtual_position[op[u].signal.leg]
    PROVE  CallOK(u)'
<1>1. Writing(u)' <=> Writing(u)
  BY DEF Writing
<1>2. (mutex' = u) <=> (Writing(u)' /\ op'[u].signal.type \in {"ENTRY", "EXIT"})
  BY <1>1 DEF CallOK
<1>3. ASSUME op'[u].pc # "idle", op'[u].pc = "row"
      PROVE  /\ op'[u].signal.type \in {"ENTRY", "EXIT"}
             /\ op'[u].signal \in strategy_signal'
  BY <1>3 DEF CallOK
<1>4. ASSUME op'[u].pc # "idle", op'[u].signal.type = "ENTRY"
      PROVE  /\ op'[u].signal.leg = NoLeg
             /\ op'[u].pos = [ssu |-> op'[u].signal.ssu, instrument |-> u,
                              at |-> op'[u].signal.at]
             /\ Writing(u)' => Admissible(op[u].signal.ssu, op[u].signal.at)'
  <2>1. ASSUME Writing(u) 
        PROVE  Admissible(op[u].signal.ssu, op[u].signal.at)'
    <3>1. mutex = u /\ Admissible(op[u].signal.ssu, op[u].signal.at)
      BY <1>4, <2>1 DEF CallOK
    <3> QED
      BY <3>1 DEF Admissible, GapPassed, OverlapFree, DayFree, Entered,
                  OpenOf, EnteredOn
  <2> QED
    BY <1>1, <1>4, <2>1 DEF CallOK
<1>5. ASSUME op'[u].pc # "idle", op'[u].signal.type # "ENTRY"
      PROVE  /\ op'[u].signal.leg \in PosIds
             /\ op'[u].signal.leg.instrument = u
             /\ op'[u].signal.leg.ssu = op'[u].signal.ssu
             /\ positions'[op'[u].signal.leg].side = op'[u].signal.side
             /\ Writing(u)' => op'[u].pos = op'[u].signal.leg
             /\ op'[u].pc = "call" \/ op'[u].signal.type \in Levels =>
                  positions'[op'[u].signal.leg].status = "OPEN"
             /\ Writing(u)' /\ op'[u].signal.type = "EXIT" =>
                  /\ positions'[op'[u].signal.leg].status = "CLOSED"
                  /\ positions'[op'[u].signal.leg].exit_at = op'[u].signal.at
                  /\ virtual_position'[op'[u].signal.leg].status = "OPEN"
  BY <1>1, <1>5 DEF CallOK
<1> QED
  BY <1>2, <1>3, <1>4, <1>5 DEF CallOK

(* The step keeps what every thread holds and relies on. *)
LEMMA CallsStep ==
    ASSUME BookInv, [Next]_vars
    PROVE  CallsOK'
<1> USE ConstantsAssumption
<1>0. /\ TypeOK
      /\ \A t \in Instruments : CallOK(t)
      /\ \A t \in Instruments : op[t] = Idle \/ op[t] \in Calls
      /\ \A t \in Instruments : t # NoThread
  BY DEF BookInv, CallsOK, TypeOK
<1>1. ASSUME NEW t \in Instruments, CallEntry(t), NEW u \in Instruments
      PROVE  CallOK(u)'
  <2>1. CASE u # t
    BY <1>0, <1>1, <2>1, OtherThreads DEF CallEntry, store, TypeOK
  <2>2. CASE u = t
    <3>1. mutex # t
      BY <1>0, <1>1 DEF CallOK, CallEntry, Writing
    <3>2. PICK s \in Ssus, at \in Times, side \in Sides :
            op' = [op EXCEPT ![t] =
                    [pc |-> "call",
                     pos |-> [ssu |-> s, instrument |-> t, at |-> at],
                     signal |-> [type |-> "ENTRY", ssu |-> s, at |-> at,
                                 side |-> side, leg |-> NoLeg]]]
      BY <1>1 DEF CallEntry
    <3>3. op'[t] = [pc |-> "call",
                    pos |-> [ssu |-> s, instrument |-> t, at |-> at],
                    signal |-> [type |-> "ENTRY", ssu |-> s, at |-> at,
                                side |-> side, leg |-> NoLeg]]
      BY <3>2, <1>0 DEF TypeOK
    <3> QED
      BY <1>1, <2>2, <3>1, <3>3 DEF CallOK, Writing, CallEntry
  <2> QED
    BY <2>1, <2>2
<1>2. ASSUME NEW t \in Instruments, CallExit(t), NEW u \in Instruments
      PROVE  CallOK(u)'
  <2>1. CASE u # t
    BY <1>0, <1>2, <2>1, OtherThreads DEF CallExit, store, TypeOK
  <2>2. CASE u = t
    <3>1. PICK s \in Ssus, at \in Times, type \in SignalTypes \ {"ENTRY"} :
          \E p \in OpenOf(positions, s) :
            /\ p.instrument = t
            /\ op' = [op EXCEPT ![t] =
                    [pc |-> "call", pos |-> NoLeg,
                     signal |-> [type |-> type, ssu |-> s, at |-> at,
                                 side |-> positions[p].side, leg |-> p]]]
      BY <1>2 DEF CallExit
    <3>2. PICK p \in OpenOf(positions, s) :
            /\ p.instrument = t
            /\ op' = [op EXCEPT ![t] =
                    [pc |-> "call", pos |-> NoLeg,
                     signal |-> [type |-> type, ssu |-> s, at |-> at,
                                 side |-> positions[p].side, leg |-> p]]]
      BY <3>1
    <3>3. p \in PosIds /\ p.ssu = s /\ positions[p].status = "OPEN"
      BY DEF OpenOf
    <3>4. op'[t] = [pc |-> "call", pos |-> NoLeg,
                    signal |-> [type |-> type, ssu |-> s, at |-> at,
                                side |-> positions[p].side, leg |-> p]]
      BY <3>2, <1>0 DEF TypeOK
    <3> QED
      BY <1>0, <1>2, <2>2, <3>2, <3>3, <3>4 DEF CallOK, Writing, CallExit
  <2> QED
    BY <2>1, <2>2
<1>3. ASSUME NEW t \in Instruments, OpenAccepted(t), NEW u \in Instruments
      PROVE  CallOK(u)'
  <2>1. CASE u # t
    BY <1>0, <1>3, <2>1, OtherThreads DEF OpenAccepted, store, TypeOK
  <2>2. CASE u = t
    <3>1. op[t] \in Calls
      BY <1>0, <1>3 DEF OpenAccepted, At, Idle
    <3>2. /\ op'[t].pc = "signal"
          /\ op'[t].signal = op[t].signal
          /\ op'[t].pos = op[t].pos
      BY <3>1, <1>0, <1>3 DEF OpenAccepted, TypeOK, Calls
    <3>3. Admissible(op[t].signal.ssu, op[t].signal.at)'
      BY <1>3, <3>2 DEF OpenAccepted, Admissible, GapPassed, OverlapFree,
                        DayFree, Entered, OpenOf, EnteredOn
    <3> QED
      BY <1>0, <1>3, <2>2, <3>2, <3>3 DEF CallOK, Writing, OpenAccepted, At
  <2> QED
    BY <2>1, <2>2
<1>4. ASSUME NEW t \in Instruments, Refused(t), NEW u \in Instruments
      PROVE  CallOK(u)'
  <2>1. CASE u # t
    BY <1>0, <1>4, <2>1, OtherThreads DEF Refused, Return, store, TypeOK
  <2>2. CASE u = t
    <3>1. op'[t].pc = "idle"
      BY <1>0, <1>4 DEF Refused, Return, TypeOK, Idle
    <3> QED
      BY <1>0, <1>4, <2>2, <3>1 DEF CallOK, Writing, Refused
  <2> QED
    BY <2>1, <2>2
<1>5. ASSUME NEW t \in Instruments, CloseMarked(t), NEW u \in Instruments
      PROVE  CallOK(u)'
  <2>1. PICK p \in PosIds :
          /\ IsTarget(p, t, op[t].signal)
          /\ positions' = [positions EXCEPT ![p] =
                              [@ EXCEPT !.status = "CLOSED",
                                        !.exit_at = op[t].signal.at]]
          /\ op' = [op EXCEPT ![t].pc = "signal", ![t].pos = p]
    BY <1>5 DEF CloseMarked
  <2>2. op[t] \in Calls /\ op[t].pc = "call" /\ op[t].signal.type = "EXIT"
    BY <1>0, <1>5 DEF CloseMarked, At, Idle
  <2>3. p = op[t].signal.leg /\ positions[p].status = "OPEN"
    BY <1>0, <2>1, <2>2, TargetIsLeg
  <2>4. p.instrument = t
    BY <2>1 DEF IsTarget, Matching
  <2>5. CASE u # t
    <3>1. op'[u] = op[u] /\ mutex # u /\ mutex' # u
      BY <1>0, <1>5, <2>1, <2>5 DEF CloseMarked, TypeOK
    <3>2. \A q \in PosIds : q # p => positions'[q] = positions[q]
      BY <1>0, <2>1 DEF TypeOK
    <3>3. op[u].pc # "idle" /\ op[u].signal.type # "ENTRY" =>
            /\ op[u].signal.leg \in PosIds
            /\ op[u].signal.leg.instrument = u
      BY <1>0 DEF CallOK
    <3>4. op[u].pc # "idle" /\ op[u].signal.type # "ENTRY" =>
            positions'[op[u].signal.leg] = positions[op[u].signal.leg]
      BY <2>4, <2>5, <3>2, <3>3
    <3> QED
      BY <1>0, <1>5, <3>1, <3>4, OtherThreads DEF CloseMarked, store
  <2>6. CASE u = t
    <3>1. /\ op'[t].pc = "signal"
          /\ op'[t].signal = op[t].signal
          /\ op'[t].pos = p
      BY <1>0, <2>1, <2>2 DEF TypeOK, Calls
    <3>2. positions[p] \in Rows
      BY <1>0, <2>3 DEF TypeOK, NoRow
    <3>3. /\ positions'[p].side = positions[p].side
          /\ positions'[p].status = "CLOSED"
          /\ positions'[p].exit_at = op[t].signal.at
      BY <1>0, <2>1, <3>2 DEF TypeOK, Rows
    <3>4. virtual_position[p].status = "OPEN"
      BY <2>3 DEF BookInv, BooksAgree, CloseUnsaved
    <3>5. op[t].signal.type \notin Levels
      BY <2>2
    <3>6. mutex' = t /\ virtual_position' = virtual_position
      BY <1>5 DEF CloseMarked, store
    <3> QED
      BY <1>0, <2>2, <2>3, <2>4, <2>6, <3>1, <3>3, <3>4, <3>5, <3>6
         DEF CallOK, Writing
  <2> QED
    BY <2>5, <2>6
<1>6. ASSUME NEW t \in Instruments, PartialTargeted(t), NEW u \in Instruments
      PROVE  CallOK(u)'
  <2>1. PICK p \in PosIds :
          /\ IsTarget(p, t, op[t].signal)
          /\ op' = [op EXCEPT ![t].pc = "signal", ![t].pos = p]
    BY <1>6 DEF PartialTargeted
  <2>2. op[t] \in Calls /\ op[t].pc = "call" /\ op[t].signal.type \in Levels
    BY <1>0, <1>6 DEF PartialTargeted, At, Idle
  <2>3. op[t].signal.type \notin {"ENTRY", "EXIT"}
    BY <2>2
  <2>4. p = op[t].signal.leg
    BY <1>0, <2>1, <2>2, <2>3, TargetIsLeg
  <2>5. CASE u # t
    BY <1>0, <1>6, <2>1, <2>5, OtherThreads DEF PartialTargeted, store, TypeOK
  <2>6. CASE u = t
    <3>1. /\ op'[t].pc = "signal"
          /\ op'[t].signal = op[t].signal
          /\ op'[t].pos = p
      BY <1>0, <2>1, <2>2 DEF TypeOK, Calls
    <3>2. mutex' = mutex /\ mutex # t /\ positions' = positions
      BY <1>0, <1>6 DEF PartialTargeted
    <3> QED
      BY <1>0, <2>2, <2>3, <2>4, <2>6, <3>1, <3>2 DEF CallOK, Writing
  <2> QED
    BY <2>5, <2>6
<1>7. ASSUME NEW t \in Instruments, PersistSignal(t), NEW u \in Instruments
      PROVE  CallOK(u)'
  <2>1. CASE u # t
    BY <1>0, <1>7, <2>1, OtherThreads DEF PersistSignal, Return, TypeOK
  <2>2. CASE u = t
    <3>1. op[t] \in Calls /\ op[t].pc = "signal"
      BY <1>0, <1>7 DEF PersistSignal, Idle
    <3>2. CASE op[t].signal.type \in Levels
      <4>1. op'[t].pc = "idle" /\ op[t].signal.type \notin {"ENTRY", "EXIT"}
        BY <1>0, <1>7, <3>2 DEF PersistSignal, Return, TypeOK, Idle
      <4> QED
        BY <1>0, <1>7, <2>2, <4>1 DEF CallOK, Writing, PersistSignal
    <3>3. CASE op[t].signal.type \notin Levels
      <4>1. /\ op'[t].pc = "row"
            /\ op'[t].signal = op[t].signal
            /\ op'[t].pos = op[t].pos
        BY <1>0, <1>7, <3>1, <3>3 DEF PersistSignal, TypeOK, Calls
      <4>2. op[t].signal.type \in {"ENTRY", "EXIT"}
        BY <3>1, <3>3 DEF Calls, SignalIds, SignalTypes
      <4>3. Admissible(op[t].signal.ssu, op[t].signal.at) =>
              Admissible(op[t].signal.ssu, op[t].signal.at)'
        BY <1>7, <4>1 DEF PersistSignal, Admissible, GapPassed, OverlapFree,
                          DayFree, Entered, OpenOf, EnteredOn
      <4>4. /\ mutex' = mutex /\ positions' = positions
            /\ virtual_position' = virtual_position
            /\ op[t].signal \in strategy_signal'
        BY <1>7 DEF PersistSignal
      <4> QED
        BY <1>0, <2>2, <3>1, <3>3, <4>1, <4>2, <4>3, <4>4 DEF CallOK, Writing
    <3> QED
      BY <3>2, <3>3
  <2> QED
    BY <2>1, <2>2
<1>8. ASSUME NEW t \in Instruments, InsertRow(t), NEW u \in Instruments
      PROVE  CallOK(u)'
  <2>5. CallOK(t) /\ op[t].pc = "row" /\ op[t].signal.type = "ENTRY"
    BY <1>0, <1>8 DEF InsertRow, At
  <2>6. Writing(t)
    BY <2>5 DEF Writing
  <2>1. mutex = t /\ op[t].pos.instrument = t
    BY <2>5, <2>6 DEF CallOK
  <2>2. mutex' = NoThread
    BY <1>8, <2>1 DEF InsertRow, Unlock
  <2>3. CASE u # t
    <3>1. \A q \in PosIds : q.instrument = u =>
            /\ positions'[q] = positions[q]
            /\ virtual_position'[q] = virtual_position[q]
      BY <1>0, <1>8, <2>1, <2>3 DEF InsertRow, TypeOK
    <3>2. op[u].pc # "idle" /\ op[u].signal.type # "ENTRY" =>
            /\ op[u].signal.leg \in PosIds
            /\ op[u].signal.leg.instrument = u
      BY <1>0 DEF CallOK
    <3>3. op'[u] = op[u] /\ strategy_signal' = strategy_signal
      BY <1>0, <1>8, <2>3 DEF InsertRow, Return, TypeOK
    <3> QED
      BY <1>0, <2>1, <2>2, <2>3, <3>1, <3>2, <3>3, OtherThreads
  <2>4. CASE u = t
    <3>1. op'[t].pc = "idle"
      BY <1>0, <1>8 DEF InsertRow, Return, TypeOK, Idle
    <3> QED
      BY <1>0, <2>2, <2>4, <3>1 DEF CallOK, Writing
  <2> QED
    BY <2>3, <2>4
<1>9. ASSUME NEW t \in Instruments, UpdateRow(t), NEW u \in Instruments
      PROVE  CallOK(u)'
  <2>1. CallOK(t) /\ op[t].pc = "row" /\ op[t].signal.type = "EXIT"
    BY <1>0, <1>9 DEF UpdateRow, At
  <2>2. Writing(t)
    BY <2>1 DEF Writing
  <2>3. mutex = t /\ op[t].pos = op[t].signal.leg /\ op[t].pos.instrument = t
    BY <2>1, <2>2 DEF CallOK
  <2>4. mutex' = NoThread
    BY <1>9, <2>3 DEF UpdateRow, Unlock
  <2>5. CASE u # t
    <3>1. \A q \in PosIds : q.instrument = u =>
            virtual_position'[q] = virtual_position[q]
      BY <1>0, <1>9, <2>3, <2>5 DEF UpdateRow, TypeOK
    <3>2. op[u].pc # "idle" /\ op[u].signal.type # "ENTRY" =>
            /\ op[u].signal.leg \in PosIds
            /\ op[u].signal.leg.instrument = u
      BY <1>0 DEF CallOK
    <3>3. /\ op'[u] = op[u] /\ strategy_signal' = strategy_signal
          /\ positions' = positions
      BY <1>0, <1>9, <2>5 DEF UpdateRow, Return, TypeOK
    <3> QED
      BY <1>0, <2>3, <2>4, <2>5, <3>1, <3>2, <3>3, OtherThreads
  <2>6. CASE u = t
    <3>1. op'[t].pc = "idle"
      BY <1>0, <1>9 DEF UpdateRow, Return, TypeOK, Idle
    <3> QED
      BY <1>0, <2>4, <2>6, <3>1 DEF CallOK, Writing
  <2> QED
    BY <2>5, <2>6
<1>10. ASSUME NEW t \in Instruments, PersistFails(t), NEW u \in Instruments
       PROVE  CallOK(u)'
  <2>1. CASE u # t
    BY <1>0, <1>10, <2>1, OtherThreads
       DEF PersistFails, Return, Unlock, store, TypeOK
  <2>2. CASE u = t
    <3>1. op'[t].pc = "idle" /\ mutex' # t
      BY <1>0, <1>10 DEF PersistFails, Return, Unlock, TypeOK, Idle
    <3> QED
      BY <2>2, <3>1 DEF CallOK, Writing
  <2> QED
    BY <2>1, <2>2
<1>11. ASSUME Restart, NEW u \in Instruments
       PROVE  CallOK(u)'
  BY <1>0, <1>11 DEF Restart, CallOK, Writing, Idle
<1>12. ASSUME UNCHANGED vars, NEW u \in Instruments
       PROVE  CallOK(u)'
  BY <1>0, <1>12, OtherThreads DEF vars
<1>13. CASE UNCHANGED vars
  BY <1>12, <1>13 DEF CallsOK
<1>14. CASE Next
  BY <1>1, <1>2, <1>3, <1>4, <1>5, <1>6, <1>7, <1>8, <1>9, <1>10, <1>11,
     <1>12, <1>14 DEF CallsOK, Next, Step, Quiet
<1> QED
  BY <1>13, <1>14

-----------------------------------------------------------------------------
(* What a thread about to write a row relies on. *)
LEMMA RowWriter ==
    ASSUME BookInv, NEW t \in Instruments, op[t].pc = "row"
    PROVE  /\ mutex = t
           /\ op[t] \in Calls
           /\ op[t].signal \in strategy_signal
           /\ op[t].pos \in PosIds
           /\ op[t].pos.ssu = op[t].signal.ssu
           /\ op[t].signal.type \in {"ENTRY", "EXIT"}
           /\ op[t].signal.type = "ENTRY" =>
                /\ op[t].signal.leg = NoLeg
                /\ op[t].pos.at = op[t].signal.at
                /\ Admissible(op[t].signal.ssu, op[t].signal.at)
           /\ op[t].signal.type = "EXIT" =>
                /\ op[t].signal.leg = op[t].pos
                /\ positions[op[t].pos].side = op[t].signal.side
                /\ positions[op[t].pos].status = "CLOSED"
                /\ positions[op[t].pos].exit_at = op[t].signal.at
                /\ virtual_position[op[t].pos].status = "OPEN"
                /\ virtual_position[op[t].pos].side = op[t].signal.side
<1>1. op[t] \in Calls /\ CallOK(t) /\ Writing(t)
  BY DEF BookInv, TypeOK, CallsOK, Idle, Writing
<1>2. /\ mutex = t
      /\ op[t].signal \in strategy_signal
      /\ op[t].signal.type \in {"ENTRY", "EXIT"}
  BY <1>1 DEF CallOK
<1>3. CASE op[t].signal.type = "ENTRY"
  <2>1. /\ op[t].signal.leg = NoLeg
        /\ op[t].pos = [ssu |-> op[t].signal.ssu, instrument |-> t,
                        at |-> op[t].signal.at]
        /\ Admissible(op[t].signal.ssu, op[t].signal.at)
    BY <1>1, <1>3 DEF CallOK
  <2>2. op[t].pos \in PosIds
    BY <1>1, <2>1 DEF Calls, SignalIds, PosIds
  <2> QED
    BY <1>1, <1>2, <1>3, <2>1, <2>2
<1>4. CASE op[t].signal.type = "EXIT"
  <2>1. /\ op[t].signal.leg \in PosIds
        /\ op[t].pos = op[t].signal.leg
        /\ op[t].pos.ssu = op[t].signal.ssu
        /\ positions[op[t].signal.leg].side = op[t].signal.side
        /\ positions[op[t].signal.leg].status = "CLOSED"
        /\ positions[op[t].signal.leg].exit_at = op[t].signal.at
        /\ virtual_position[op[t].signal.leg].status = "OPEN"
    BY <1>1, <1>4 DEF CallOK
  <2>2. positions[op[t].pos].side = virtual_position[op[t].pos].side
    BY <2>1 DEF BookInv, BooksAgree, CloseUnsaved
  <2> QED
    BY <1>1, <1>2, <1>4, <2>1, <2>2
<1> QED
  BY <1>2, <1>3, <1>4

(* The write of a close makes the table equal to memory. *)
LEMMA UpdateCopies ==
    ASSUME BookInv, NEW t \in Instruments, UpdateRow(t)
    PROVE  /\ virtual_position'[op[t].pos] = positions[op[t].pos]
           /\ \A p \in PosIds : p # op[t].pos =>
                virtual_position'[p] = virtual_position[p]
<1> DEFINE p == op[t].pos
           mem == positions[p]
           row == virtual_position[p]
<1>1. /\ p \in PosIds /\ mem.status = "CLOSED" /\ row.status = "OPEN"
      /\ mem.side = row.side
  BY RowWriter DEF UpdateRow, At
<1>2. mem \in Rows /\ row \in Rows /\ row # NoRow
  BY <1>1 DEF BookInv, TypeOK, NoRow
<1>3. virtual_position' =
        [virtual_position EXCEPT ![p] =
            [row EXCEPT !.status = mem.status, !.exit_at = mem.exit_at]]
  BY <1>2 DEF UpdateRow, BookInv, TypeOK
<1>4. [row EXCEPT !.status = mem.status, !.exit_at = mem.exit_at] = mem
  BY <1>1, <1>2 DEF Rows
<1> QED
  BY <1>1, <1>3, <1>4 DEF BookInv, TypeOK

LEMMA BooksStep ==
    ASSUME BookInv, [Next]_vars
    PROVE  BooksAgree'
<1>0. TypeOK /\ BooksAgree /\ CallsOK
  BY DEF BookInv
<1>1. ASSUME UNCHANGED <<positions, virtual_position>>
      PROVE  BooksAgree'
  BY <1>0, <1>1 DEF BooksAgree, CloseUnsaved
<1>2. ASSUME NEW t \in Instruments, CloseMarked(t)
      PROVE  BooksAgree'
  <2>1. PICK p \in PosIds :
          /\ IsTarget(p, t, op[t].signal)
          /\ positions' = [positions EXCEPT ![p] =
                              [@ EXCEPT !.status = "CLOSED",
                                        !.exit_at = op[t].signal.at]]
    BY <1>2 DEF CloseMarked
  <2>2. positions[p].status = "OPEN"
    BY <2>1 DEF IsTarget, Matching, OpenOf
  <2>3. positions[p] \in Rows /\ virtual_position[p] = positions[p]
    BY <1>0, <2>2 DEF TypeOK, NoRow, BooksAgree, CloseUnsaved
  <2>4. positions'[p].status = "CLOSED" /\ positions'[p].side = positions[p].side
    BY <1>0, <2>1, <2>3 DEF TypeOK, Rows
  <2>5. virtual_position' = virtual_position
    BY <1>2 DEF CloseMarked, store
  <2>6. CloseUnsaved(p)'
    BY <2>2, <2>3, <2>4, <2>5 DEF CloseUnsaved
  <2>7. \A q \in PosIds : q # p => positions'[q] = positions[q]
    BY <1>0, <2>1 DEF TypeOK
  <2> QED
    BY <1>0, <2>5, <2>6, <2>7 DEF BooksAgree, CloseUnsaved
<1>3. ASSUME NEW t \in Instruments, InsertRow(t)
      PROVE  BooksAgree'
  BY <1>0, <1>3 DEF InsertRow, BooksAgree, CloseUnsaved, TypeOK
<1>4. ASSUME NEW t \in Instruments, UpdateRow(t)
      PROVE  BooksAgree'
  <2>1. positions' = positions
    BY <1>4 DEF UpdateRow
  <2> QED
    BY <1>0, <1>4, <2>1, UpdateCopies DEF BooksAgree, CloseUnsaved
<1>5. CASE Restart
  BY <1>5 DEF Restart, BooksAgree, store
<1> QED
  BY <1>1, <1>2, <1>3, <1>4, <1>5
     DEF Next, Step, Quiet, vars, store, CallEntry, CallExit, OpenAccepted,
         Refused, PartialTargeted, PersistSignal, PersistFails

LEMMA JournalStep ==
    ASSUME BookInv, [Next]_vars
    PROVE  RowsAreJournaled'
<1>0. TypeOK /\ RowsAreJournaled
  BY DEF BookInv
<1>1. ASSUME virtual_position' = virtual_position,
             strategy_signal \subseteq strategy_signal'
      PROVE  RowsAreJournaled'
  BY <1>0, <1>1 DEF RowsAreJournaled
<1>2. ASSUME NEW t \in Instruments, InsertRow(t)
      PROVE  RowsAreJournaled'
  <2>1. /\ op[t].pos \in PosIds /\ op[t].signal \in SignalIds
        /\ op[t].signal.type = "ENTRY" /\ op[t].signal.leg = NoLeg
        /\ op[t].pos.ssu = op[t].signal.ssu
        /\ op[t].pos.at = op[t].signal.at
        /\ op[t].signal \in strategy_signal
    BY <1>2, RowWriter DEF InsertRow, At, Calls
  <2>2. op[t].signal =
          [type |-> "ENTRY", ssu |-> op[t].pos.ssu, at |-> op[t].pos.at,
           side |-> op[t].signal.side, leg |-> NoLeg]
    BY <2>1 DEF SignalIds
  <2>3. /\ virtual_position'[op[t].pos].side = op[t].signal.side
        /\ virtual_position'[op[t].pos].status = "OPEN"
        /\ strategy_signal' = strategy_signal
        /\ \A p \in PosIds : p # op[t].pos =>
              virtual_position'[p] = virtual_position[p]
    BY <1>0, <1>2, <2>1 DEF InsertRow, TypeOK
  <2> QED
    BY <1>0, <2>1, <2>2, <2>3 DEF RowsAreJournaled
<1>3. ASSUME NEW t \in Instruments, UpdateRow(t)
      PROVE  RowsAreJournaled'
  <2>1. /\ op[t].pos \in PosIds /\ op[t].signal \in SignalIds
        /\ op[t].signal.type = "EXIT" /\ op[t].signal.leg = op[t].pos
        /\ op[t].pos.ssu = op[t].signal.ssu
        /\ positions[op[t].pos].side = op[t].signal.side
        /\ positions[op[t].pos].exit_at = op[t].signal.at
        /\ virtual_position[op[t].pos].side = op[t].signal.side
        /\ virtual_position[op[t].pos].status = "OPEN"
        /\ op[t].signal \in strategy_signal
    BY <1>3, RowWriter DEF UpdateRow, At, Calls
  <2>2. op[t].signal =
          [type |-> "EXIT", ssu |-> op[t].pos.ssu,
           at |-> positions[op[t].pos].exit_at,
           side |-> positions[op[t].pos].side, leg |-> op[t].pos]
    BY <2>1 DEF SignalIds
  <2>3. strategy_signal' = strategy_signal
    BY <1>3 DEF UpdateRow
  <2>4. virtual_position[op[t].pos] # NoRow
    BY <2>1 DEF NoRow
  <2> QED
    BY <1>0, <1>3, <2>1, <2>2, <2>3, <2>4, UpdateCopies DEF RowsAreJournaled
<1> QED
  BY <1>1, <1>2, <1>3
     DEF Next, Step, Quiet, vars, store, CallEntry, CallExit, OpenAccepted,
         Refused, CloseMarked, PartialTargeted, PersistSignal, PersistFails,
         Restart

(* The book, its table and the threads inside it stay consistent for every *)
(* number of SSUs and instruments, whatever fails and whenever the process *)
(* restarts. *)
THEOREM BookInvariant == Spec => []BookInv
<1>1. Init => BookInv
  <2> SUFFICES ASSUME Init PROVE BookInv
    OBVIOUS
  <2>1. TypeOK
    <3>1. 0 \in 0..MaxTime
      BY ConstantsAssumption
    <3>2. /\ positions \in [PosIds -> Rows \cup {NoRow}]
          /\ virtual_position \in [PosIds -> Rows \cup {NoRow}]
          /\ op \in [Instruments -> {Idle} \cup Calls]
      BY DEF Init
    <3> QED
      BY <3>1, <3>2 DEF Init, TypeOK
  <2>2. CallsOK
    BY ConstantsAssumption DEF Init, CallsOK, CallOK, Writing, Idle
  <2>3. BooksAgree /\ RowsAreJournaled
    BY DEF Init, BooksAgree, RowsAreJournaled, NoRow
  <2> QED
    BY <2>1, <2>2, <2>3 DEF BookInv
<1>2. BookInv /\ [Next]_vars => BookInv'
  BY TypeStep, CallsStep, BooksStep, JournalStep DEF BookInv
<1> QED
  BY <1>1, <1>2, PTL DEF Spec

(* Every variable keeps its type. *)
THEOREM TypeCorrect == Spec => []TypeOK
<1>1. BookInv => TypeOK
  BY DEF BookInv
<1> QED
  BY <1>1, BookInvariant, PTL

(* The journal explains the table: no stored position without its entry    *)
(* signal, no stored close without the exit signal that caused it.         *)
THEOREM JournalExplainsRows == Spec => []RowsAreJournaled
<1>1. BookInv => RowsAreJournaled
  BY DEF BookInv
<1> QED
  BY <1>1, BookInvariant, PTL

(* What the strategies manage as open is stored as open. *)
THEOREM OpenPositionsStored == Spec => []OpenIsStored
<1>1. BookInv => OpenIsStored
  BY DEF BookInv, BooksAgree, CloseUnsaved, OpenIsStored
<1> QED
  BY <1>1, BookInvariant, PTL

-----------------------------------------------------------------------------
(* The limits on entries.  Memory and table hold the same entries, and     *)
(* their set only grows, by one admissible entry at a time.                *)
LEMMA SameEntries ==
    ASSUME BookInv, NEW s \in Ssus
    PROVE  Entered(positions, s) = Entered(virtual_position, s)
<1>1. \A p \in PosIds : positions[p] = NoRow <=> virtual_position[p] = NoRow
  BY DEF BookInv, BooksAgree, CloseUnsaved, NoRow
<1> QED
  BY <1>1 DEF Entered

AddsEntry(s, p) ==
    /\ p \in PosIds \ Entered(virtual_position, s)
    /\ p.ssu = s
    /\ Entered(virtual_position', s) = Entered(virtual_position, s) \cup {p}
    /\ Admissible(s, p.at)

LEMMA EntriesStep ==
    ASSUME BookInv, [Next]_vars, NEW s \in Ssus
    PROVE  \/ Entered(virtual_position', s) = Entered(virtual_position, s)
           \/ \E p \in PosIds : AddsEntry(s, p)
<1>0. TypeOK
  BY DEF BookInv
<1>1. CASE virtual_position' = virtual_position
  BY <1>1
<1>2. ASSUME NEW t \in Instruments, InsertRow(t)
      PROVE  \/ Entered(virtual_position', s) = Entered(virtual_position, s)
             \/ \E p \in PosIds : AddsEntry(s, p)
  <2>1. /\ op[t].pos \in PosIds
        /\ op[t].pos.ssu = op[t].signal.ssu
        /\ op[t].pos.at = op[t].signal.at
        /\ Admissible(op[t].pos.ssu, op[t].pos.at)
    BY <1>2, RowWriter DEF InsertRow, At
  <2>2. /\ virtual_position[op[t].pos] = NoRow
        /\ virtual_position'[op[t].pos] # NoRow
        /\ \A p \in PosIds : p # op[t].pos =>
              virtual_position'[p] = virtual_position[p]
    BY <1>0, <1>2, <2>1 DEF InsertRow, TypeOK, NoRow
  <2>3. CASE op[t].pos.ssu = s
    BY <2>1, <2>2, <2>3 DEF Entered, AddsEntry
  <2>4. CASE op[t].pos.ssu # s
    BY <2>2, <2>4 DEF Entered
  <2> QED
    BY <2>3, <2>4
<1>3. ASSUME NEW t \in Instruments, UpdateRow(t)
      PROVE  Entered(virtual_position', s) = Entered(virtual_position, s)
  <2>1. /\ op[t].pos \in PosIds
        /\ positions[op[t].pos].status = "CLOSED"
        /\ virtual_position[op[t].pos].status = "OPEN"
    BY <1>3, RowWriter DEF UpdateRow, At
  <2>2. /\ virtual_position[op[t].pos] # NoRow
        /\ virtual_position'[op[t].pos] # NoRow
    BY <1>3, <2>1, UpdateCopies DEF NoRow
  <2> QED
    BY <1>3, <2>2, UpdateCopies DEF Entered
<1> QED
  BY <1>1, <1>2, <1>3
     DEF Next, Step, Quiet, vars, store, CallEntry, CallExit, OpenAccepted,
         Refused, CloseMarked, PartialTargeted, PersistSignal, PersistFails,
         Restart

(* No two entries of an SSU are ever closer than its trade gap, in memory  *)
(* or in the table, whatever threads race, fail or restart.                *)
THEOREM GapHolds == Spec => []EntriesRespectGap
<1> DEFINE TableGap ==
      \A s \in Ssus : TradeGap[s] > 0 =>
        \A p, q \in Entered(virtual_position, s) :
            p # q => \/ p.at >= q.at + TradeGap[s]
                     \/ q.at >= p.at + TradeGap[s]
<1>1. Init => TableGap
  BY DEF Init, Entered
<1>2. BookInv /\ TableGap /\ [Next]_vars => TableGap'
  <2> SUFFICES ASSUME BookInv, TableGap, [Next]_vars, NEW s \in Ssus,
                      TradeGap[s] > 0,
                      NEW p \in Entered(virtual_position', s),
                      NEW q \in Entered(virtual_position', s), p # q
               PROVE  \/ p.at >= q.at + TradeGap[s]
                      \/ q.at >= p.at + TradeGap[s]
    OBVIOUS
  <2>1. CASE Entered(virtual_position', s) = Entered(virtual_position, s)
    BY <2>1
  <2>2. ASSUME NEW r \in PosIds, AddsEntry(s, r)
        PROVE  \/ p.at >= q.at + TradeGap[s]
               \/ q.at >= p.at + TradeGap[s]
    <3>1. \A e \in Entered(virtual_position, s) : r.at >= e.at + TradeGap[s]
      BY <2>2, SameEntries DEF AddsEntry, Admissible, GapPassed
    <3> QED
      BY <2>2, <3>1 DEF AddsEntry
  <2> QED
    BY <2>1, <2>2, EntriesStep
<1>3. BookInv /\ TableGap => EntriesRespectGap
  BY SameEntries DEF EntriesRespectGap, Books
<1> QED
  BY <1>1, <1>2, <1>3, BookInvariant, PTL DEF Spec

(* No SSU ever has more entries in a day than its cap, in memory or in the *)
(* table, whatever threads race, fail or restart.                          *)
THEOREM DailyCapHolds == Spec => []DailyCapKept
<1> DEFINE EntriesFinite == \A s \in Ssus : IsFiniteSet(Entered(virtual_position, s))
           TableCap ==
      \A s \in Ssus, d \in Nat : MaxPerDay[s] > 0 =>
        Cardinality(EnteredOn(virtual_position, s, d)) <= MaxPerDay[s]
<1>1. Init => EntriesFinite /\ TableCap
  <2> SUFFICES ASSUME Init, NEW s \in Ssus
               PROVE  /\ IsFiniteSet(Entered(virtual_position, s))
                      /\ \A d \in Nat : MaxPerDay[s] > 0 =>
                           Cardinality(EnteredOn(virtual_position, s, d))
                              <= MaxPerDay[s]
    OBVIOUS
  <2>1. Entered(virtual_position, s) = {}
    BY DEF Init, Entered
  <2>2. \A d : EnteredOn(virtual_position, s, d) = {}
    BY <2>1 DEF EnteredOn
  <2>3. MaxPerDay[s] \in Nat
    BY ConstantsAssumption
  <2> QED
    BY <2>1, <2>2, <2>3, FS_EmptySet
<1>2. BookInv /\ EntriesFinite /\ TableCap /\ [Next]_vars =>
        (EntriesFinite /\ TableCap)'
  <2> SUFFICES ASSUME BookInv, EntriesFinite, TableCap, [Next]_vars,
                      NEW s \in Ssus
               PROVE  /\ IsFiniteSet(Entered(virtual_position', s))
                      /\ \A d \in Nat : MaxPerDay[s] > 0 =>
                           Cardinality(EnteredOn(virtual_position', s, d))
                              <= MaxPerDay[s]
    BY DEF EnteredOn, Entered
  <2>1. CASE Entered(virtual_position', s) = Entered(virtual_position, s)
    BY <2>1 DEF EnteredOn
  <2>2. ASSUME NEW p \in PosIds, AddsEntry(s, p)
        PROVE  /\ IsFiniteSet(Entered(virtual_position', s))
               /\ \A d \in Nat : MaxPerDay[s] > 0 =>
                    Cardinality(EnteredOn(virtual_position', s, d))
                       <= MaxPerDay[s]
    <3>1. IsFiniteSet(Entered(virtual_position', s))
      BY <2>2, FS_AddElement DEF AddsEntry
    <3>2. ASSUME NEW d \in Nat, MaxPerDay[s] > 0
          PROVE  Cardinality(EnteredOn(virtual_position', s, d)) <= MaxPerDay[s]
      <4>1. CASE Day(p.at) # d
        <5>1. EnteredOn(virtual_position', s, d) = EnteredOn(virtual_position, s, d)
          BY <2>2, <4>1 DEF AddsEntry, EnteredOn
        <5> QED
          BY <3>2, <5>1
      <4>2. CASE Day(p.at) = d
        <5>1. EnteredOn(virtual_position', s, d) =
                EnteredOn(virtual_position, s, d) \cup {p}
          BY <2>2, <4>2 DEF AddsEntry, EnteredOn
        <5>2. IsFiniteSet(EnteredOn(virtual_position, s, d))
          BY FS_Subset DEF EnteredOn
        <5>3. EnteredOn(positions, s, d) = EnteredOn(virtual_position, s, d)
          BY SameEntries DEF EnteredOn
        <5>4. Cardinality(EnteredOn(virtual_position, s, d)) < MaxPerDay[s]
          BY <2>2, <3>2, <4>2, <5>3 DEF AddsEntry, Admissible, DayFree
        <5>5. p \notin EnteredOn(virtual_position, s, d)
          BY <2>2 DEF AddsEntry, EnteredOn
        <5>6. /\ Cardinality(EnteredOn(virtual_position, s, d)) \in Nat
              /\ Cardinality(EnteredOn(virtual_position', s, d)) =
                   Cardinality(EnteredOn(virtual_position, s, d)) + 1
          BY <5>1, <5>2, <5>5, FS_AddElement, FS_CardinalityType
        <5>7. MaxPerDay[s] \in Nat
          BY ConstantsAssumption
        <5> QED
          BY <5>4, <5>6, <5>7
      <4> QED
        BY <4>1, <4>2
    <3> QED
      BY <3>1, <3>2
  <2> QED
    BY <2>1, <2>2, EntriesStep
<1>3. BookInv /\ TableCap => DailyCapKept
  <2> SUFFICES ASSUME BookInv, TableCap, NEW s \in Ssus, NEW p \in PosIds,
                      MaxPerDay[s] > 0, NEW book \in Books
               PROVE  Cardinality(EnteredOn(book, s, Day(p.at))) <= MaxPerDay[s]
    BY DEF DailyCapKept
  <2>1. Day(p.at) \in Nat
    BY ConstantsAssumption DEF PosIds, Times, Day
  <2>2. EnteredOn(book, s, Day(p.at)) = EnteredOn(virtual_position, s, Day(p.at))
    BY SameEntries DEF EnteredOn, Books
  <2> QED
    BY <2>1, <2>2
<1> QED
  BY <1>1, <1>2, <1>3, BookInvariant, PTL DEF Spec

-----------------------------------------------------------------------------
(* The bound on open positions holds as long as no statement failed: only  *)
(* then does every close that memory knows of reach the table.             *)
CloseInFlight(p) ==
    \E t \in Instruments :
        mutex = t /\ op[t].signal.type = "EXIT" /\ op[t].pos = p
        /\ op[t].pc \in {"signal", "row"}
UnsavedIsInFlight ==
    ~failed => \A p \in PosIds : CloseUnsaved(p) => CloseInFlight(p)

LEMMA InFlightStep ==
    ASSUME BookInv, UnsavedIsInFlight, [Next]_vars
    PROVE  UnsavedIsInFlight'
<1>0. TypeOK /\ BooksAgree /\ CallsOK
  BY DEF BookInv
<1> SUFFICES ASSUME ~failed', NEW p \in PosIds, CloseUnsaved(p)'
             PROVE  CloseInFlight(p)'
  BY DEF UnsavedIsInFlight
<1>1. ~failed
  BY DEF Next, Step, Quiet, vars, faults, CallEntry, CallExit, OpenAccepted,
         Refused, CloseMarked, PartialTargeted, PersistSignal, InsertRow,
         UpdateRow, PersistFails, Restart
<1>2. ASSUME NEW t \in Instruments, t = mutex, op[t].pc \in {"signal", "row"},
             op[t].signal.type = "EXIT", op[t].pos = p,
             mutex' = mutex, op'[t].pos = p, op'[t].signal = op[t].signal,
             op'[t].pc \in {"signal", "row"}
      PROVE  CloseInFlight(p)'
  BY <1>2 DEF CloseInFlight
<1>3. ASSUME mutex' = mutex, UNCHANGED <<positions, virtual_position>>,
             \A t \in Instruments : mutex = t => op'[t] = op[t]
      PROVE  CloseInFlight(p)'
  <2>1. CloseUnsaved(p)
    BY <1>3 DEF CloseUnsaved
  <2>2. CloseInFlight(p)
    BY <1>1, <2>1 DEF UnsavedIsInFlight
  <2> QED
    BY <1>3, <2>2 DEF CloseInFlight
<1>4. ASSUME NEW t \in Instruments,
             CallEntry(t) \/ CallExit(t) \/ OpenAccepted(t) \/ Refused(t)
                \/ PartialTargeted(t)
      PROVE  CloseInFlight(p)'
  <2>1. CASE mutex = NoThread
    <3>1. ~CloseInFlight(p)
      BY <2>1, ConstantsAssumption DEF CloseInFlight
    <3>2. positions' = positions /\ virtual_position' = virtual_position
      BY <1>4 DEF CallEntry, CallExit, OpenAccepted, Refused, PartialTargeted,
                  store
    <3> QED
      BY <1>1, <3>1, <3>2 DEF UnsavedIsInFlight, CloseUnsaved
  <2>2. CASE mutex # NoThread
    <3>1. CallEntry(t) /\ mutex # t
      BY <1>0, <1>4, <2>2 DEF CallEntry, CallExit, OpenAccepted, Refused,
                              PartialTargeted, CallsOK, CallOK, Writing
    <3> QED
      BY <1>0, <1>3, <3>1 DEF CallEntry, store, TypeOK
  <2> QED
    BY <2>1, <2>2
<1>5. ASSUME NEW t \in Instruments, CloseMarked(t)
      PROVE  CloseInFlight(p)'
  <2>1. PICK q \in PosIds :
          /\ IsTarget(q, t, op[t].signal)
          /\ positions' = [positions EXCEPT ![q] =
                              [@ EXCEPT !.status = "CLOSED",
                                        !.exit_at = op[t].signal.at]]
          /\ op' = [op EXCEPT ![t].pc = "signal", ![t].pos = q]
    BY <1>5 DEF CloseMarked
  <2>2. op[t] \in Calls /\ op[t].signal.type = "EXIT"
    BY <1>0, <1>5 DEF CloseMarked, At, TypeOK, Idle
  <2>3. ~CloseInFlight(p)
    BY <1>5, ConstantsAssumption DEF CloseMarked, CloseInFlight
  <2>4. ~CloseUnsaved(p) /\ virtual_position' = virtual_position
    BY <1>1, <1>5, <2>3 DEF UnsavedIsInFlight, CloseMarked, store
  <2>5. p = q
    BY <1>0, <2>1, <2>4 DEF CloseUnsaved, TypeOK
  <2>6. /\ op'[t].pc = "signal" /\ op'[t].pos = p
        /\ op'[t].signal = op[t].signal
    BY <1>0, <2>1, <2>2, <2>5 DEF TypeOK, Calls
  <2>7. mutex' = t
    BY <1>5 DEF CloseMarked
  <2> QED
    BY <2>2, <2>6, <2>7 DEF CloseInFlight
<1>6. ASSUME NEW t \in Instruments, PersistSignal(t)
      PROVE  CloseInFlight(p)'
  <2>1. CASE mutex # t
    BY <1>0, <1>3, <1>6, <2>1 DEF PersistSignal, Return, TypeOK
  <2>2. CASE mutex = t
    <3>1. /\ op[t].signal.type \in {"ENTRY", "EXIT"} /\ op[t] \in Calls
      <4>1. op[t] \in Calls /\ CallOK(t)
        BY <1>0, <1>6 DEF CallsOK, PersistSignal, TypeOK, Idle
      <4> QED
        BY <2>2, <4>1 DEF CallOK
    <3>2. op[t].signal.type \notin Levels
      BY <3>1, ConstantsAssumption
    <3>3. /\ op'[t].pc = "row" /\ op'[t].pos = op[t].pos
          /\ op'[t].signal = op[t].signal /\ mutex' = t
      BY <1>0, <1>6, <2>2, <3>1, <3>2 DEF PersistSignal, TypeOK, Calls
    <3>4. CloseInFlight(p)
      BY <1>1, <1>6 DEF PersistSignal, UnsavedIsInFlight, CloseUnsaved
    <3>5. op[t].signal.type = "EXIT" /\ op[t].pos = p
      BY <2>2, <3>4 DEF CloseInFlight
    <3> QED
      BY <3>3, <3>5 DEF CloseInFlight
  <2> QED
    BY <2>1, <2>2
<1>7. ASSUME NEW t \in Instruments, InsertRow(t)
      PROVE  CloseInFlight(p)'
  <2>1. mutex = t /\ op[t].pos \in PosIds /\ op[t].signal.type = "ENTRY"
    BY <1>7, RowWriter DEF InsertRow, At
  <2>2. ~CloseInFlight(p)
    BY <2>1 DEF CloseInFlight
  <2>3. ~CloseUnsaved(p)
    BY <1>1, <2>2 DEF UnsavedIsInFlight
  <2>4. ~CloseUnsaved(p)'
    BY <1>0, <1>7, <2>1, <2>3 DEF InsertRow, CloseUnsaved, TypeOK
  <2> QED
    BY <2>4
<1>8. ASSUME NEW t \in Instruments, UpdateRow(t)
      PROVE  CloseInFlight(p)'
  <2>1. mutex = t /\ positions[op[t].pos].status = "CLOSED"
    BY <1>8, RowWriter DEF UpdateRow, At
  <2>2. p # op[t].pos
    BY <1>8, <2>1, UpdateCopies DEF CloseUnsaved
  <2>3. CloseUnsaved(p)
    BY <1>8, <2>2, UpdateCopies DEF UpdateRow, CloseUnsaved
  <2>4. CloseInFlight(p)
    BY <1>1, <2>3 DEF UnsavedIsInFlight
  <2> QED
    BY <2>1, <2>2, <2>4 DEF CloseInFlight
<1>9. CASE Restart
  BY <1>9 DEF Restart, CloseUnsaved, store
<1>10. CASE UNCHANGED vars
  BY <1>3, <1>10 DEF vars
<1> QED
  BY <1>1, <1>4, <1>5, <1>6, <1>7, <1>8, <1>9, <1>10
     DEF Next, Step, Quiet, PersistFails

(* While no statement has failed, restarts included, no SSU exceeds        *)
(* max_overlap, in memory or in the table.                                 *)
THEOREM OverlapHolds == Spec => []OverlapKept
<1> DEFINE EntriesFinite == \A s \in Ssus : IsFiniteSet(Entered(virtual_position, s))
           TableOverlap == ~failed =>
              \A s \in Ssus : MaxOverlap[s] > 0 =>
                Cardinality(OpenOf(virtual_position, s)) <= MaxOverlap[s]
           OverlapInv == UnsavedIsInFlight /\ EntriesFinite /\ TableOverlap
<1>0. \A s : OpenOf(virtual_position, s) \subseteq Entered(virtual_position, s)
  BY DEF OpenOf, Entered, NoRow
<1>1. Init => OverlapInv
  <2> SUFFICES ASSUME Init PROVE OverlapInv
    OBVIOUS
  <2>1. \A s \in Ssus : Entered(virtual_position, s) = {}
    BY DEF Init, Entered
  <2>2. \A s \in Ssus : OpenOf(virtual_position, s) = {}
    BY <2>1, <1>0
  <2>3. UnsavedIsInFlight
    BY DEF Init, UnsavedIsInFlight, CloseUnsaved, NoRow
  <2>4. MaxOverlap \in [Ssus -> Nat]
    BY ConstantsAssumption
  <2> QED
    BY <2>1, <2>2, <2>3, <2>4, FS_EmptySet
<1>2. BookInv /\ OverlapInv /\ [Next]_vars => OverlapInv'
  <2> SUFFICES ASSUME BookInv, OverlapInv, [Next]_vars
               PROVE  OverlapInv'
    OBVIOUS
  <2>1. UnsavedIsInFlight'
    BY InFlightStep
  <2>2. EntriesFinite'
    <3> SUFFICES ASSUME NEW s \in Ssus
                 PROVE  IsFiniteSet(Entered(virtual_position', s))
      BY DEF Entered
    <3> QED
      BY EntriesStep, FS_AddElement DEF AddsEntry
  <2>3. TableOverlap'
    <3> SUFFICES ASSUME ~failed', NEW s \in Ssus, MaxOverlap[s] > 0
                 PROVE  Cardinality(OpenOf(virtual_position', s)) <= MaxOverlap[s]
      BY DEF OpenOf
    <3>1. ~failed
      BY DEF Next, Step, Quiet, vars, faults, CallEntry, CallExit,
             OpenAccepted, Refused, CloseMarked, PartialTargeted,
             PersistSignal, InsertRow, UpdateRow, PersistFails, Restart
    <3>2. /\ IsFiniteSet(OpenOf(virtual_position, s))
          /\ Cardinality(OpenOf(virtual_position, s)) \in Nat
          /\ Cardinality(OpenOf(virtual_position, s)) <= MaxOverlap[s]
          /\ MaxOverlap[s] \in Nat
      BY <1>0, <3>1, FS_Subset, FS_CardinalityType, ConstantsAssumption
    <3>3. CASE virtual_position' = virtual_position
      BY <3>2, <3>3
    <3>4. ASSUME NEW t \in Instruments, InsertRow(t)
          PROVE  Cardinality(OpenOf(virtual_position', s)) <= MaxOverlap[s]
      <4>1. /\ mutex = t /\ op[t].pos \in PosIds
            /\ op[t].signal.type = "ENTRY"
            /\ op[t].pos.ssu = op[t].signal.ssu
            /\ OverlapFree(op[t].pos.ssu)
        BY <3>4, RowWriter DEF InsertRow, At, Admissible
      <4>2. \A p \in PosIds : positions[p] = virtual_position[p]
        BY <3>1, <4>1 DEF BookInv, BooksAgree, UnsavedIsInFlight, CloseInFlight
      <4>3. OpenOf(positions, s) = OpenOf(virtual_position, s)
        BY <4>2 DEF OpenOf
      <4>4. /\ virtual_position[op[t].pos].status # "OPEN"
            /\ virtual_position'[op[t].pos].status = "OPEN"
            /\ \A p \in PosIds : p # op[t].pos =>
                  virtual_position'[p] = virtual_position[p]
        BY <3>4, <4>1 DEF InsertRow, BookInv, TypeOK, NoRow
      <4>5. CASE op[t].pos.ssu # s
        <5>1. OpenOf(virtual_position', s) = OpenOf(virtual_position, s)
          BY <4>4, <4>5 DEF OpenOf
        <5> QED
          BY <3>2, <5>1
      <4>6. CASE op[t].pos.ssu = s
        <5>1. OpenOf(virtual_position', s) =
                OpenOf(virtual_position, s) \cup {op[t].pos}
          BY <4>1, <4>4, <4>6 DEF OpenOf
        <5>2. op[t].pos \notin OpenOf(virtual_position, s)
          BY <4>4 DEF OpenOf
        <5>3. Cardinality(OpenOf(virtual_position, s)) < MaxOverlap[s]
          BY <4>1, <4>3, <4>6 DEF OverlapFree
        <5>4. Cardinality(OpenOf(virtual_position', s)) =
                Cardinality(OpenOf(virtual_position, s)) + 1
          BY <3>2, <5>1, <5>2, FS_AddElement
        <5> QED
          BY <3>2, <5>3, <5>4
      <4> QED
        BY <4>5, <4>6
    <3>5. ASSUME NEW t \in Instruments, UpdateRow(t)
          PROVE  Cardinality(OpenOf(virtual_position', s)) <= MaxOverlap[s]
      <4>1. OpenOf(virtual_position', s) \subseteq OpenOf(virtual_position, s)
        BY <3>5, RowWriter, UpdateCopies DEF OpenOf, UpdateRow, At
      <4>2. /\ Cardinality(OpenOf(virtual_position', s))
                 <= Cardinality(OpenOf(virtual_position, s))
            /\ Cardinality(OpenOf(virtual_position', s)) \in Nat
        BY <3>2, <4>1, FS_Subset, FS_CardinalityType
      <4> QED
        BY <3>2, <4>2
    <3> QED
      BY <3>3, <3>4, <3>5
         DEF Next, Step, Quiet, vars, store, CallEntry, CallExit,
             OpenAccepted, Refused, CloseMarked, PartialTargeted,
             PersistSignal, PersistFails, Restart
  <2> QED
    BY <2>1, <2>2, <2>3
<1>3. BookInv /\ OverlapInv => OverlapKept
  <2> SUFFICES ASSUME BookInv, OverlapInv, ~failed, NEW s \in Ssus,
                      MaxOverlap[s] > 0, NEW book \in Books
               PROVE  Cardinality(OpenOf(book, s)) <= MaxOverlap[s]
    BY DEF OverlapKept
  <2>1. OpenOf(book, s) \subseteq OpenOf(virtual_position, s)
    BY DEF OpenOf, Books, BookInv, BooksAgree, CloseUnsaved
  <2>2. IsFiniteSet(OpenOf(virtual_position, s))
    BY <1>0, FS_Subset
  <2>3. /\ Cardinality(OpenOf(book, s)) <= Cardinality(OpenOf(virtual_position, s))
        /\ Cardinality(OpenOf(book, s)) \in Nat
        /\ Cardinality(OpenOf(virtual_position, s)) \in Nat
        /\ MaxOverlap[s] \in Nat
    BY <2>1, <2>2, FS_Subset, FS_CardinalityType, ConstantsAssumption
  <2> QED
    BY <2>3
<1> QED
  BY <1>1, <1>2, <1>3, BookInvariant, PTL DEF Spec

(* An exit under way finds the position it was decided for still open. *)
THEOREM TargetsStayOpen == Spec => []TargetStillOpen
<1>1. BookInv => TargetStillOpen
  <2> SUFFICES ASSUME BookInv, NEW t \in Instruments
               PROVE  /\ At(t, SignalTypes \ {"ENTRY"}, "call") =>
                           IsTarget(op[t].signal.leg, t, op[t].signal)
                      /\ At(t, Levels, "signal") =>
                           positions[op[t].pos].status = "OPEN"
    BY DEF TargetStillOpen
  <2>1. CallOK(t)
    BY DEF BookInv, CallsOK
  <2>2. ASSUME At(t, SignalTypes \ {"ENTRY"}, "call")
        PROVE  IsTarget(op[t].signal.leg, t, op[t].signal)
    <3>1. op[t].pc = "call" /\ op[t].signal.type # "ENTRY"
      BY <2>2 DEF At
    <3>2. op[t].signal.leg \in Matching(t, op[t].signal)
      BY <2>1, <3>1 DEF CallOK, Matching, OpenOf
    <3> QED
      BY <3>2 DEF IsTarget
  <2>3. ASSUME At(t, Levels, "signal")
        PROVE  positions[op[t].pos].status = "OPEN"
    <3>1. /\ op[t].pc = "signal" /\ op[t].signal.type \in Levels
          /\ op[t].signal.type # "ENTRY" /\ Writing(t)
      BY <2>3, ConstantsAssumption DEF At, Writing
    <3> QED
      BY <2>1, <3>1 DEF CallOK
  <2> QED
    BY <2>2, <2>3
<1> QED
  BY <1>1, BookInvariant, PTL

(* No step deletes a stored position, reopens a closed one or rewrites its *)
(* exit. *)
THEOREM ClosedStaysClosed == Spec => ClosedIsFinal
<1> DEFINE Final == \A p \in PosIds :
        /\ virtual_position[p].status = "CLOSED" =>
             virtual_position'[p] = virtual_position[p]
        /\ virtual_position[p].status = "OPEN" =>
             \/ virtual_position'[p] = virtual_position[p]
             \/ virtual_position'[p].status = "CLOSED"
<1>1. BookInv /\ [Next]_vars => [Final]_vars
  <2> SUFFICES ASSUME BookInv, [Next]_vars
               PROVE  Final
    OBVIOUS
  <2>1. CASE virtual_position' = virtual_position
    BY <2>1
  <2>2. ASSUME NEW t \in Instruments, InsertRow(t)
        PROVE  Final
    <3>1. virtual_position[op[t].pos].status = "none"
      BY <2>2 DEF InsertRow, NoRow
    <3>2. \A p \in PosIds : p # op[t].pos =>
            virtual_position'[p] = virtual_position[p]
      BY <2>2 DEF InsertRow, BookInv, TypeOK
    <3> QED
      BY <3>1, <3>2
  <2>3. ASSUME NEW t \in Instruments, UpdateRow(t)
        PROVE  Final
    <3>1. /\ op[t].pos \in PosIds
          /\ positions[op[t].pos].status = "CLOSED"
          /\ virtual_position[op[t].pos].status = "OPEN"
      BY <2>3, RowWriter DEF UpdateRow, At
    <3>2. /\ virtual_position'[op[t].pos] = positions[op[t].pos]
          /\ \A p \in PosIds : p # op[t].pos =>
                virtual_position'[p] = virtual_position[p]
      BY <2>3, UpdateCopies
    <3> QED
      BY <3>1, <3>2
  <2> QED
    BY <2>1, <2>2, <2>3
       DEF Next, Step, Quiet, vars, store, CallEntry, CallExit,
           OpenAccepted, Refused, CloseMarked, PartialTargeted,
           PersistSignal, PersistFails, Restart
<1> QED
  BY <1>1, BookInvariant, PTL DEF Spec, ClosedIsFinal

-----------------------------------------------------------------------------
(* Memory implements the abstract book.  BookInv tells that an entry is    *)
(* still admissible when its row is inserted, and what a restart may undo. *)

(* The steps that write the map in memory, and those that write the table. *)
LEMMA BookWriters ==
    ASSUME [Next]_vars
    PROVE  /\ \/ positions' = positions \/ Restart
              \/ \E t \in Instruments : InsertRow(t) \/ CloseMarked(t)
           /\ \/ virtual_position' = virtual_position
              \/ \E t \in Instruments : InsertRow(t) \/ UpdateRow(t)
<1>1. ASSUME NEW t \in Instruments, CallEntry(t) \/ CallExit(t)
      PROVE  positions' = positions /\ virtual_position' = virtual_position
  BY <1>1, Zenon DEF CallEntry, CallExit, store
<1>2. ASSUME NEW t \in Instruments, OpenAccepted(t) \/ Refused(t) \/ PartialTargeted(t)
      PROVE  positions' = positions /\ virtual_position' = virtual_position
  BY <1>2, Zenon DEF OpenAccepted, Refused, PartialTargeted, store
<1>3. ASSUME NEW t \in Instruments, PersistSignal(t) \/ PersistFails(t)
      PROVE  positions' = positions /\ virtual_position' = virtual_position
  BY <1>3, Zenon DEF PersistSignal, PersistFails, store
<1>4. ASSUME NEW t \in Instruments, CloseMarked(t)
      PROVE  virtual_position' = virtual_position
  BY <1>4, Zenon DEF CloseMarked, store
<1>5. ASSUME NEW t \in Instruments, UpdateRow(t)
      PROVE  positions' = positions
  BY <1>5, Zenon DEF UpdateRow
<1>6. ASSUME Restart
      PROVE  virtual_position' = virtual_position
  BY <1>6 DEF Restart, store
<1>7. ASSUME Quiet \/ UNCHANGED vars
      PROVE  positions' = positions /\ virtual_position' = virtual_position
  BY <1>7 DEF Quiet, vars
<1> QED
  BY <1>1, <1>2, <1>3, <1>4, <1>5, <1>6, <1>7 DEF Next, Step

(* A step of one thread leaves what the others are doing alone. *)
LEMMA OthersStay ==
    ASSUME TypeOK, NEW t \in Instruments, Step(t), NEW u \in Instruments, t # u
    PROVE  op'[u] = op[u]
<1>1. \E o : op' = [op EXCEPT ![t] = o]
  <2>1. CASE CallEntry(t) \/ CallExit(t)
    BY <2>1, Zenon DEF CallEntry, CallExit
  <2>2. CASE OpenAccepted(t)
    BY <2>2, Zenon DEF OpenAccepted
  <2>3. CASE CloseMarked(t) \/ PartialTargeted(t)
    BY <2>3, Zenon DEF CloseMarked, PartialTargeted
  <2>4. CASE PersistSignal(t)
    BY <2>4, Zenon DEF PersistSignal, Return
  <2>5. CASE Refused(t) \/ InsertRow(t) \/ UpdateRow(t) \/ PersistFails(t)
    BY <2>5, Zenon DEF Refused, InsertRow, UpdateRow, PersistFails, Return
  <2> QED
    BY <2>1, <2>2, <2>3, <2>4, <2>5 DEF Step
<1> QED
  BY <1>1 DEF TypeOK

(* An exit is later than the entry it names: its thread has compared them. *)
ExitLater(t) ==
    op[t].pc = "call" /\ op[t].signal.type # "ENTRY" =>
        op[t].signal.leg.at < op[t].signal.at
ExitsLater == \A t \in Instruments : ExitLater(t)

LEMMA LaterStep ==
    ASSUME TypeOK, ExitsLater, [Next]_vars
    PROVE  ExitsLater'
<1> SUFFICES ASSUME NEW u \in Instruments
             PROVE  ExitLater(u)'
  BY DEF ExitsLater
<1>0. ExitLater(u)
  BY DEF ExitsLater
<1>1. CASE op'[u] = op[u]
  BY <1>0, <1>1 DEF ExitLater
<1>2. CASE op'[u].pc # "call"
  BY <1>2 DEF ExitLater
<1>3. CASE CallEntry(u)
  <2>1. op'[u].signal.type = "ENTRY"
    BY <1>3 DEF CallEntry, TypeOK
  <2> QED
    BY <2>1 DEF ExitLater
<1>4. CASE CallExit(u)
  <2>1. PICK at \in Times, p \in PosIds :
          at > p.at /\ op'[u].signal.leg = p /\ op'[u].signal.at = at
    BY <1>4 DEF CallExit, TypeOK, OpenOf
  <2>2. at \in Nat /\ p.at \in Nat
    BY ConstantsAssumption DEF Times, PosIds
  <2> QED
    BY <2>1, <2>2 DEF ExitLater
<1>5. CASE OpenAccepted(u)
  <2>1. op' = [op EXCEPT ![u].pc = "signal"] /\ op[u] \in Calls
    BY <1>5 DEF OpenAccepted, At, TypeOK, Idle
  <2>2. op'[u].pc = "signal"
    BY <2>1 DEF TypeOK, Calls
  <2> QED
    BY <2>2, <1>2
<1>6. CASE CloseMarked(u) \/ PartialTargeted(u)
  <2>1. PICK p \in PosIds : op' = [op EXCEPT ![u].pc = "signal", ![u].pos = p]
    BY <1>6, Zenon DEF CloseMarked, PartialTargeted
  <2>2. op[u] \in Calls
    <3>1. op[u].pc = "call"
      BY <1>6, Zenon DEF CloseMarked, PartialTargeted, At
    <3> QED
      BY <3>1 DEF TypeOK, Idle
  <2>3. op'[u].pc = "signal"
    BY <2>1, <2>2 DEF TypeOK, Calls
  <2> QED
    BY <2>3, <1>2
<1>7. CASE PersistSignal(u)
  <2>1. op[u] \in Calls
    BY <1>7 DEF PersistSignal, TypeOK, Idle
  <2>2. op'[u].pc # "call"
    BY <1>7, <2>1 DEF PersistSignal, Return, TypeOK, Calls, Idle
  <2> QED
    BY <2>2, <1>2
<1>8. CASE Refused(u) \/ InsertRow(u) \/ UpdateRow(u) \/ PersistFails(u)
  <2>1. op' = [op EXCEPT ![u] = Idle]
    BY <1>8 DEF Refused, InsertRow, UpdateRow, PersistFails, Return
  <2> QED
    BY <2>1, <1>2 DEF TypeOK, Idle
<1>9. ASSUME NEW t \in Instruments, t # u, Step(t)
      PROVE  op'[u] = op[u]
  BY <1>9, OthersStay
<1>10. CASE Restart
  BY <1>10, <1>2 DEF Restart, Idle
<1>11. CASE Quiet \/ UNCHANGED vars
  BY <1>11, <1>1 DEF Quiet, vars
<1> QED
  <2>1. CASE Restart \/ Quiet \/ UNCHANGED vars
    BY <2>1, <1>10, <1>11
  <2>2. ASSUME NEW t \in Instruments, Step(t)
        PROVE  ExitLater(u)'
    <3>1. CASE t # u
      BY <2>2, <3>1, <1>1, <1>9
    <3>2. CASE t = u
      BY <2>2, <3>2, <1>3, <1>4, <1>5, <1>6, <1>7, <1>8 DEF Step
    <3> QED
      BY <3>1, <3>2
  <2> QED
    BY <2>1, <2>2 DEF Next

(* A stored position that is open has no exit, so that a restart forgets   *)
(* all of the exit that was not stored.                                    *)
OpenHasNoExit == \A p \in PosIds :
    virtual_position[p].status = "OPEN" => virtual_position[p].exit_at = 0

LEMMA NoExitStep ==
    ASSUME BookInv, OpenHasNoExit, [Next]_vars
    PROVE  OpenHasNoExit'
<1>1. CASE virtual_position' = virtual_position
  BY <1>1 DEF OpenHasNoExit
<1>2. ASSUME NEW t \in Instruments, InsertRow(t)
      PROVE  OpenHasNoExit'
  <2>1. op[t].pos \in PosIds
    BY <1>2, RowWriter DEF InsertRow, At
  <2>2. virtual_position'[op[t].pos].exit_at = 0
    BY <1>2, <2>1 DEF InsertRow, BookInv, TypeOK
  <2>3. \A p \in PosIds : p # op[t].pos => virtual_position'[p] = virtual_position[p]
    BY <1>2 DEF InsertRow, BookInv, TypeOK
  <2> QED
    BY <2>2, <2>3 DEF OpenHasNoExit
<1>3. ASSUME NEW t \in Instruments, UpdateRow(t)
      PROVE  OpenHasNoExit'
  <2>1. positions[op[t].pos].status = "CLOSED"
    BY <1>3, RowWriter DEF UpdateRow, At
  <2> QED
    BY <1>3, <2>1, UpdateCopies DEF OpenHasNoExit
<1> QED
  BY <1>1, <1>2, <1>3, BookWriters

(* FiniteSets in the abstract book and here are one module.                *)
LEMMA SameCardinality ==
    ASSUME NEW S
    PROVE  Book!Cardinality(S) = Cardinality(S)
  BY DEF Book!Cardinality, Cardinality

(* The three rules of the abstract book are those checked under the mutex. *)
LEMMA AdmissibleAdmits ==
    ASSUME NEW s \in Ssus, NEW at, Admissible(s, at)
    PROVE  Book!Admits(s, at)
<1>1. Book!Entered(s) = Entered(positions, s)
  BY DEF Book!Entered, Entered, Book!PosIds, PosIds, Book!NoRow, NoRow, Times
<1>2. Book!OpenOf(s) = OpenOf(positions, s)
  BY DEF Book!OpenOf, OpenOf, Book!PosIds, PosIds, Times
<1>3. {p \in Book!Entered(s) : Book!SameDay(at, p)} = EnteredOn(positions, s, Day(at))
  BY <1>1 DEF Book!SameDay, EnteredOn, Day
<1>4. Book!Admits(s, at) <=>
        /\ TradeGap[s] > 0 => \A p \in Entered(positions, s) : at >= p.at + TradeGap[s]
        /\ MaxOverlap[s] > 0 => Cardinality(OpenOf(positions, s)) < MaxOverlap[s]
        /\ MaxPerDay[s] > 0 =>
              Cardinality(EnteredOn(positions, s, Day(at))) < MaxPerDay[s]
  BY <1>1, <1>2, <1>3, SameCardinality, Zenon DEF Book!Admits
<1> QED
  BY <1>4, Zenon DEF Admissible, GapPassed, OverlapFree, DayFree

(* An insert is an entry of the abstract book, with its limits; the mark   *)
(* of a close is an exit; and a restart forgets exits only.                *)
LEMMA InsertRefines ==
    ASSUME BookInv, NEW t \in Instruments, InsertRow(t)
    PROVE  Book!Next
<1> DEFINE p == op[t].pos
           side == op[t].signal.side
           row == [side |-> side, status |-> "OPEN", exit_at |-> 0]
<1>1. /\ p \in PosIds /\ op[t] \in Calls
      /\ p.ssu = op[t].signal.ssu /\ p.at = op[t].signal.at
      /\ Admissible(p.ssu, p.at)
  BY RowWriter DEF InsertRow, At
<1>2. p \in Book!PosIds /\ p.ssu \in Ssus
  BY <1>1 DEF PosIds, Book!PosIds, Times
<1>3. side \in Sides
  BY <1>1 DEF Calls, SignalIds
<1>4. positions[p] = NoRow
  BY <1>1 DEF InsertRow, BookInv, BooksAgree, CloseUnsaved, NoRow
<1>5. positions' = [positions EXCEPT ![p] = row]
  BY DEF InsertRow
<1>6. positions'[p] = row
  BY <1>1, <1>5 DEF BookInv, TypeOK
<1>7. positions'[p] # positions[p]
  BY <1>4, <1>6 DEF NoRow
<1>8. Book!Admits(p.ssu, p.at)
  BY <1>1, <1>2, AdmissibleAdmits
<1>9. Book!Enter(p, side)
  BY <1>4, <1>5, <1>8 DEF Book!Enter, Book!NoRow, NoRow
<1>10. p \in Book!Changed
  BY <1>2, <1>7 DEF Book!Changed
<1> QED
  BY <1>3, <1>9, <1>10 DEF Book!Next

LEMMA CloseRefines ==
    ASSUME BookInv, ExitsLater, NEW t \in Instruments, CloseMarked(t)
    PROVE  Book!Next
<1>0. op[t].pc = "call" /\ op[t].signal.type # "ENTRY" /\ CallOK(t) /\ ExitLater(t)
      /\ op[t] \in Calls
  <2>1. op[t].pc = "call" /\ op[t].signal.type = "EXIT"
    BY DEF CloseMarked, At
  <2> QED
    BY <2>1 DEF BookInv, CallsOK, ExitsLater, TypeOK, Idle
<1>1. PICK p \in PosIds :
        /\ IsTarget(p, t, op[t].signal)
        /\ positions' = [positions EXCEPT ![p] =
                            [@ EXCEPT !.status = "CLOSED", !.exit_at = op[t].signal.at]]
  BY Zenon DEF CloseMarked
<1>2. p = op[t].signal.leg /\ positions[p].status = "OPEN"
  BY <1>0, <1>1, TargetIsLeg
<1>3. positions[p] \in Rows
  BY <1>2 DEF BookInv, TypeOK, NoRow
<1>4. positions'[p].status = "CLOSED"
  BY <1>1, <1>3 DEF BookInv, TypeOK, Rows
<1>5. p \in Book!Changed
  BY <1>2, <1>4 DEF Book!Changed, Book!PosIds, PosIds, Times
<1>6. op[t].signal.at \in 1..MaxTime /\ p.at < op[t].signal.at
  BY <1>0, <1>2 DEF ExitLater, Calls, SignalIds, Times
<1>7. Book!Exit(p, op[t].signal.at)
  BY <1>1, <1>2, <1>6 DEF Book!Exit
<1> QED
  BY <1>5, <1>6, <1>7 DEF Book!Next

LEMMA RestartRefines ==
    ASSUME BookInv, OpenHasNoExit, Restart
    PROVE  Book!Next
<1>1. positions' = virtual_position
  BY DEF Restart
<1>2. DOMAIN positions' = DOMAIN positions
  BY <1>1 DEF BookInv, TypeOK
<1>3. ASSUME NEW p \in PosIds, CloseUnsaved(p)
      PROVE  positions'[p] = Book!Reopened(positions[p])
  <2>1. positions[p] \in Rows /\ virtual_position[p] \in Rows
    BY <1>3 DEF BookInv, TypeOK, CloseUnsaved, NoRow
  <2>2. virtual_position[p].exit_at = 0
    BY <1>3 DEF CloseUnsaved, OpenHasNoExit
  <2> QED
    BY <1>1, <1>3, <2>1, <2>2 DEF CloseUnsaved, Rows, Book!Reopened
<1>4. \A p \in PosIds :
         \/ positions'[p] = positions[p]
         \/ positions[p].status = "CLOSED" /\ positions'[p] = Book!Reopened(positions[p])
  BY <1>1, <1>3 DEF BookInv, BooksAgree, CloseUnsaved
<1>5. Book!Forget
  BY <1>2, <1>4 DEF Book!Forget, Book!PosIds, PosIds, Times
<1> QED
  BY <1>5 DEF Book!Next

(* Every behaviour of the book, whatever races for it, fails or dies, is a *)
(* behaviour of VirtualBook: an entry is one step that the limits of its   *)
(* SSU admit over all trades there have been, an exit closes an open       *)
(* position once, and a restart only undoes exits.                         *)
THEOREM BookImplementsVirtualBook == Spec => ImplementsBook
<1>1. Init => Book!Init /\ ExitsLater /\ OpenHasNoExit
  BY DEF Init, Book!Init, Book!PosIds, PosIds, Times, Book!NoRow, NoRow, ExitsLater,
         ExitLater, Idle, OpenHasNoExit
<1>2. TypeOK /\ ExitsLater /\ [Next]_vars => ExitsLater'
  BY LaterStep
<1>3. BookInv /\ OpenHasNoExit /\ [Next]_vars => OpenHasNoExit'
  BY NoExitStep
<1>4. BookInv /\ ExitsLater /\ OpenHasNoExit /\ [Next]_vars => [Book!Next]_positions
  <2> SUFFICES ASSUME BookInv, ExitsLater, OpenHasNoExit, [Next]_vars
               PROVE  Book!Next \/ UNCHANGED positions
    OBVIOUS
  <2> QED
    BY InsertRefines, CloseRefines, RestartRefines, BookWriters
<1>5. BookInv => TypeOK
  BY DEF BookInv
<1> QED
  BY <1>1, <1>2, <1>3, <1>4, <1>5, BookInvariant, PTL DEF Spec, ImplementsBook, Book!Spec
-----------------------------------------------------------------------------
(* The journal without a fault.  A signal in it is about to have its effect *)
(* or has had it, and no later statement takes the effect back.            *)
InHand(g) == \E t \in Instruments : op[t].pc = "row" /\ op[t].signal = g
HasEntry(g) ==
    /\ g.type = "ENTRY"
    /\ \E p \in PosIds : /\ p.ssu = g.ssu /\ p.at = g.at
                         /\ virtual_position[p].side = g.side
HasExit(g) ==
    /\ g.type = "EXIT"
    /\ virtual_position[g.leg].status = "CLOSED"
    /\ virtual_position[g.leg].exit_at = g.at
Effected(g) == InHand(g) \/ g.type \in Levels \/ HasEntry(g) \/ HasExit(g)

(* An exit in the journal names a position.                                *)
ExitsNamed == \A g \in strategy_signal : g.type = "EXIT" => g.leg \in PosIds

JournalInv ==
    /\ ExitsNamed
    /\ ~failed /\ ~crashed => \A g \in strategy_signal : Effected(g)

(* A write of the table keeps the effect of every other signal.            *)
LEMMA EffectsStay ==
    ASSUME BookInv, NEW t \in Instruments, InsertRow(t) \/ UpdateRow(t),
           NEW g \in SignalIds, g.type = "EXIT" => g.leg \in PosIds
    PROVE  (HasEntry(g) => HasEntry(g)') /\ (HasExit(g) => HasExit(g)')
<1>1. /\ op[t].pos \in PosIds
      /\ virtual_position[op[t].pos].status # "CLOSED"
      /\ \A p \in PosIds : p # op[t].pos =>
            virtual_position'[p] = virtual_position[p]
      /\ \/ virtual_position[op[t].pos] = NoRow
         \/ virtual_position'[op[t].pos].side = virtual_position[op[t].pos].side
  <2>1. CASE InsertRow(t)
    <3>1. op[t].pos \in PosIds
      BY <2>1, RowWriter DEF InsertRow, At
    <3> QED
      BY <2>1, <3>1 DEF InsertRow, NoRow, BookInv, TypeOK
  <2>2. CASE UpdateRow(t)
    <3>1. /\ op[t].pos \in PosIds /\ virtual_position[op[t].pos].status = "OPEN"
          /\ positions[op[t].pos].side = virtual_position[op[t].pos].side
      BY <2>2, RowWriter DEF UpdateRow, At
    <3> QED
      BY <2>2, <3>1, UpdateCopies
  <2> QED
    BY <2>1, <2>2
<1>2. g.side # "none"
  BY ConstantsAssumption DEF SignalIds
<1>3. ASSUME HasEntry(g)
      PROVE  HasEntry(g)'
  <2>1. PICK p \in PosIds : p.ssu = g.ssu /\ p.at = g.at /\ virtual_position[p].side = g.side
    BY <1>3 DEF HasEntry
  <2>2. virtual_position'[p].side = g.side
    BY <1>1, <1>2, <2>1 DEF NoRow
  <2> QED
    BY <1>3, <2>1, <2>2 DEF HasEntry
<1>4. ASSUME HasExit(g)
      PROVE  HasExit(g)'
  BY <1>1, <1>4 DEF HasExit
<1> QED
  BY <1>3, <1>4

LEMMA EffectedStep ==
    ASSUME BookInv, JournalInv, [Next]_vars
    PROVE  JournalInv'
<1>0. TypeOK /\ \A t \in Instruments : CallOK(t)
  BY DEF BookInv, CallsOK
<1>1. ASSUME UNCHANGED <<virtual_position, strategy_signal>>,
             \A t \in Instruments : op[t].pc = "row" => op'[t] = op[t],
             failed' = failed, crashed' = crashed
      PROVE  JournalInv'
  BY <1>1, Zenon DEF JournalInv, ExitsNamed, Effected, InHand, HasEntry, HasExit
<1>2. ASSUME UNCHANGED <<virtual_position, strategy_signal>>, failed' \/ crashed'
      PROVE  JournalInv'
  BY <1>2 DEF JournalInv, ExitsNamed
<1>3. ASSUME NEW t \in Instruments, CallEntry(t) \/ CallExit(t) \/ OpenAccepted(t)
             \/ Refused(t) \/ CloseMarked(t) \/ PartialTargeted(t)
      PROVE  JournalInv'
  <2>1. /\ UNCHANGED <<virtual_position, strategy_signal, failed, crashed>>
        /\ op[t].pc # "row"
    <3>1. CASE CallEntry(t) \/ CallExit(t)
      BY <3>1, Zenon DEF CallEntry, CallExit, store, faults
    <3>2. CASE OpenAccepted(t) \/ CloseMarked(t)
      BY <3>2, Zenon DEF OpenAccepted, CloseMarked, At, store, faults
    <3>3. CASE Refused(t) \/ PartialTargeted(t)
      BY <3>3, Zenon DEF Refused, PartialTargeted, At, store, faults
    <3> QED
      BY <1>3, <3>1, <3>2, <3>3
  <2>2. \A u \in Instruments : op[u].pc = "row" => op'[u] = op[u]
    BY <1>0, <1>3, <2>1, OthersStay DEF Step
  <2> QED
    BY <1>1, <2>1, <2>2
<1>4. ASSUME NEW t \in Instruments, PersistSignal(t)
      PROVE  JournalInv'
  <2>0. PICK new : new = op[t].signal
    OBVIOUS
  <2>1. /\ op[t] \in Calls /\ op[t].pc = "signal" /\ new \in SignalIds
        /\ strategy_signal' = strategy_signal \cup {new}
        /\ UNCHANGED <<virtual_position, failed, crashed>>
    BY <1>0, <1>4, <2>0 DEF PersistSignal, TypeOK, Idle, Calls, faults
  <2>2. new.type = "EXIT" => new.leg \in PosIds
    BY <1>0, <2>0, <2>1 DEF CallOK
  <2>3. ExitsNamed'
    BY <2>1, <2>2 DEF JournalInv, ExitsNamed
  <2>4. ASSUME NEW g \in strategy_signal, Effected(g)
        PROVE  Effected(g)'
    <3>1. \A u \in Instruments : op[u].pc = "row" => op'[u] = op[u]
      BY <1>0, <1>4, <2>1, OthersStay DEF Step
    <3> QED
      BY <2>1, <2>4, <3>1, Zenon DEF Effected, InHand, HasEntry, HasExit
  <2>5. Effected(new)'
    <3>1. CASE new.type \in Levels
      BY <3>1 DEF Effected
    <3>2. CASE new.type \notin Levels
      <4>1. op'[t].pc = "row" /\ op'[t].signal = new
        BY <1>0, <1>4, <2>0, <2>1, <3>2 DEF PersistSignal, TypeOK, Calls
      <4> QED
        BY <4>1 DEF Effected, InHand
    <3> QED
      BY <3>1, <3>2
  <2>6. ASSUME ~failed', ~crashed', NEW g \in strategy_signal'
        PROVE  Effected(g)'
    <3>1. CASE g = new
      BY <2>5, <3>1
    <3>2. CASE g \in strategy_signal
      BY <2>1, <2>4, <2>6, <3>2 DEF JournalInv
    <3> QED
      BY <2>1, <2>6, <3>1, <3>2
  <2> QED
    BY <2>3, <2>6 DEF JournalInv
<1>5. ASSUME NEW t \in Instruments, InsertRow(t) \/ UpdateRow(t)
      PROVE  JournalInv'
  <2>0. PICK written : written = op[t].signal
    OBVIOUS
  <2>1. /\ UNCHANGED <<strategy_signal, failed, crashed>>
        /\ op[t].pc = "row"
    BY <1>5 DEF InsertRow, UpdateRow, At, faults
  <2>2. HasEntry(written)' \/ HasExit(written)'
    <3>1. CASE InsertRow(t)
      <4>1. /\ op[t].pos \in PosIds /\ op[t].pos.ssu = written.ssu
            /\ op[t].pos.at = written.at /\ written.type = "ENTRY"
        BY <2>0, <3>1, RowWriter DEF InsertRow, At
      <4>2. virtual_position'[op[t].pos].side = written.side
        BY <1>0, <2>0, <3>1, <4>1 DEF InsertRow, TypeOK
      <4> QED
        BY <4>1, <4>2 DEF HasEntry
    <3>2. CASE UpdateRow(t)
      <4>1. /\ op[t].pos \in PosIds /\ written.leg = op[t].pos
            /\ written.type = "EXIT"
            /\ positions[op[t].pos].status = "CLOSED"
            /\ positions[op[t].pos].exit_at = written.at
        BY <2>0, <3>2, RowWriter DEF UpdateRow, At
      <4>2. virtual_position'[op[t].pos] = positions[op[t].pos]
        BY <3>2, UpdateCopies
      <4> QED
        BY <4>1, <4>2 DEF HasExit
    <3> QED
      BY <1>5, <3>1, <3>2
  <2>3. ASSUME NEW g \in strategy_signal, Effected(g)
        PROVE  Effected(g)'
    <3>1. g \in SignalIds /\ (g.type = "EXIT" => g.leg \in PosIds)
      BY <1>0 DEF TypeOK, JournalInv, ExitsNamed
    <3>2. CASE InHand(g)
      <4>1. PICK u \in Instruments : op[u].pc = "row" /\ op[u].signal = g
        BY <3>2 DEF InHand
      <4>2. CASE u = t
        BY <2>0, <2>2, <4>1, <4>2 DEF Effected
      <4>3. CASE u # t
        <5>1. op'[u] = op[u]
          BY <1>0, <1>5, <4>3, OthersStay DEF Step
        <5> QED
          BY <4>1, <5>1 DEF Effected, InHand
      <4> QED
        BY <4>2, <4>3
    <3>3. CASE g.type \in Levels
      BY <3>3 DEF Effected
    <3>4. CASE HasEntry(g) \/ HasExit(g)
      BY <1>5, <3>1, <3>4, EffectsStay DEF Effected
    <3> QED
      BY <2>3, <3>2, <3>3, <3>4 DEF Effected
  <2>4. ExitsNamed'
    BY <2>1 DEF JournalInv, ExitsNamed
  <2> QED
    BY <2>1, <2>3, <2>4 DEF JournalInv
<1>6. ASSUME NEW t \in Instruments, PersistFails(t)
      PROVE  JournalInv'
  BY <1>2, <1>6 DEF PersistFails, store
<1>7. CASE Restart
  BY <1>2, <1>7 DEF Restart, store
<1>8. CASE Quiet \/ UNCHANGED vars
  BY <1>1, <1>8 DEF Quiet, vars
<1> QED
  BY <1>3, <1>4, <1>5, <1>6, <1>7, <1>8 DEF Next, Step

(* Without a failure and without a restart, every signal in the journal    *)
(* has had its effect on the table, or its thread is about to write it     *)
(* (persist_signal is committed before the row, in a transaction of its    *)
(* own).                                                                   *)
THEOREM JournalMatches == Spec => []JournalMatchesTable
<1>1. Init => JournalInv
  BY DEF Init, JournalInv, ExitsNamed
<1>2. BookInv /\ JournalInv /\ [Next]_vars => JournalInv'
  BY EffectedStep
<1>3. JournalInv => JournalMatchesTable
  BY Zenon DEF JournalInv, JournalMatchesTable, Effected, InHand, HasEntry, HasExit
<1> QED
  BY <1>1, <1>2, <1>3, BookInvariant, PTL DEF Spec

(* Whatever races and fails, every row has its signals in the journal; and *)
(* while nothing fails, every signal has had its effect.                   *)
THEOREM JournalAlwaysAgrees == Spec => []JournalAgrees
<1>1. BookInv => RowsAreJournaled
  BY DEF BookInv
<1>2. RowsAreJournaled /\ JournalMatchesTable => JournalAgrees
  BY DEF JournalAgrees
<1> QED BY <1>1, <1>2, BookInvariant, JournalMatches, PTL
=============================================================================
