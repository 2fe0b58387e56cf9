\* One SSU with one position at a time and two entries a day, two instruments
\* racing for them.  No gap, so that entries of one bar share a signal id.  Any
\* statement may fail and the process may die at any step.
CONSTANTS
    Ssus = {ssu1}
    Instruments = {nifty, btc}
    Sides = {"Long"}
    Levels = {"tp1"}
    NoLeg = NoLeg
    NoThread = NoThread
    MaxTime = 3
    DayLength = 4
    TradeGap <- Off
    MaxOverlap <- One
    MaxPerDay <- Two
SPECIFICATION Spec
SYMMETRY InstrumentSymmetry
INVARIANTS OpenIsStored JournalAgrees TargetStillOpen
PROPERTIES ClosedIsFinal ImplementsBook
