\* One SSU with a trade gap of 2 and one position at a time, two instruments
\* racing for it; any statement may fail and the process may die at any step.
CONSTANTS
    Ssus = {ssu1}
    Instruments = {nifty, btc}
    Sides = {"Long"}
    Levels = {"tp1"}
    NoLeg = NoLeg
    NoThread = NoThread
    MaxTime = 2
    DayLength = 2
    TradeGap <- Two
    MaxOverlap <- One
    MaxPerDay <- Off
SPECIFICATION Spec
SYMMETRY InstrumentSymmetry
INVARIANT ChangesArePersisted
