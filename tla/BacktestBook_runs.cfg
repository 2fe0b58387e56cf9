\* Two SSUs, on single minutes and on pairs of them, and two instruments with
\* equal or unequal histories; thirds of a position may be sold early.
CONSTANTS
    Ssus = {1, 2}
    Instruments = {1, 2}
    MaxTime = 5
    Histories <- MCHistories
    From = 2
    To = 5
    WarmupBars = 1
    FactorOf <- MCFactorOf
    ExitPrices = {11}
    Levels = {"tp1"}
    Units = 3
    PartialUnits = 1
    Slippage = 1
    EntryFee = 2
    ExitFee = 3
    FixedFee = 5
    FundingRate = 4
    Interval = 2
    Modes = {"signed", "absolute"}
    DayLength = 4
    TradeGap <- MCGap
    MaxOverlap <- MCOverlap
    MaxPerDay <- MCPerDay
SPECIFICATION Spec
INVARIANTS IndexesAgree NetIsCash BarsInOrder
PROPERTY ImplementsBook
