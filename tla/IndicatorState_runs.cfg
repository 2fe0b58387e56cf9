\* Six bars of two prices, with the close as source and bands at two distances:
\* windows of two and three, so that each is filled and evicts, pivots of one bar
\* on each side, and flips by the price before and after the warmup.
CONSTANTS
    Prices = {1, 2}
    Widths = {0, 1}
    CloseSource = TRUE
    CharFlip = TRUE
    CharFlipMinAge = 1
    AtrLen = 3
    ErLen = 2
    MomLen = 3
    StructLen = 3
    PivotLen = 1
    MinWarmup = 4
    MaxTime = 6
    None = None
SPECIFICATION Spec
INVARIANTS WindowsAreExact LatestPivot
PROPERTIES LineFollowsTrend EntriesAreSound
