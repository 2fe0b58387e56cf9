\* Two SSUs on the same timeframe, whose history is shorter than what the series
\* keeps, loaded once.
CONSTANTS
    Ssus = {1, 2}
    TimeframeOf <- TwoMinutes
    PeriodOf <- Period
    Prices = {1}
    DayLen = 12
    SessionClose = None
    MaxRecent = 6
    WarmupBars = 3
    StateCapacity = 2
    MaxTime = 6
    MaxLag = 1
    MaxTicks = 0
    MaxReloads = 1
    None = None
SPECIFICATION Spec
INVARIANTS RecentInOrder
CHECK_DEADLOCK FALSE
