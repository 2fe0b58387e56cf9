\* One SSU, two prices, ticks up to a minute late, two reloads, a session
\* that closes in the middle of the second bar of the day.
CONSTANTS
    Ssus = {1}
    TimeframeOf <- TwoMinutes
    PeriodOf <- Period
    Prices = {1, 2}
    DayLen = 6
    SessionClose = 3
    MaxRecent = 2
    WarmupBars = 2
    StateCapacity = 2
    MaxTime = 5
    MaxLag = 1
    MaxTicks = 4
    MaxReloads = 2
    None = None
SPECIFICATION Spec
INVARIANTS BarsAreTheirTicks AnnouncedInOrder NewestIsApplied
CHECK_DEADLOCK FALSE
