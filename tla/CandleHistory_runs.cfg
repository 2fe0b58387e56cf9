\* Up to three trades in three minutes of two clock units, two faults, chunks
\* of two minutes; the session of FYERS is the first two minutes, and the day
\* changes at the horizon.  Maintenance is due in the middle of a minute.
CONSTANTS
    Prices = {1, 2}
    MinuteLen = 2
    MaxMinute = 2
    MaxTrades = 3
    MaxFaults = 2
    Sources = {"DELTA", "FYERS"}
    DayLen = 4
    DayOffset = 1
    OpenMinute = 1
    CloseMinute = 3
    Retention = 2
    Reconcile = 1
    Chunk = 2
    MaintenanceAt = 5
    Factor = 2
    Limit = 1
    NoCandle = NoCandle
SPECIFICATION Spec
INVARIANTS StoredIsExact WarmupBarsExact
PROPERTIES TakenOnce SyncFills CandleLeavesMemory
CHECK_DEADLOCK FALSE
