\* Two brokers with ticks of the same two instruments while the SSUs are loaded
\* and reloaded once; one instrument is warmed up, the other at its first bar. A
\* copy of two bars fits into a series, a second copy pushes out the oldest bar.
CONSTANTS
    Brokers = {fyers, db}
    Instruments = {nifty, sensex}
    Triggering = {nifty, sensex}
    Warmed = {nifty}
    Ssus = {1, 2}
    TimeframeOf <- OneTimeframe
    WarmupBars = 3
    MaxRecent = 5
    StateCapacity = 5
    StoredBars = 1
    MaxBars = 3
    MaxReloads = 2
    MaxFaults = 1
    NoBroker = NoBroker
SPECIFICATION Spec
INVARIANTS InstancesAreCurrent BarsAreSeen
PROPERTIES InstalledIsRegistered ReloadEnds
