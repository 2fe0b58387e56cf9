\* One reload after the first, of two SSUs on timeframes of their own.
CONSTANTS
    Brokers = {fyers}
    Instruments = {nifty}
    Triggering = {nifty}
    Warmed = {nifty}
    Ssus = {1, 2}
    TimeframeOf <- OwnTimeframes
    WarmupBars = 1
    MaxRecent = 2
    StateCapacity = 1
    StoredBars = 1
    MaxBars = 2
    MaxReloads = 2
    MaxFaults = 0
    NoBroker = NoBroker
SPECIFICATION Spec
INVARIANT ActiveIsRegistered
