SPECIFICATION Spec
CONSTANTS
    Setups <- MCSetups
    Policies <- MCPolicies
    Day = 6
    Ist = 1
    RunsAt <- MCRunsAt
    Settle = 3
    Expiries = {1, 2, 4}
    TokenLife = 4
    MaxRun = 1
    MaxFaults = 1
    None = None
INVARIANTS
    FeedKeepsSession
    DayIsPrepared
    MasterIsWhole
PROPERTIES
    PicksAreAlive
