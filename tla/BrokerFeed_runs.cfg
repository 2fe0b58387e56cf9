\* Two underlyings with two strikes; a rise is a refresh away, a fall is not.
CONSTANTS
    Brokers = {"DELTA", "FYERS", "DB", "ANGEL"}
    Unders = {u1, u2}
    u1 = u1
    u2 = u2
    FileUnder = u1
    Prices = {2, 3}
    Trigger = 50
    Width = 0
    Errors <- MCErrors
    Notifier <- MCNotifier
    MaxMoves <- MCMaxMoves
    MaxNet <- MCMaxNet
    MaxFaults <- MCMaxFaults
    None = None
SPECIFICATION Spec
INVARIANTS UniverseFollowsSpot ServerAgrees FilesAgree OperatorKnows
PROPERTIES RunResumes
CHECK_DEADLOCK FALSE
