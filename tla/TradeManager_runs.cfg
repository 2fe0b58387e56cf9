\* Every exit mode of a long and a short trade; two bars and the start of a
\* third, the second one at the timeout; two failures or kills at any step.
CONSTANTS
    Sides = {"Long", "Short"}
    Modes = {"partial_book", "trail_then_exit", "trail_supertrend", "trail_chandelier"}
    Risk = 1
    Target <- OneStep
    Moves <- AllMoves
    Trail = 1
    BarLength = 1
    Timeout = 2
    MaxTime = 2
    MaxFaults = 2
    None = None
SPECIFICATION Spec
INVARIANTS
    BookedOncePerFault TargetsAreBooked OpenIsManaged StopExitIsTouched
PROPERTIES StopNeverLoosens StopIsTaken
