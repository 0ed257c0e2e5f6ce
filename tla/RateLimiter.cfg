SPECIFICATION Spec
CONSTANTS
    Clients = {c1, c2}
    Limit = 2
    Window = 2
    SweepAt = 1
    LastTick = 5
    Nothing = nothing
INVARIANTS TypeOK BurstsBounded RefusedForCause LimiterInv
PROPERTIES TableHoldsRecent
