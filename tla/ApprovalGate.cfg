SPECIFICATION FairSpec
CONSTANTS
    local = local
    firmwide = firmwide
    Facts <- MCFacts
    CriticalFacts = {}
    FirmWideFacts <- MCFirmWide
    Certain = 2
    Penalty = 1
    Threshold = 2
    AutoApproveEnabled = TRUE
    FirmScopeAlwaysHuman = TRUE
    People = {r1, r2}
    Nobody = nobody
    Reviewers = {r1, r2}
    OfferedConfidence = {1, 2}
    GivenConfidence = {2}
    MaxProposals = 2
    MaxPool = 2
    Nothing = nothing
INVARIANTS TypeOK QueuedAsFiled OneHolder Accounted DecidedOnce GateHolds
PROPERTIES ClaimsSettle
CHECK_DEADLOCK FALSE
