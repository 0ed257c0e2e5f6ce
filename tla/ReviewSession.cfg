SPECIFICATION SessionSpec
CONSTANTS
    fact = fact
    other = other
    Facts <- MCFacts
    CriticalFacts = {}
    FirmWideFacts = {}
    Certain = 2
    Penalty = 1
    Threshold = 2
    AutoApproveEnabled = FALSE
    FirmScopeAlwaysHuman = TRUE
    People = {r1, r2}
    Nobody = nobody
    Reviewers = {r1, r2}
    OfferedConfidence = {1, 2}
    GivenConfidence = {2}
    MaxProposals = 2
    MaxPool = 1
    Nothing = nothing
    Proposed <- MCProposed
    Editors = {r1}
    Same = same
    Unscoped = unscoped
    Untyped = untyped
    Unfit = unfit
INVARIANTS EndorsedAsShown SessionInv
PROPERTIES NoDecisionHidden
CHECK_DEADLOCK FALSE
