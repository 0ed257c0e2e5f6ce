SPECIFICATION Spec
CONSTANTS
    Facts = {f1}
    CriticalFacts = {}
    FirmWideFacts = {}
    Certain = 3
    Penalty = 2
    Threshold = 3
    AutoApproveEnabled = FALSE
    FirmScopeAlwaysHuman = TRUE
    People = {p1, p2, p3}
    Nobody = nobody
    Reporters = {p1, p2, p3}
    Ids = {i1, i2}
    Absent = absent
INVARIANTS PenaltyOnce RecordedStaysFlagged FlagIsExplained CorrectionsInv
CHECK_DEADLOCK FALSE
