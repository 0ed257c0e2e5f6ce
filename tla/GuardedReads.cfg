SPECIFICATION FairSpec
CONSTANTS
    MaxCalls = 3
    Workers = {w1, w2}
    MaxHung = 2
    Nothing = nothing
INVARIANTS FailuresCounted ReadsInv
PROPERTIES ReplyIsFinal EveryReadReturns FewHungCallsCostOnlyThemselves
CHECK_DEADLOCK FALSE
