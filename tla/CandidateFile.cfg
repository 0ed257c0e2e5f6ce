SPECIFICATION Spec
CONSTANTS
    Facts = {f1, f2}
    Callers = {c1, c2}
    ReadsFail = TRUE
    MaxAdds = 3
    Nothing = nothing
    Torn = torn
INVARIANTS WholeQueue ClaimedOnceUnlessMisled FileInv
PROPERTIES ImplementsStore
CHECK_DEADLOCK FALSE
