SPECIFICATION Spec
CONSTANTS
    Facts = {f1, f2}
    Callers = {c1, c2}
    ReadsFail = FALSE
    MaxAdds = 3
    Nothing = nothing
    Torn = torn
INVARIANT ClaimedOnce
CHECK_DEADLOCK FALSE
