SPECIFICATION Spec
CONSTANTS
    sound = sound
    dubious = dubious
    weak = weak
    stray = stray
    poisoned = poisoned
    vast = vast
    rule = rule
    here = here
    elsewhere = elsewhere
    d1 = d1
    d2 = d2
    mixed = mixed
    b1 = b1
    b2 = b2
    Texts = {sound, dubious, weak, stray, poisoned, vast}
    Blank = blank
    Types = {rule}
    Untyped = untyped
    NotANumber = nan
    Huge = huge
    Unreadable = unreadable
    Endless = endless
    Judged <- MCJudged
    Documents = {d1, d2, mixed}
    Scopes = {here, elsewhere}
    ScopeOf <- MCScopeOf
    Misfiled = {mixed}
    Certain = 2
    Middle = 1
    MinConfidence = 1
    MaxFacts = 2
    Bots = {b1, b2}
    Batches <- MCBatches
    Replies <- MCReplies
    Failed = failed
    MaxRuns = 2
    Nothing = nothing
INVARIANTS OneBadFactCostsOnlyItself
CHECK_DEADLOCK FALSE
