SPECIFICATION Spec
CONSTANTS
    learning = learning
    rule = rule
    task = task
    author = author
    Slugs <- MCSlugs
    Types = {learning, rule}
    Tasks = {task}
    Authors = {author}
    Notes <- MCNotes
    Certain = 9
    Penalty = 3
    None = none
    Grain = 3
    Middle = 5
    DefaultType = learning
    PoolOwner <- MCPoolOwner
    Checkout <- MCCheckout
    Domains = {}
    Calls <- MCCalls
    Queries <- MCQueries
    ForeignRows <- MCForeignRows
    MaxPool = 2
INVARIANTS LegacyRowsAreFound
CHECK_DEADLOCK FALSE
