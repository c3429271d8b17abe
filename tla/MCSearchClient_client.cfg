CONSTANTS
    None = None
    Interval = 4
    MaxJitter = 3
    Timeout = 40
    Attempts = 2
    Backoff = 10
    Budgets <- SomeBudgets

SPECIFICATION FairClientSpec

INVARIANTS
    ClientTypeOK
    NothingOutlastsTheDeadline

PROPERTIES
    ClientIsPaced
    CallEnds
