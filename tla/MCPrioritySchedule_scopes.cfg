CONSTANTS
    auckland_central = auckland_central
    north_shore_city = north_shore_city
    auckland_region = auckland_region
    Scopes <- ThreeScopes
    Id <- Rows
    CellsOf <- Map
    Interval <- Cadence
    TickInterval = 2
    Grace = 1
    MaxRetry = 8
    WafCooldown = 6
    MaxAge = 8

SPECIFICATION Spec

INVARIANTS
    FreshMeansSeen
    NobodyStarves

PROPERTIES
    ChallengedScopeRests
    AttemptsAreSpaced
