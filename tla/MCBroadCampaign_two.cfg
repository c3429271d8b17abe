\* The home runner and a --run-due command beside it, which takes no lock.
CONSTANTS
    runner = runner
    cli = cli
    north_island = north_island
    all_nz = all_nz
    c1 = c1
    c2 = c2
    c3 = c3
    Scopes <- TheScopes
    RegionsOf <- TheRegionsOf
    Workers <- TwoProcesses
    Runners <- OneProcess
    Ids <- ThreeIds
    None = None
    LeafDelays = {1}
    SplitCooldown = 1
    FailureCooldown = 1
    WafInitial = 2
    WafMax = 4
    MaxChallenges = 1
    MaxOverrun = 1
    Disturbances = {"manual_scrape"}
SPECIFICATION Spec
SYMMETRY IdSymmetry
INVARIANTS
    PendingWhileActive
PROPERTIES
    CollectsWholeScopes
