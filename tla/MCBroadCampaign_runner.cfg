\* One home runner, as the lock of --run-continuously enforces.
CONSTANTS
    runner = runner
    cli = cli
    north_island = north_island
    all_nz = all_nz
    c1 = c1
    c2 = c2
    c3 = c3
    Scopes <- TheScopes
    RegionsOf <- TheRegionsOf
    Workers <- OneProcess
    Runners <- OneProcess
    Ids <- TwoIds
    None = None
    LeafDelays = {1, 2}
    SplitCooldown = 2
    FailureCooldown = 3
    WafInitial = 4
    WafMax = 8
    MaxChallenges = 1
    MaxOverrun = 1
    Disturbances = {"priority_waf"}
SPECIFICATION FairSpec

INVARIANT
    ExactCover

PROPERTIES
    WafPauseKept
    FreshOnlyWhenWhole
    CampaignEnds
