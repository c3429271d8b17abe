\* Two golden scopes, run directly, and two broad ones, collected by campaigns.
CONSTANTS
    auckland_central = auckland_central
    auckland_region = auckland_region
    north_island = north_island
    all_nz = all_nz
    central = central
    city = city
    waikato = waikato
    Listings <- TwoInAuckland
    RegionOf <- TheRegionOf
    Auckland = 1
    IslandOf <- TheIslandOf
    SouthIsland = "south-island"
    Golden <- GoldenScopes
    Broad <- BothBroad
    AllNz = all_nz
    StateFilter <- TheStateFilter
    Direct <- GoldenScopes
    Dated <- OnlyWaikato
    Earlier <- BroadBaselined
    Covered <- TheCovered
    Narrower <- TheNarrower
    Threshold <- TheThreshold
    None = None
    MaxTime = 5
SPECIFICATION Spec
CHECK_DEADLOCK FALSE

PROPERTY DelayedDataNeverReopens
