\* Two golden scopes, run directly, and two broad ones, collected by campaigns; an
\* operator runs one of these directly as well.
CONSTANTS
    auckland_central = auckland_central
    auckland_region = auckland_region
    north_island = north_island
    all_nz = all_nz
    central = central
    city = city
    waikato = waikato
    Listings <- TwoInAuckland
    RegionOf <- TheRegionOf
    Auckland = 1
    IslandOf <- TheIslandOf
    SouthIsland = "south-island"
    Golden <- GoldenScopes
    Broad <- BothBroad
    AllNz = all_nz
    StateFilter <- TheStateFilter
    Direct <- GoldenAndByHand
    Dated <- OnlyWaikato
    Earlier <- BroadBaselined
    Covered <- TheCovered
    Narrower <- TheNarrower
    Threshold <- TheThreshold
    None = None
    MaxTime = 7
SPECIFICATION Spec
SYMMETRY SameScopes
CHECK_DEADLOCK FALSE

INVARIANTS
    EvidenceHasOneOwner
    MissesAreAbsences

PROPERTIES
    LaterSightingWins
    ConfirmedByThreshold
    EndedIsClosed
