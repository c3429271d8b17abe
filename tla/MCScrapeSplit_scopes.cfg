CONSTANTS
    Listings <- FourListings
    Earlier <- AllOrAllButOne
    Places <- ThreePlaces
    Lengths <- TwoLengths
    LengthSets <- OneLength
    Roots <- AllScopes
    Cap = 2
    PageSize = 1
    MaxChanges = 2

SPECIFICATION FairSpec

INVARIANTS
    ReturnsWholeScope
    GivesUpOnlyAtTheEnd

CHECK_DEADLOCK FALSE

PROPERTY ScrapeEnds
