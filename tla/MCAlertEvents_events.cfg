\* One listing, two filters, four versions, and every window of quiet hours.
CONSTANTS
    sit = sit
    dog_sit = dog_sit
    long_sit = long_sit
    Unset = Unset
    None = None
    Listings <- TheListings
    Contents <- TheContents
    Filters <- TheFilters
    Rules <- TheRules
    LengthRange <- TheLengths
    QuietHours <- Windows
    DayLength = 3
    MaxAppearance = 2
SPECIFICATION Spec
INVARIANTS
    CurrentIsAnnounced
    NothingSaidTwiceRunning
    TypesTellTheHistory
    AnnouncementsStand
    DeliveredAtFirstChance
