CONSTANTS
    first = first
    second = second
    NoRunner = NoRunner
    Runners <- TwoRunners
    Providers <- TelegramOnly
    Tick = 5
    Margin = 1
    MinBudget = 1
    Day = 1440
    QuietEnd = 360
    CheckAt = 600
    CheckWindow = 5

SPECIFICATION FairSpec

INVARIANTS
    AtMostOneRunner
    BroadKeepsClear

PROPERTY DeliveryGoesOn
