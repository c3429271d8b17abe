\* The home runner and a --deliver-alerts command beside it; email has no provider.
CONSTANTS
    home_runner = home_runner
    cli = cli
    Events <- TwoEvents
    Channels <- TwoChannels
    Configured <- TelegramOnly
    Reliable <- TelegramOnly
    Workers <- TwoProcesses
    Runners <- OneProcess

SPECIFICATION FairSpec
CHECK_DEADLOCK FALSE

INVARIANT
    TypeOK

PROPERTIES
    KeepsOutbox
    RecordedIsFinal
    EverythingIsSent
