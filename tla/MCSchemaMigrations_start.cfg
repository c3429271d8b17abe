\* Two processes that initialize the database before they work, one beside the other.
CONSTANTS
    Processes <- TwoProcesses
    Files <- TheFiles
    Builds <- TheBuilds
    StandsFor <- TheRows
    Repeatable <- IfNotExists
    InitialFile = "initial"
    ScopesTable = "scopes_table"
    AlertsFile = "alert_events"
    AlertsTable = "events_table"
    HistoryTable = "schema_migrations"
    Databases <- AllDatabases

SPECIFICATION FairSpec

INVARIANTS
    RecordedIsBuilt
    WorksOnWholeSchema

PROPERTIES
    CadencesStay
    StartsInTheEnd
