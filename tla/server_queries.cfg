CONSTANTS
    Clients = {c1}
    Tasks = {t1}
    Cleaner = cleaner
    Sweep <- TwoTables
    MaxHandle = 2
    MaxQuery = 2
    Breaks = TRUE
    None = none
SPECIFICATION FairSpec
INVARIANTS QueriesAttributed CleanupIsComplete
PROPERTIES OrphansOnlyByRace LeaseReclaims
