SPECIFICATION FairSpec
CONSTANTS
    g1 = g1
    g2 = g2
    Malformed = Malformed
    Unreadable = Unreadable
    Goroutines = {g1, g2}
    Files <- MCFiles
    MaxStarts = 2
    MaxAccepted = 3
INVARIANTS
    TypeOK
    StoreOutlivesHandlers
    CleanExitLosesNothing
PROPERTIES
    ShutdownCompletes
    RequestsEnd
