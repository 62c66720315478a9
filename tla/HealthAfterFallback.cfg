SPECIFICATION FairSpec
CONSTANTS
    g1 = g1
    g2 = g2
    Malformed = Malformed
    Unreadable = Unreadable
    Goroutines = {g1}
    Files <- DefaultFile
    MaxStarts = 1
    MaxAccepted = 1
PROPERTIES
    HealthyWhenReachable
