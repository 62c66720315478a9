SPECIFICATION FleetSpec
CONSTANTS
    g1 = g1
    g2 = g2
    c1 = c1
    c2 = c2
    k1 = k1
    Goroutines = {g1, g2}
    Caches = {c1, c2}
    cacheOf <- TwoInstances
    Keys = {k1}
    NumShards = 1
    shardIndex <- MCshardIndex
    TTLs = {2}
    Window = 2
    Ms = 1
    MaxTime = 3
    ReplyLag = 0
    MaxRetries = 0
    LocalCacheEnabled = TRUE
    MaxLate = 0
    MaxLosses = 0
    MaxRestarts = 0
INVARIANTS
    FalsePositivesImpossible
