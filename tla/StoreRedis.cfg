SPECIFICATION FleetSpec
CONSTANTS
    g1 = g1
    g2 = g2
    c1 = c1
    c2 = c2
    k1 = k1
    Goroutines = {g1, g2}
    Caches = {c1, c2}
    cacheOf <- TwoInstances
    Keys = {k1}
    NumShards = 1
    shardIndex <- MCshardIndex
    TTLs = {1}
    Window = 1
    Ms = 1
    MaxTime = 2
    ReplyLag = 1
    MaxRetries = 1
    LocalCacheEnabled = FALSE
    MaxLate = 1
    MaxLosses = 1
    MaxRestarts = 1
PROPERTIES
    NoDoubleAdmit
    ImplementsGate
SYMMETRY InstanceSymmetry
