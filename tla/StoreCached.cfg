SPECIFICATION FleetSpec
CONSTANTS
    g1 = g1
    g2 = g2
    c1 = c1
    c2 = c2
    k1 = k1
    Goroutines = {g1, g2}
    Caches = {c1}
    cacheOf <- OneInstance
    Keys = {k1}
    NumShards = 1
    shardIndex <- MCshardIndex
    TTLs = {1}
    Window = 1
    Ms = 1
    MaxTime = 3
    ReplyLag = 1
    MaxRetries = 0
    LocalCacheEnabled = TRUE
    MaxLate = 1
    MaxLosses = 0
    MaxRestarts = 1
INVARIANTS
    StoreTypeOK
    BlockBound
PROPERTIES
    NoDoubleAdmit
    ImplementsGate
SYMMETRY Symmetry
