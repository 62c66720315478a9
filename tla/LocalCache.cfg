SPECIFICATION CacheLenFairSpec
CONSTANTS
    g1 = g1
    g2 = g2
    c1 = c1
    k1 = k1
    k2 = k2
    Goroutines = {g1, g2}
    Caches = {c1}
    Keys = {k1, k2}
    NumShards = 2
    TTLs = {1}
    MaxTime = 2
    cacheOf <- MCcacheOf
    shardIndex <- MCshardIndex
INVARIANTS
    CacheTypeOK
    LenSound
PROPERTIES
    NoLiveEviction
    ExpiredEventuallyGone
    CloseStopsSweep
