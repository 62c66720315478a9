SPECIFICATION FairSpec
CONSTANTS
    g1 = g1
    g2 = g2
    c1 = c1
    k1 = k1
    Goroutines = {g1, g2}
    Caches = {c1}
    cacheOf <- OneInstance
    Keys = {k1}
    NumShards = 1
    shardIndex <- MCshardIndex
    TTLs = {1}
    Window = 1
    Ms = 1
    MaxTime = 2
    ReplyLag = 1
    MaxRetries = 1
    LocalCacheEnabled = TRUE
    MaxLate = 1
    MaxLosses = 0
    Texts = {"POST", "GET", "get", " get", " GET", " ", ""}
    Methods = {"POST", "GET", "get"}
    upper <- MCupper
    trim <- MCtrim
    ExcludeMethods = {" get", " "}
    MaxRequests = 2
INVARIANTS
    TypeOK
    OutcomesAccounted
    ForwardedAreBacked
PROPERTIES
    EveryRequestAnswered
    ImplementsGate
