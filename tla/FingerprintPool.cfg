SPECIFICATION Spec
CONSTANTS
    g1 = g1
    g2 = g2
    h1 = h1
    h2 = h2
    h3 = h3
    Goroutines = {g1, g2}
    Hashers = {h1, h2, h3}
    Symbols = {"POST", "PUT", "/a", "x", "y", "z"}
    Requests <- MCRequests
    ChunkLen = 1
    MaxBodyBytes = 1
INVARIANTS
    TypeOK
    KeyOfRequestOnly
SYMMETRY Symmetry
