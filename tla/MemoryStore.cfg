SPECIFICATION MemorySpec
CONSTANTS
    g1 = g1
    g2 = g2
    g3 = g3
    k1 = k1
    k2 = k2
    Goroutines = {g1, g2, g3}
    Keys = {k1, k2}
    Window = 2
    MaxTime = 5
INVARIANTS
    MemoryTypeOK
PROPERTIES
    MemoryImplementsGate
