SPECIFICATION Spec
CONSTANTS
    g1 = g1
    g2 = g2
    Goroutines = {g1, g2}
    MaxRequests = 3
INVARIANTS
    MiddlewareTypeOK
    HeadersOnEveryResponse
    PanicsAnswered
    RedirectsAreOK
    CountersAgree
    ProblemsSurface
SYMMETRY Symmetry
