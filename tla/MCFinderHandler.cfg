CONSTANTS
    MHashes = {m1, m2}
    Providers = {p1, p2, p3}
    MaxReq = 3
    MaxValues = 2
SPECIFICATION Spec
INVARIANT ProvidersDistinct
PROPERTY ImplementsFindResponse
CHECK_DEADLOCK FALSE
