SPECIFICATION Spec
CONSTANTS
    Requests = {r1, r2, r3}
    Contexts = {c1, c2, c3}
    NoRequest = NoRequest
    NoContext = NoContext
    ConnectionLimit = 1
    QueueLimit = 2
SYMMETRY PoolSymmetry
INVARIANTS
    OwnResponse
