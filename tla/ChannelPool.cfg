SPECIFICATION Spec
CONSTANTS
    Requests = {r1, r2}
    Contexts = {c1, c2, c3}
    NoRequest = NoRequest
    NoContext = NoContext
    ConnectionLimit = 1
    QueueLimit = 1
INVARIANTS
    TypeOK
    ConnectionLimitHeld
    NoStrandedRequest
    InUseIsReturned
    OwnResponseUnlessRaced
PROPERTIES
    EveryRequestCompleted
