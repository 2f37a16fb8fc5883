SPECIFICATION Spec
CONSTANTS
    Requests = {r1, r2}
    Contexts = {c1, c2, c3}
    NoContext = NoContext
    ConnectionLimit = 1
    QueueLimit = 1
    MaxStreams = 2
INVARIANTS
    TypeOK
    NoStrandedRequest
    ActiveContextsAttended
PROPERTIES
    EveryRequestCompleted
